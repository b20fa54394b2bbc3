-------------------------------- MODULE Engine --------------------------------
(***************************************************************************)
(* What the engine answers about a stored date: /session, /chain,          *)
(* /summary, /presets and /analyse (src/payoff/api.py, chain.py,           *)
(* catalog.py, models.py, strategy.py).                                    *)
(*                                                                         *)
(* An exposure is what black76_greeks is asked, its arguments; an optional *)
(* field is a set of at most one value.  The curve, the table and the      *)
(* metrics of an analysis are StrategyLine's.  An answer's `raised` names  *)
(* the exception it ends in, or "none".                                    *)
(***************************************************************************)
EXTENDS ChainDay, Sequences, FiniteSetsExt

CONSTANTS
  OtherSeries,  \* an Expiry the date did not trade
  NotALabel,    \* text that is no Expiry
  MaxLegs       \* bound: Legs of one question

ASSUME LabelsAssumption == OtherSeries # Expiry /\ NotALabel \notin {Expiry, OtherSeries}
ASSUME QuestionAssumption == MaxLegs \in Nat

Labels == {Expiry, OtherSeries, NotALabel}

LegRequest == [strike : Strikes, option_type : Sides, expiry : Labels,
               direction : {1, -1}, quantity : {1}]

ForwardLevels == Levels \cup Spots

Exposure == [strike : Strikes, option_type : Sides, forward : ForwardLevels,
             dte_days : Nat, iv : Volatility]

ChainQuote == [last : Bar, age_minutes : Nat, delta : SUBSET Exposure]

ForwardMethod == {"parity_fit", "single_strike_parity", "spot"}

\* The response models.  A whole minute of age is a natural: no quote is from
\* the future.
StrikeRow == [strike : Strikes, iv : Volatility,
              call : SUBSET ChainQuote, put : SUBSET ChainQuote]

ChainResponse == [raised : {"none"}, moment : Minutes, spot : Spots, expiry : {Expiry},
                  forward : ForwardLevels, forward_method : ForwardMethod, rows : SUBSET StrikeRow]

SummaryResponse == [raised : {"none"}, moment : Minutes, expiry : {Expiry}, spot : Spots,
                    forward : ForwardLevels, forward_method : ForwardMethod,
                    atm_strike : Strikes, atm_iv : Volatility]

LegGreeks == [of : SUBSET Exposure, scale : Int]

SessionResponse == [expiry : {Expiry}, moments : (SUBSET Minutes) \ {{}},
                    strike_min : Strikes, strike_max : Strikes]

PresetResponse == [raised : {"none"}, legs : Seq(LegRequest)]

AnalysisResponse == [raised : {"none"}, moment : Minutes, spot : Spots, forward : ForwardLevels,
                     greeks : Seq(LegGreeks),
                     total_greeks : SUBSET LegGreeks]

\* api.py's exception handlers; anything else is a 500.
Handled == [UnknownExpiry |-> 404, StrikeNotQuoted |-> 404,
            NotPriceable |-> 422, UnreadableExpiry |-> 422, MixedExpiry |-> 422]

------------------------------------------------------------------------------
(* The minute's facts, off the Summary. *)

\* parse_label: anything but a label is refused before anything is looked up.
readable(label) == label # NotALabel

\* The Expiries of the date, off the manifest.
traded == {Expiry}

\* catalog.require, of a label: strict.
require(label) ==
  IF ~readable(label) THEN "UnreadableExpiry"
  ELSE IF label \in traded THEN "none" ELSE "UnknownExpiry"

\* catalog.resolve, of a label: forgiving.
resolve(label) == IF label \in traded THEN label ELSE CHOOSE one \in traded : TRUE

\* What a read keyed by a series ends in, by what it finds there.
refusal(label, found) ==
  IF require(label) = "none" /\ found = {} THEN "StrikeNotQuoted" ELSE require(label)

theMinute(moment) == CHOOSE minute \in minute_summary(moment) : TRUE

forward_at(moment) == summary[theMinute(moment)]

spot_at(moment) == spot[theMinute(moment)]

at_the_money(moment) == forward_at(moment).atm_strike
at_the_money_volatility(moment) == forward_at(moment).atm_iv

read_summary(moment, label) ==
  LET problem == refusal(label, minute_summary(moment))
  IN  IF problem # "none" THEN [raised |-> problem]
      ELSE [raised |-> problem, moment |-> moment, expiry |-> Expiry, spot |-> spot_at(moment),
            forward |-> forward_at(moment).forward, forward_method |-> forward_at(moment).method,
            atm_strike |-> at_the_money(moment), atm_iv |-> at_the_money_volatility(moment)]

------------------------------------------------------------------------------
(* The Chain as-of a moment. *)

asked(strike, side, fit, iv) ==
  [strike |-> strike, option_type |-> side, forward |-> fit.forward,
   dte_days |-> fit.dte_days, iv |-> iv]

\* The Greeks at a volatility; at Expiry and after it raises.
black76_greeks(strike, side, fit, iv) ==
  IF fit.dte_days > 0 THEN {asked(strike, side, fit, iv)} ELSE {}

\* The Expiry line's slope needs no volatility.
expiry_delta(strike, side, fit) == asked(strike, side, fit, NoVolatility)

delta(strike, side, fit, iv) ==
  IF fit.dte_days <= 0 THEN {expiry_delta(strike, side, fit)}
  ELSE IF iv = NoVolatility THEN {} ELSE black76_greeks(strike, side, fit, iv)

\* The rows of the minute, none where either lookup raises.
rowsAt(moment) == IF minute_summary(moment) = {} THEN {} ELSE minute_slice(moment)

\* The bug of pricing each side at its own print's volatility.
snapshot_eachSidesOwn(moment) ==
  LET rows == rowsAt(moment)
      fit == forward_at(moment)
  IN  {[strike |-> row.strike, option_type |-> row.option_type, last |-> PrintedAs(row),
        strike_iv |-> strike_volatility({other \in rows : other.strike = row.strike}),
        age_minutes |-> moment - row.quoted_at,
        delta |-> delta(row.strike, row.option_type, fit, row.iv)] : row \in rows}

\* Each side at the strike's one volatility and this minute's Forward and clock.
snapshot(moment) ==
  LET rows == rowsAt(moment)
      fit == forward_at(moment)
      strike_iv(row) == strike_volatility({other \in rows : other.strike = row.strike})
  IN  {[strike |-> row.strike, option_type |-> row.option_type, last |-> PrintedAs(row),
        strike_iv |-> strike_iv(row), age_minutes |-> moment - row.quoted_at,
        delta |-> delta(row.strike, row.option_type, fit, strike_iv(row))] : row \in rows}

chainRow(quotes, strike) ==
  LET side(type) == {[last |-> q.last, age_minutes |-> q.age_minutes, delta |-> q.delta] :
                       q \in {q \in quotes : q.strike = strike /\ q.option_type = type}}
  IN  [strike |-> strike, call |-> side("CE"), put |-> side("PE"),
       iv |-> (CHOOSE q \in quotes : q.strike = strike).strike_iv]

read_chain(moment, label) ==
  LET quotes == snapshot(moment)
      problem == refusal(label, quotes)
  IN  IF problem # "none" THEN [raised |-> problem]
      ELSE [raised |-> problem, moment |-> moment, expiry |-> Expiry, spot |-> spot_at(moment),
            forward |-> forward_at(moment).forward, forward_method |-> forward_at(moment).method,
            rows |-> {chainRow(quotes, strike) : strike \in quotedStrikes(quotes)}]

------------------------------------------------------------------------------
(* What a client asks first, and what it asks about a Preset. *)

\* The stops of the time control are the Summary's minutes.
stops == DOMAIN summary

\* The bug of the strikes of the opening minute.
strike_bounds_opening ==
  LET strikes == {row.strike : row \in {row \in chain : row.timestamp_utc = Min(stops)}}
  IN  <<Min(strikes), Max(strikes)>>

\* The day's range, not a minute's.
strike_bounds ==
  LET strikes == {row.strike : row \in chain}
  IN  <<Min(strikes), Max(strikes)>>

read_session(label) ==
  [expiry |-> resolve(label), moments |-> stops,
   strike_min |-> strike_bounds[1], strike_max |-> strike_bounds[2]]

\* A straddle of the minute, in the series the Chain is of; the other shapes
\* are laid about the same strike.
build_preset(moment, label) ==
  LET problem == refusal(label, minute_summary(moment))
      leg(side) == [strike |-> at_the_money(moment), option_type |-> side, expiry |-> Expiry,
                    direction |-> 1, quantity |-> 1]
  IN  IF problem # "none" THEN [raised |-> problem]
      ELSE [raised |-> problem, legs |-> <<leg("CE"), leg("PE")>>]

------------------------------------------------------------------------------
(* The analysis of a Strategy, over the snapshot of its minute. *)

quoteOf(request, quotes) ==
  {q \in quotes : q.strike = request.strike /\ q.option_type = request.option_type}

\* What one Leg meets in resolve_legs' loop.
meets(request, quotes) ==
  LET problem == refusal(request.expiry, quotes)
  IN  IF problem # "none" THEN problem
      ELSE IF quoteOf(request, quotes) = {} THEN "StrikeNotQuoted"
      ELSE IF \E q \in quoteOf(request, quotes) : q.strike_iv = NoVolatility THEN "NotPriceable"
      ELSE "none"

\* The Legs are looked up in order, so the first that cannot be priced is the
\* one reported.
unresolved(requests, quotes) ==
  LET refused == {i \in DOMAIN requests : meets(requests[i], quotes) # "none"}
  IN  IF refused = {} THEN "none" ELSE meets(requests[Min(refused)], quotes)

\* Each Leg at the volatility of its strike and the price it last traded at.
resolve_legs(requests, quotes) ==
  [i \in DOMAIN requests |->
     LET quote == CHOOSE q \in quoteOf(requests[i], quotes) : TRUE
     IN  [strike |-> quote.strike, option_type |-> quote.option_type,
          scale |-> requests[i].direction * requests[i].quantity,
          entry_premium |-> quote.last, iv |-> quote.strike_iv]]

\* The Expiries are parsed before they are compared, and compared before
\* anything is looked up.
sole_expiry(requests) ==
  LET spanned == {requests[i].expiry : i \in DOMAIN requests}
  IN  CASE NotALabel \in spanned -> "UnreadableExpiry"
        [] NotALabel \notin spanned /\ Cardinality(spanned) > 1 -> "MixedExpiry"
        [] OTHER -> "none"

\* The bug of pricing every Leg at the volatility of the money.
leg_greeks_atTheMoney(legs, fit) ==
  [i \in DOMAIN legs |->
     [of |-> black76_greeks(legs[i].strike, legs[i].option_type, fit, fit.atm_iv),
      scale |-> legs[i].scale]]

leg_greeks(legs, fit) ==
  [i \in DOMAIN legs |->
     [of |-> black76_greeks(legs[i].strike, legs[i].option_type, fit, legs[i].iv),
      scale |-> legs[i].scale]]

\* The exposures summed: each of them as often as it is held.
total_greeks(rows) ==
  {[of |-> {exposure},
    scale |-> MapThenSumSet(LAMBDA i : rows[i].scale, {i \in DOMAIN rows : exposure \in rows[i].of})]
   : exposure \in UNION {rows[i].of : i \in DOMAIN rows}}

analyse(requests, moment, quotes) ==
  LET sole == sole_expiry(requests)
      unpriced == unresolved(requests, quotes)
      problem == IF sole # "none" THEN sole
                 ELSE IF unpriced # "none" THEN unpriced
                 ELSE refusal(Expiry, minute_summary(moment))
      rows == leg_greeks(resolve_legs(requests, quotes), forward_at(moment))
  IN  IF problem # "none" THEN [raised |-> problem]
      ELSE IF \E i \in DOMAIN rows : rows[i].of = {} THEN [raised |-> "ValueError"]
      ELSE [raised |-> problem, moment |-> moment, spot |-> spot_at(moment),
            forward |-> forward_at(moment).forward, greeks |-> rows,
            total_greeks |-> total_greeks(rows)]

------------------------------------------------------------------------------
(* Properties of a stored date. *)

timeLeft(moment) == \A minute \in minute_summary(moment) : summary[minute].dte_days > 0

Refusal == [raised : DOMAIN Handled]

\* A long Leg of a contract of the series.
Buy(contract) == [strike |-> contract[1], option_type |-> contract[2], expiry |-> Expiry,
                  direction |-> 1, quantity |-> 1]

Strategies == UNION {[1..n -> {Buy(contract) : contract \in Strikes \X Sides}] : n \in 0..MaxLegs}

\* The header and the table of one moment are read from two artifacts by two
\* rules, and the two endpoints answer of one minute: the same refusal, or the
\* same Spot, Forward and rung, with the header's money a row of the table and
\* its volatility that row's (read_summary, read_chain, summary_frame).
HeaderIsTheTables ==
  stage = "stored" =>
    \A moment \in Minutes, label \in Labels :
      LET header == read_summary(moment, label)
          table == read_chain(moment, label)
      IN  /\ header.raised = table.raised
          /\ header.raised = "none" =>
               /\ header.spot = table.spot /\ header.forward = table.forward
               /\ header.forward_method = table.forward_method
               /\ \E row \in table.rows : row.strike = header.atm_strike /\ row.iv = header.atm_iv

\* No read of a stored date, at a minute with a bar or between two, breaks on
\* its own response model, a quote from the future the likeliest way to; and
\* while time is left no question about Legs ends in an exception api.py has
\* no handler for.
AnswersFitTheirModels ==
  stage = "stored" =>
    \A moment \in Minutes :
      LET quotes == snapshot(moment) IN
      /\ \A label \in Labels : /\ read_chain(moment, label) \in ChainResponse \cup Refusal
                               /\ read_summary(moment, label) \in SummaryResponse \cup Refusal
                               /\ build_preset(moment, label) \in PresetResponse \cup Refusal
                               /\ read_session(label) \in SessionResponse
      /\ timeLeft(moment) =>
           \A request \in LegRequest :
             analyse(<<request>>, moment, quotes) \in AnalysisResponse \cup Refusal

\* A call's delta and its put's differ by exactly 1 at every strike
\* (models.py, LegGreeks.delta): however far apart the two sides last printed,
\* both are priced at one Forward, one clock and one volatility.  While time is
\* left, a side has a delta exactly where its strike has a volatility.
DeltasArePairs ==
  stage = "stored" =>
    \A moment \in Minutes :
      LET quotes == snapshot(moment) IN
      \A quote \in quotes :
        /\ \A other \in quotes :
             quote.strike = other.strike =>
               {[exposure EXCEPT !.option_type = "CE"] : exposure \in quote.delta}
                 = {[exposure EXCEPT !.option_type = "CE"] : exposure \in other.delta}
        /\ timeLeft(moment) => ((quote.delta = {}) <=> (quote.strike_iv = NoVolatility))

\* The contracts the interface offers, by what /chain shows, and those
\* /analyse accepts.
offered(quotes) ==
  {<<quote.strike, quote.option_type>> : quote \in {q \in quotes : q.strike_iv # NoVolatility}}

accepted(moment, quotes) ==
  {contract \in Strikes \X Sides : analyse(<<Buy(contract)>>, moment, quotes).raised = "none"}

OffersAreAccepted(moment) ==
  LET quotes == snapshot(moment) IN offered(quotes) = accepted(moment, quotes)

\* "The set of strikes the interface offers and the set the engine can price
\* must be the same set" (tests/test_api_strikes.py:182), at every minute,
\* Expiry's close included.
OfferedIsAcceptedToTheClose ==
  stage = "stored" => \A moment \in Minutes : OffersAreAccepted(moment)

\* What /session answers "is never an empty Chain and never a session
\* describing a day /chain would refuse" (api.py:152), whatever the link named:
\* at every minute it lists the Chain and the header are served, every strike
\* they show lies in its range, and the last of them shows both ends of it.
SessionIsServed ==
  stage = "stored" =>
    \A session \in {read_session(label) : label \in Labels} :
      LET tables == [moment \in session.moments |-> read_chain(moment, session.expiry)]
          shown == [moment \in session.moments |-> {row.strike : row \in tables[moment].rows}]
      IN  /\ \A moment \in session.moments :
               /\ tables[moment].raised = "none"
               /\ read_summary(moment, session.expiry).raised = "none"
               /\ shown[moment] # {}
               /\ \A strike \in shown[moment] :
                    session.strike_min <= strike /\ strike <= session.strike_max
          /\ {session.strike_min, session.strike_max} \subseteq shown[Max(session.moments)]

\* An analysis is of the Chain on screen, while time is left.  What the table
\* offers is what is priced, a carried side, an unpriceable one and one that has
\* not printed included.  A Strategy is priced where each of its Legs alone is,
\* at the Forward and the Spot of that table, and a Leg's exposure is the delta
\* its row shows, in the order the Legs were sent (resolve_legs, leg_greeks,
\* _snapshot).
AnalysisIsOfTheChain ==
  stage = "stored" =>
    \A moment \in {moment \in Minutes : timeLeft(moment)} :
      LET quotes == snapshot(moment)
          priced == accepted(moment, quotes)
      IN  /\ OffersAreAccepted(moment)
          /\ minute_summary(moment) # {} =>
               \A legs \in Strategies :
                 LET answer == analyse(legs, moment, quotes)
                 IN  IF \A i \in DOMAIN legs : <<legs[i].strike, legs[i].option_type>> \in priced
                     THEN /\ answer.forward = forward_at(moment).forward
                          /\ answer.spot = spot_at(moment)
                          /\ \A i \in DOMAIN legs :
                               \A quote \in quoteOf(legs[i], quotes) :
                                 answer.greeks[i].of = quote.delta
                     ELSE answer.raised # "none"
==============================================================================
