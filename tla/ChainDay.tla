------------------------------- MODULE ChainDay -------------------------------
(***************************************************************************)
(* One trading date from its bars to the two artifacts that serve it, and  *)
(* the readings of them (src/payoff/derive.py, forward.py, chain.py,       *)
(* scripts/build_runtime.py).                                              *)
(*                                                                         *)
(* A price is the bar it was printed in, a volatility the bar it was       *)
(* inverted from.  What the numerics decide is left open: whether the      *)
(* regression passes its gate, the Forward it or parity gives, and which   *)
(* prices some volatility reproduces.  The series is the one the dataset   *)
(* has.                                                                    *)
(***************************************************************************)
EXTENDS TradingClock

CONSTANTS
  Strikes,
  Levels,        \* Forwards the fits may give
  Spots,         \* levels of the index
  MIN_PAIRS,     \* fewer pairs than this are not regressed
  NoVolatility,  \* null
  MaxBars        \* bound: bars of one date

Sides == {"CE", "PE"}

Bar == [ts : Minutes, strike : Strikes, option_type : Sides]

ForwardFit == [forward : Levels \cup Spots,
               method : {"parity_fit", "single_strike_parity", "spot"}]

Volatility == Bar \cup {NoVolatility}

ChainRow == [timestamp_utc : Minutes, quoted_at : Minutes, strike : Strikes,
             option_type : Sides, forward : Levels \cup Spots, iv : Volatility]

Header == [forward : Levels \cup Spots,
           method : {"parity_fit", "single_strike_parity", "spot"},
           dte_days : Nat, pairs : Nat, atm_strike : Strikes, atm_iv : Volatility]

ASSUME MarketAssumption ==
  /\ Strikes \subseteq Nat /\ IsFiniteSet(Strikes)
  /\ Levels \subseteq Nat /\ Spots \subseteq Nat
  /\ MIN_PAIRS \in Nat \ {0} /\ MaxBars \in Nat
  /\ NoVolatility \notin Bar

VARIABLES
  on,       \* the date being built
  stage,    \* "bars" while the date is read, "fits" while it is fitted, "stored"
  quoted,   \* its bars
  spot,     \* the index at each minute with a bar
  fits,     \* the ForwardFit of each minute fitted
  solvable, \* the bars whose price some volatility reproduces
  chain,    \* the stored Chain
  summary   \* the stored Summary: a Header for each minute

vars == <<on, stage, quoted, spot, fits, solvable, chain, summary>>

\* The minutes with a bar: what groupby("ts") and moments() walk.
moments == {bar.ts : bar \in quoted}

TypeOK ==
  /\ on \in TradingDates
  /\ stage \in {"bars", "fits", "stored"}
  /\ quoted \in SUBSET Bar
  /\ spot \in [moments -> Spots]
  /\ DOMAIN fits \subseteq moments /\ fits \in [DOMAIN fits -> ForwardFit]
  /\ solvable \in SUBSET quoted
  /\ chain \in SUBSET ChainRow
  /\ DOMAIN summary \subseteq moments /\ summary \in [DOMAIN summary -> Header]

------------------------------------------------------------------------------
(* The bars. *)

Bars(minute) == {bar \in quoted : bar.ts = minute}

\* The strikes quoting both sides in one minute.
paired(bars) ==
  {strike \in Strikes : \A side \in Sides :
     \E bar \in bars : bar.strike = strike /\ bar.option_type = side}

quotedStrikes(bars) == {bar.strike : bar \in bars}

Away(strike, level) == IF strike < level THEN level - strike ELSE strike - level

Nearest(strikes, level) ==
  {strike \in strikes : \A other \in strikes : Away(strike, level) <= Away(other, level)}

\* The bars of the next minute that traded, any of them, and the index there.
Trade(minute) ==
  /\ stage = "bars"
  /\ \A earlier \in moments : earlier < minute
  /\ \E contracts \in (SUBSET (Strikes \X Sides)) \ {{}}, level \in Spots :
       /\ quoted' = quoted \cup
            {[ts |-> minute, strike |-> c[1], option_type |-> c[2]] : c \in contracts}
       /\ Cardinality(quoted') <= MaxBars
       /\ spot' = [at \in moments \cup {minute} |-> IF at = minute THEN level ELSE spot[at]]
  /\ UNCHANGED <<on, stage, fits, solvable, chain, summary>>

------------------------------------------------------------------------------
(* The Forward and the volatilities. *)

\* The rungs a minute may come off: the regression where there are pairs
\* enough and time left, if its gate lets it; else parity at the strike
\* nearest Spot where that one is paired; else Spot.  Of two strikes as near
\* either may come first.
fit_forward(minute) ==
  LET bars == Bars(minute)
      nearest == Nearest(quotedStrikes(bars), spot[minute])
  IN  {fit \in ForwardFit :
         \/ /\ fit.method = "parity_fit" /\ fit.forward \in Levels
            /\ Cardinality(paired(bars)) >= MIN_PAIRS
            /\ dte_days(on, minute) > 0
         \/ /\ fit.method = "single_strike_parity" /\ fit.forward \in Levels
            /\ \E strike \in nearest : strike \in paired(bars)
         \/ /\ fit.method = "spot" /\ fit.forward = spot[minute]
            /\ \E strike \in nearest : strike \notin paired(bars)}

\* The next minute of the one groupby pass.
Fit(minute) ==
  /\ stage \in {"bars", "fits"}
  /\ minute \in moments \ DOMAIN fits
  /\ \A other \in moments \ DOMAIN fits : minute <= other
  /\ stage' = "fits"
  /\ \E fit \in fit_forward(minute) :
       fits' = [at \in DOMAIN fits \cup {minute} |-> IF at = minute THEN fit ELSE fits[at]]
  /\ UNCHANGED <<on, quoted, spot, solvable, chain, summary>>

\* The bars whose price lies between the two ends of the search bracket are
\* any of those with time left.
attainable(bars) == \A bar \in bars : dte_days(on, bar.ts) > 0

outOfMoney(bar) ==
  LET forward == fits[bar.ts].forward
  IN  IF bar.option_type = "CE" THEN bar.strike >= forward ELSE bar.strike < forward

\* The bug of falling through to the other side without asking whether the
\* out-of-the-money one has answered.
inverted_everySide(bars) == bars

\* The out-of-the-money side where it can be inverted, else the other.
inverted(bars) ==
  {bar \in bars :
     \/ outOfMoney(bar)
     \/ ~\E other \in bars :
          other.ts = bar.ts /\ other.strike = bar.strike /\ outOfMoney(other)}

solved_volatility(bars, minute, strike) ==
  LET at == {bar \in inverted(bars) : bar.ts = minute /\ bar.strike = strike}
  IN  IF at = {} THEN NoVolatility ELSE CHOOSE bar \in at : TRUE

------------------------------------------------------------------------------
(* The stored Chain and the Summary reduced from it. *)

\* The bug of filling a strike before its first trade.
InHand_backwards(minute) ==
  {bar \in quoted :
     ~\E later \in quoted :
          /\ bar.ts < later.ts /\ later.ts <= minute
          /\ later.strike = bar.strike /\ later.option_type = bar.option_type}

\* The bars forward_fill has in hand at a minute: of each contract that has
\* traded, the last.
InHand(minute) ==
  {bar \in quoted :
     /\ bar.ts <= minute
     /\ ~\E later \in quoted :
          /\ bar.ts < later.ts /\ later.ts <= minute
          /\ later.strike = bar.strike /\ later.option_type = bar.option_type}

\* The bug of joining the volatility on the minute the row is served at.
Row_minutesVolatility(minute, bar, bars) ==
  [timestamp_utc |-> minute, quoted_at |-> bar.ts, strike |-> bar.strike,
   option_type |-> bar.option_type, forward |-> fits[minute].forward,
   iv |-> solved_volatility(bars, minute, bar.strike)]

\* CARRIED comes with the bar, PER_MINUTE with the minute.
Row(minute, bar, bars) ==
  [timestamp_utc |-> minute, quoted_at |-> bar.ts, strike |-> bar.strike,
   option_type |-> bar.option_type, forward |-> fits[minute].forward,
   iv |-> solved_volatility(bars, bar.ts, bar.strike)]

carry_forward(bars) == UNION {{Row(minute, bar, bars) : bar \in InHand(minute)} : minute \in moments}

\* A strike's one volatility among its rows: the freshest that has one.
strike_volatility(rows) ==
  LET having == {row \in rows : row.iv # NoVolatility}
      freshest == {row \in having : \A other \in having : other.quoted_at <= row.quoted_at}
  IN  IF freshest = {} THEN NoVolatility ELSE (CHOOSE row \in freshest : TRUE).iv

\* The rows actually stamped at their minute.
STRICT(rows) == {row \in rows : row.quoted_at = row.timestamp_utc}

\* The bug of choosing the money among every strike quoted.
at_the_money_strike_unpaired(rows, forward) ==
  LET nearest == Nearest(quotedStrikes(rows), forward)
  IN  CHOOSE strike \in nearest : \A other \in nearest : strike <= other

at_the_money_strike(rows, forward) ==
  LET candidates == IF paired(rows) # {} THEN paired(rows) ELSE quotedStrikes(rows)
      nearest == Nearest(candidates, forward)
  IN  CHOOSE strike \in nearest : \A other \in nearest : strike <= other

summary_frame(filled) ==
  [minute \in {row.timestamp_utc : row \in STRICT(filled)} |->
     LET rows == {row \in STRICT(filled) : row.timestamp_utc = minute}
         forward == (CHOOSE row \in rows : TRUE).forward
         money == at_the_money_strike(rows, forward)
     IN  [forward |-> forward,
          method |-> fits[minute].method,
          dte_days |-> dte_days(on, minute),
          pairs |-> Cardinality(paired(rows)),
          atm_strike |-> money,
          atm_iv |-> strike_volatility(
            {row \in filled : row.timestamp_utc = minute /\ row.strike = money})]]

\* The volatilities are solved for the whole date and both artifacts written
\* from the one frame.
write_day ==
  /\ stage = "fits"
  /\ DOMAIN fits = moments
  /\ \E bars \in SUBSET quoted :
       /\ attainable(bars)
       /\ solvable' = bars
       /\ chain' = carry_forward(bars)
       /\ summary' = summary_frame(carry_forward(bars))
  /\ stage' = "stored"
  /\ UNCHANGED <<on, quoted, spot, fits>>

\* The build's loop moves on to the next date it has bars for.
NextDate ==
  /\ stage = "stored"
  /\ \E date \in TradingDates :
       /\ on < date
       /\ \A other \in TradingDates : on < other => date <= other
       /\ on' = date
  /\ stage' = "bars"
  /\ quoted' = {} /\ spot' = <<>> /\ fits' = <<>> /\ solvable' = {}
  /\ chain' = {} /\ summary' = <<>>

Init ==
  /\ on \in TradingDates /\ \A other \in TradingDates : on <= other
  /\ stage = "bars"
  /\ quoted = {} /\ spot = <<>> /\ fits = <<>> /\ solvable = {}
  /\ chain = {} /\ summary = <<>>

Next ==
  \/ \E minute \in Minutes : Trade(minute) \/ Fit(minute)
  \/ write_day
  \/ NextDate

Spec == Init /\ [][Next]_vars

------------------------------------------------------------------------------
(* The readings: a moment is answered at the latest stored minute at or    *)
(* before it.                                                              *)

\* The bug of reading the latest minute stored, whatever the moment.
minute_slice_latest(moment) ==
  {row \in chain : \A other \in chain : other.timestamp_utc <= row.timestamp_utc}

\* Every row of that minute; none where StrikeNotQuoted is raised.
minute_slice(moment) ==
  {row \in chain :
     /\ row.timestamp_utc <= moment
     /\ \A other \in chain : other.timestamp_utc <= moment => other.timestamp_utc <= row.timestamp_utc}

\* The bug of reading the Summary strictly before the moment.
minute_summary_strictlyBefore(moment) ==
  {minute \in DOMAIN summary :
     /\ minute < moment
     /\ \A other \in DOMAIN summary : other < moment => other <= minute}

\* The one Summary row, by its minute.
minute_summary(moment) ==
  {minute \in DOMAIN summary :
     /\ minute <= moment
     /\ \A other \in DOMAIN summary : other <= moment => other <= minute}

\* as_of_view: the iv column of a strike's row on screen.
shownVolatility(moment, strike) ==
  strike_volatility({row \in minute_slice(moment) : row.strike = strike})

------------------------------------------------------------------------------
(* Properties of a date once it is stored. *)

\* The bar a row carries.
PrintedAs(row) == [ts |-> row.quoted_at, strike |-> row.strike, option_type |-> row.option_type]

SameContract(bar, other) ==
  bar.strike = other.strike /\ bar.option_type = other.option_type

\* What a trader expects of the Chain as-of a moment: every contract that has
\* traded by then, at its last bar.
AsOf(moment) ==
  {bar \in quoted :
     /\ bar.ts <= moment
     /\ \A other \in quoted :
          SameContract(other, bar) /\ other.ts <= moment => other.ts <= bar.ts}

\* One minute of the filled Chain is the as-of view at every moment, a moment
\* between two stored minutes and one before the first included: no last
\* print is missing, none is of later, and no strike is there before its
\* first trade (carry_forward, minute_slice).
ServesTheLastPrints ==
  stage = "stored" =>
    \A moment \in Minutes : {PrintedAs(row) : row \in minute_slice(moment)} = AsOf(moment)

\* A strike's volatility on screen changes from one stored minute to a later
\* one only if the strike has printed in between: it is a fact about a print
\* and not about the minute it is read at (quoted_frame, carry_forward).
VolatilityMovesOnlyOnAPrint ==
  stage = "stored" =>
    \A earlier, later \in moments, strike \in Strikes :
      /\ earlier < later
      /\ ~\E bar \in quoted : bar.strike = strike /\ earlier < bar.ts /\ bar.ts <= later
      => shownVolatility(earlier, strike) = shownVolatility(later, strike)

\* Newton is asked once for each strike and minute with a price it can
\* invert, never twice, whichever sides printed: the volatilities are indexed
\* without the side, so two for one strike would be two answers
\* (solved_volatility).
SolvedOnce ==
  stage = "stored" =>
    \A bar \in solvable :
      Cardinality({other \in inverted(solvable) :
                     other.ts = bar.ts /\ other.strike = bar.strike}) = 1

\* The sides a strike traded on in a minute.
printed(strike, minute) ==
  {side \in Sides : [ts |-> minute, strike |-> strike, option_type |-> side] \in quoted}

\* The money of a header traded in that very minute, on a thin one as well: a
\* Preset that opens with a Leg nobody quotes is worse than one that opens a
\* strike away (at_the_money_strike).  Both sides of it did wherever the Forward
\* was measured off pairs, or any strike traded both (fit_forward).
MoneyIsOfTheMinute ==
  stage = "stored" =>
    \A minute \in DOMAIN summary :
      LET money == summary[minute].atm_strike
      IN  /\ printed(money, minute) # {}
          /\ \/ summary[minute].method # "spot"
             \/ \E strike \in Strikes : printed(strike, minute) = Sides
             => printed(money, minute) = Sides

\* On a date the clock counts, what is left to Expiry is the minutes of
\* trading that are left: nights and uncounted dates cost nothing, a session
\* without bars costs a whole one, and Expiry's close is zero (dte_days).
ClockCountsSessionMinutes ==
  on \in session_calendar =>
    \A minute \in DOMAIN summary :
      summary[minute].dte_days = Cardinality(MinutesLeft(on, minute))

\* "the day is served, and it sits flat at 7.0 throughout. Theta does not
\* accrue on it" (seed.py:77): on a date the clock does not count, no minute
\* of it costs time to Expiry.
SitsFlat ==
  on \notin session_calendar =>
    \A earlier, later \in DOMAIN summary :
      summary[earlier].dte_days = summary[later].dte_days
==============================================================================
