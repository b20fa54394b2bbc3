----------------------------- MODULE StrategyLine -----------------------------
(***************************************************************************)
(* A Strategy's P&L at Expiry (src/payoff/strategy.py): the line summed    *)
(* Leg by Leg off three stored corners each, and the figures read off it.  *)
(*                                                                         *)
(* Every Forward, strike and price is a whole number of ticks.  A state is *)
(* one turn of pnl_at_expiry's loop, so every reachable state is the line  *)
(* of a Strategy.  A Breakeven between two ticks is a fraction.            *)
(***************************************************************************)
EXTENDS Integers, Sequences

CONSTANTS
  Strikes,       \* the strikes of the Payoff artifact
  Premiums,      \* Entry Premiums
  Quantities,    \* Quantities
  High,          \* the upper bound of the stored domain
  Forward,       \* the Forward the chart is centred on
  FORWARD_RANGE, WING_MARGIN, ZOOM_HEADROOM, TABLE_STEP,  \* as in the code, in percent or ticks
  MaxLegs        \* bound: Legs in a Strategy

Low == 0
FAR_TAIL == 2

ASSUME DomainAssumption ==
  /\ High \in Nat \ {0}
  /\ Strikes \subseteq Nat
  /\ \A strike \in Strikes : Low < strike /\ FAR_TAIL * strike <= High
ASSUME TradesAssumption == Premiums \subseteq Int /\ Quantities \subseteq Nat \ {0} /\ MaxLegs \in Nat
ASSUME FrameAssumption ==
  /\ Forward \in Nat /\ TABLE_STEP \in Nat \ {0} /\ ZOOM_HEADROOM \in Nat \ {0}
  /\ FORWARD_RANGE \in 1..100 /\ WING_MARGIN \in 1..100
  /\ 0 < Forward /\ Forward * (100 + FORWARD_RANGE) <= 100 * High

Forwards == Low..High

Leg == [strike : Strikes, option_type : {"CE", "PE"}, direction : {1, -1},
        quantity : Quantities, entry_premium : Premiums]

VARIABLES
  legs,        \* the Legs summed so far
  total,       \* pnl_at_expiry of them at every Forward
  call_slope,  \* _is_unbounded's net signed quantity of calls
  net_premium

vars == <<legs, total, call_slope, net_premium>>

TypeOK ==
  /\ legs \in Seq(Leg)
  /\ total \in [Forwards -> Int]
  /\ call_slope \in Int
  /\ net_premium \in Int

------------------------------------------------------------------------------
intrinsic_value(forward, strike, option_type) ==
  LET worth == IF option_type = "CE" THEN forward - strike ELSE strike - forward
  IN  IF worth > 0 THEN worth ELSE 0

\* The bug of corners on a domain of the Leg's own.
leg_payoff_onItsOwnDomain(forward, leg) ==
  intrinsic_value(IF forward > leg.strike + 1 THEN leg.strike + 1 ELSE forward,
                  leg.strike, leg.option_type)

\* np.interp over the corners Low, strike and High: the slope of the segment
\* the Forward is on, times the way along it.
leg_payoff(forward, leg) ==
  LET stored(corner) == intrinsic_value(corner, leg.strike, leg.option_type)
      along(left, right) ==
        ((stored(right) - stored(left)) \div (right - left)) * (forward - left) + stored(left)
  IN  IF forward <= leg.strike THEN along(Low, leg.strike) ELSE along(leg.strike, High)

Init ==
  /\ legs = <<>>
  /\ total = [forward \in Forwards |-> 0]
  /\ call_slope = 0
  /\ net_premium = 0

\* One Leg more: a turn of each loop over the Legs.
Sum(leg) ==
  LET scale == leg.direction * leg.quantity
  IN  /\ Len(legs) < MaxLegs
      /\ legs' = Append(legs, leg)
      /\ total' = [forward \in Forwards |->
                     total[forward] + scale * (leg_payoff(forward, leg) - leg.entry_premium)]
      /\ call_slope' = call_slope + (IF leg.option_type = "CE" THEN scale ELSE 0)
      /\ net_premium' = net_premium + scale * leg.entry_premium

Next == \E leg \in Leg : Sum(leg)

Spec == Init /\ [][Next]_vars

------------------------------------------------------------------------------
(* The figures read off the line. *)

strikesOf == {legs[i].strike : i \in DOMAIN legs}

\* The bug of leaving the low end of the domain out.
corners_withoutTheLow == strikesOf \cup {High}

\* The points that describe the whole line.
corners == strikesOf \cup {Low, High}

\* Two corners with none between them.
Segments ==
  {segment \in corners \X corners :
     /\ segment[1] < segment[2]
     /\ ~\E corner \in corners : segment[1] < corner /\ corner < segment[2]}

\* Where the line crosses zero inside a segment, as numerator over denominator.
crossing(segment) ==
  LET rise == total[segment[2]] - total[segment[1]]
      over == segment[1] * rise - total[segment[1]] * (segment[2] - segment[1])
  IN  IF rise > 0 THEN <<over, rise>> ELSE <<-over, -rise>>

\* The bug of looking only for changes of sign.
breakevens_signChangesOnly ==
  {crossing(segment) : segment \in {s \in Segments : total[s[1]] * total[s[2]] < 0}}

breakevens ==
  IF legs = <<>> THEN {}
  ELSE {<<corner, 1>> : corner \in {c \in corners : total[c] = 0}}
       \cup {crossing(segment) : segment \in {s \in Segments : total[s[1]] * total[s[2]] < 0}}

unboundedUpside == call_slope > 0
unboundedDownside == call_slope < 0

\* A figure is a set of at most one number: Unbounded is none.
greatest(values) == {value \in values : \A other \in values : other <= value}
least(values) == {value \in values : \A other \in values : value <= other}

pnlAtCorners == {total[corner] : corner \in corners}
max_profit == IF unboundedUpside THEN {} ELSE greatest(pnlAtCorners)
max_loss == IF unboundedDownside THEN {} ELSE least(pnlAtCorners)

\* Hundredths of a tick: a percentage off the Forward, or off the outermost strike.
\* The bug of framing the Forward and not the wings.
frame_unwidened ==
  <<Forward * (100 - FORWARD_RANGE), Forward * (100 + FORWARD_RANGE)>>

frame ==
  LET left == {Forward * (100 - FORWARD_RANGE)} \cup {s * (100 - WING_MARGIN) : s \in strikesOf}
      right == {Forward * (100 + FORWARD_RANGE)} \cup {s * (100 + WING_MARGIN) : s \in strikesOf}
  IN  <<CHOOSE edge \in left : \A other \in left : edge <= other,
        CHOOSE edge \in right : \A other \in right : other <= edge>>

\* The ends of the chart's line, in two hundredths: the frame widened about its
\* centre and clipped to the domain.
curveSpan ==
  LET middle == frame[1] + frame[2]
      reach == (frame[2] - frame[1]) * ZOOM_HEADROOM
  IN  <<IF middle - reach < 200 * Low THEN 200 * Low ELSE middle - reach,
        IF middle + reach > 200 * High THEN 200 * High ELSE middle + reach>>

\* The corners the chart is given beside its even grid.
curveCorners == {c \in corners : curveSpan[1] < 200 * c /\ 200 * c < curveSpan[2]}

\* The Forwards of the table's rows.
tableRows ==
  {forward \in Forwards : /\ forward % TABLE_STEP = 0
                          /\ frame[1] <= 100 * forward /\ 100 * forward <= frame[2]}

------------------------------------------------------------------------------
\* "P&L at Expiry is piecewise linear in the Forward and bends only at a
\* strike" (_corners): what makes the corners describe the whole line.
BendsOnlyAtStrikes ==
  \A forward \in (Low + 1)..(High - 1) :
    forward \notin strikesOf =>
      total[forward + 1] - total[forward] = total[forward] - total[forward - 1]

\* Far above every strike the line runs as the net quantity of calls says, so
\* _is_unbounded is right about the tail without looking at the line.
TailIsTheCallSlope ==
  \A forward \in Low..(High - 1) :
    (\A strike \in strikesOf : strike <= forward) =>
      total[forward + 1] - total[forward] = call_slope

\* Net Premium is what the position cost, a credit negative: with every call
\* worthless and no puts, the P&L is the Net Premium lost (net_premium).
NetPremiumIsTheCost ==
  (\A i \in DOMAIN legs : legs[i].option_type = "CE") =>
    \A forward \in Forwards :
      (\A strike \in strikesOf : forward <= strike) => total[forward] = -net_premium

\* The three sums taken over the Legs are of one line, which each of them
\* describes a part of: it bends at the strikes, ends as steep as call_slope
\* and starts at net_premium (pnl_at_expiry, _is_unbounded, net_premium).
LineFollowsTheLegs == BendsOnlyAtStrikes /\ TailIsTheCallSlope /\ NetPremiumIsTheCost

\* The Max Profit and Max Loss printed are those of the whole line, not of the
\* corners only; and Unlimited is printed for a tail that runs away.
ExtremaAreTheLines ==
  /\ \A most \in max_profit : \A forward \in Forwards : total[forward] <= most
  /\ \A most \in max_loss : \A forward \in Forwards : most <= total[forward]
  /\ (max_profit = {}) <=> (total[High] > total[High - 1])
  /\ (max_loss = {}) <=> (total[High] < total[High - 1])

\* A listed Breakeven is a Forward at which the P&L is zero, and every Forward
\* of the domain at which the line crosses or touches zero is listed.
BreakevensAreTheZeros ==
  /\ \A breakeven \in breakevens :
       LET below == breakeven[1] \div breakeven[2]
           past == breakeven[1] % breakeven[2]
       IN  IF past = 0 THEN total[below] = 0
           ELSE total[below] * breakeven[2] + (total[below + 1] - total[below]) * past = 0
  /\ \A forward \in Low..(High - 1) :
       LET listed == \E b \in breakevens : forward * b[2] <= b[1] /\ b[1] <= (forward + 1) * b[2]
       IN  (total[forward] * total[forward + 1] <= 0 /\ total[forward] # total[forward + 1])
             => listed

\* The frame holds every strike with room to spare, the chart's line holds
\* every one as a point of its own, and no row of the table is off the chart:
\* no capped loss is drawn as one that runs on (curve, _frame).
WingsAreOnTheChart ==
  /\ \A strike \in strikesOf : frame[1] < 100 * strike /\ 100 * strike < frame[2]
  /\ strikesOf \subseteq curveCorners
  /\ \A row \in tableRows : curveSpan[1] <= 200 * row /\ 200 * row <= curveSpan[2]
==============================================================================
