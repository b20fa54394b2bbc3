----------------------------- MODULE StrategyUrl -----------------------------
(***************************************************************************)
(* What a link means: the pair the engine resolves out of it               *)
(* (src/payoff/catalog.py) and the minute the page settles on              *)
(* (web/lib/strategy-url.ts).  Both pages read a link this way.            *)
(*                                                                         *)
(* Dates and series are numbers in calendar order, so that "the first" is  *)
(* the smallest; a link may name one the store does not hold, none, or     *)
(* text that cannot be read as one.  A moment is a date and a clock, the   *)
(* two parts of its stamp the code cuts at the `T`.                        *)
(***************************************************************************)
EXTENDS Integers, FiniteSetsExt

CONSTANTS
  Dates,       \* the dates the manifest lists
  Series,      \* the Expiries it lists, on any date
  Traded,      \* Traded[d]: the Expiries of date d
  Clocks,      \* the clocks of a day
  Minutes,     \* Minutes[<<d, e>>]: the clocks at which that pair quoted
  AnchorDate,  \* chain.ANCHOR_DATE, and the date of the page's ANCHOR
  AnchorClock  \* the clock of the page's ANCHOR

Nothing == -1
Unreadable == -2

Pairs == {pair \in Dates \X Series : pair[2] \in Traded[pair[1]]}

ASSUME StoreAssumption ==
  /\ Dates \subseteq Nat /\ Dates # {}
  /\ Series \subseteq Nat
  /\ Traded \in [Dates -> (SUBSET Series) \ {{}}]
ASSUME SessionAssumption ==
  /\ Clocks \subseteq Nat
  /\ Minutes \in [Pairs -> (SUBSET Clocks) \ {{}}]

\* What a link may say, and what a page renders.
Moment == [day : Nat \cup {Nothing}, clock : Nat \cup {Nothing}]

Text == Nat \cup {Nothing, Unreadable}

LinkView == [date : Text, expiry : Text, moment : Moment]

View == [date : Dates, expiry : Series, moment : [day : Dates, clock : Clocks]]

\* The Expiries of a date; none of one that was never built.
expiries(date) == IF date \in Dates THEN Traded[date] ELSE {}

\* Both parses are forgiving: what they cannot read names nothing.
as_date(text) == IF text = Unreadable THEN Nothing ELSE text
as_label(text) == IF text = Unreadable THEN Nothing ELSE text

\* The strict direction, of the series a request or a Leg names: the exception
\* it ends in, or "none".  An Expiry left out covers the day.
require(date, expiry) ==
  IF expiry = Unreadable THEN "UnreadableExpiry"
  ELSE IF date \notin Dates THEN "UnknownDate"
  ELSE IF expiry \in {Nothing} \cup expiries(date) THEN "none" ELSE "UnknownExpiry"

\* resolve: the date the link names, or the default, or the first; then the
\* Expiry it names, or the first that date traded.
resolvedDate(date) ==
  IF as_date(date) \in Dates THEN as_date(date)
  ELSE IF AnchorDate \in Dates THEN AnchorDate ELSE Min(Dates)

resolve(date, expiry) ==
  LET on == resolvedDate(date)
      series == as_label(expiry)
  IN  <<on, IF series \in expiries(on) THEN series ELSE Min(expiries(on))>>

\* The bug of trusting the link.
pickMoment_asAsked(pair, asked) ==
  IF asked.clock # Nothing THEN asked ELSE [day |-> pair[1], clock |-> Min(Minutes[pair])]

\* The asked moment if the session has it, its clock on the session's own day
\* if the day has that clock, the anchor if the session has it, the first minute.
pickMoment(pair, asked) ==
  LET stamp(clock) == [day |-> pair[1], clock |-> clock]
  IN  IF asked.clock \in Minutes[pair] THEN stamp(asked.clock)
      ELSE IF pair[1] = AnchorDate /\ AnchorClock \in Minutes[pair] THEN stamp(AnchorClock)
      ELSE stamp(Min(Minutes[pair]))

\* The view to render for a link.
pickView(asked) ==
  LET pair == resolve(asked.date, asked.expiry)
  IN  [date |-> pair[1], expiry |-> pair[2], moment |-> pickMoment(pair, asked.moment)]
==============================================================================
