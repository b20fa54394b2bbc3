----------------------------- MODULE MCChainPage -----------------------------
(***************************************************************************)
(* ChainPage over two dates, of which only the first traded both series,   *)
(* with minutes one pair has and another has not, a put that is quoted     *)
(* late and loses its volatility on the last day, and links that name      *)
(* nothing, a day never built, a day that never traded their Expiry and    *)
(* text that is neither.                                                   *)
(***************************************************************************)
EXTENDS ChainPage, TLC

CONSTANTS call, put

MCContracts == {call, put}
MCTraded == 1 :> {10, 24} @@ 2 :> {24}
MCMinutes == <<1, 10>> :> {1, 2} @@ <<1, 24>> :> {2} @@ <<2, 24>> :> {1, 3}
MCQuote ==
  LET late(volatility) == [m \in 1 .. 3 |->
        call :> "priced" @@ put :> IF m = 1 THEN "none" ELSE volatility]
  IN  [pair \in Pairs |-> late(IF pair[1] = 2 THEN "unpriced" ELSE "priced")]
MCShapes == {<< <<call, "B">>, <<put, "S">> >>}

Asked(date, expiry, day, clock, legs) ==
  [view |-> [date |-> date, expiry |-> expiry, moment |-> [day |-> day, clock |-> clock]],
   legs |-> legs]
OneLeg == <<[contract |-> call, expiry |-> 10, direction |-> "B",
             at |-> [day |-> Nothing, clock |-> Nothing]]>>
MCLinks ==
  {Asked(Nothing, Nothing, Nothing, Nothing, <<>>),
   Asked(1, 10, 1, 1, OneLeg),
   Asked(7, 24, 7, 3, <<>>),
   Asked(2, 10, 1, 2, OneLeg),
   Asked(Unreadable, Unreadable, 2, 3, [OneLeg EXCEPT ![1].expiry = Unreadable])}
MCServedLink == {Asked(1, 10, 1, 1, <<>>)}
==============================================================================
