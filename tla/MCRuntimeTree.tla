---------------------------- MODULE MCRuntimeTree ----------------------------
(***************************************************************************)
(* RuntimeTree with two days and two versions of the code, the second of   *)
(* which quotes fewer strikes on one day and more on the other.            *)
(***************************************************************************)
EXTENDS RuntimeTree, TLC

CONSTANTS monday, tuesday

MCDays == {monday, tuesday}
MCStrikes == 1 .. 3
MCQuoted ==
  << (monday :> {1} @@ tuesday :> {2}),
     (monday :> {1, 3} @@ tuesday :> {1}) >>
==============================================================================
