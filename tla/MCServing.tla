------------------------------ MODULE MCServing ------------------------------
(***************************************************************************)
(* Two threads, two days and two generations of the tree, a fault: enough  *)
(* for a download to fail or a process to be killed half way through the   *)
(* mirror, for the other thread to be mirroring at the time, and for a     *)
(* wider tree to be written under both.                                    *)
(***************************************************************************)
EXTENDS Serving

Threads == Permutations(Requests)
==============================================================================
