---------------------------- MODULE MCImpliedVol -----------------------------
(***************************************************************************)
(* Two rows, each of any shape, over a bracket of four cells: enough for  *)
(* one row to hold the other back, to be launched out of its tolerance by  *)
(* a sweep it did not need, and to be bisected beside one that ran out.    *)
(***************************************************************************)
EXTENDS ImpliedVol, TLC

MCWidth == (0 :> 1) @@ (1 :> 2) @@ (2 :> 4)
==============================================================================
