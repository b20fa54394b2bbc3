----------------------------- MODULE MCLegEditor -----------------------------
(***************************************************************************)
(* LegEditor over three strikes: one quoted on both sides, one on the call *)
(* side only, one on both sides that carries no volatility.                *)
(***************************************************************************)
EXTENDS LegEditor, TLC

MCAmounts == {-3, 0, 10, 15, 30}

MCLastPrice == "CE" :> (100 :> 30 @@ 200 :> 10 @@ 300 :> 10)
            @@ "PE" :> (100 :> 10 @@ 300 :> 30)
==============================================================================
