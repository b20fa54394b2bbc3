---------------------------- MODULE MCStrategyLine ----------------------------
(***************************************************************************)
(* The Strategies of up to three Legs on three strikes and the Presets on  *)
(* a ladder of five, two ticks apart, in a domain of twice the highest.    *)
(* The chart's window is narrow enough that the outer strikes fall outside *)
(* it.                                                                     *)
(***************************************************************************)
EXTENDS Presets

MCPicked == [strike : {4, 6, 8}, option_type : {"CE", "PE"}, direction : {1, -1},
             quantity : {1, 2}, entry_premium : {1, 2}]
==============================================================================
