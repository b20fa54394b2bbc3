------------------------------ MODULE MCChainDay ------------------------------
(***************************************************************************)
(* ChainDay over two strikes, three dates and sessions of two minutes.     *)
(* Date 2 is a session without bars, date 3 has bars and no session, date  *)
(* 4 is Expiry.  A Forward on the lower strike puts its call at the money, *)
(* one half way has two nearest strikes, and so has the index there.  The  *)
(* engine is asked about each date as it is stored, also for an Expiry the *)
(* date did not trade and a text that is no label, with one or two Legs.   *)
(***************************************************************************)
EXTENDS Engine
==============================================================================
