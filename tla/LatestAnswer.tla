---------------------------- MODULE LatestAnswer -----------------------------
(***************************************************************************)
(* What the Analyse screen promises a trader, with no network, no render   *)
(* and no question numbers in it.                                          *)
(*                                                                         *)
(* The trader says one Strategy after another.  The screen hears about     *)
(* them in order, possibly skipping some, never twice about the same one   *)
(* and never about an older one after a newer one.  What it shows is the   *)
(* answer to the newest one it heard about, or, where the engine refused   *)
(* that one, the last good answer with the refusal beside it.              *)
(***************************************************************************)
EXTENDS Naturals, Sequences

CONSTANT Strategies

VARIABLES
  said,      \* every Strategy the trader has had since the page was opened
  heard,     \* how many edits old the newest settled Strategy is, from the start
  shown,     \* the Strategy the figures on screen are of
  refused    \* is a refusal on screen?

vars == <<said, heard, shown, refused>>

Init ==
  /\ \E s \in Strategies : said = <<s>> /\ shown = s
  /\ heard = 0
  /\ refused = FALSE

Say(s) ==
  /\ said' = Append(said, s)
  /\ UNCHANGED <<heard, shown, refused>>

\* The screen skips to any later edit: only the last of a burst need be asked.
Answer(n) ==
  /\ heard' = n
  /\ shown' = said[n + 1]
  /\ refused' = FALSE
  /\ UNCHANGED said

Refuse(n) ==
  /\ heard' = n
  /\ refused' = TRUE
  /\ UNCHANGED <<said, shown>>

Unheard == heard + 1 .. Len(said) - 1

Hear == \E n \in Unheard : Answer(n) \/ Refuse(n)

\* The page is opened again on the Strategy the trader has now.
Reopen ==
  /\ said' = <<said[Len(said)]>>
  /\ shown' = said[Len(said)]
  /\ heard' = 0
  /\ refused' = FALSE

Next ==
  \/ \E s \in Strategies : Say(s)
  \/ Hear
  \/ Reopen

Spec == Init /\ [][Next]_vars /\ WF_vars(Hear)
==============================================================================
