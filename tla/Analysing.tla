------------------------------ MODULE Analysing ------------------------------
(***************************************************************************)
(* The pure reducer of web/lib/analysing.ts: the state of the Analyse      *)
(* screen while a Strategy is edited, and the five functions that change   *)
(* or read it.                                                             *)
(*                                                                         *)
(* A Strategy is a member of Strategies and nothing more: the reducer      *)
(* never looks inside the Legs.  The engine is a pure function of the      *)
(* Strategy it is asked about, so an AnalysisResponse is represented by    *)
(* the Strategy it analyses.                                               *)
(***************************************************************************)
EXTENDS Integers

CONSTANT Strategies   \* what a trader can have as Legs on this page

\* `asked: number | null` and `problem: string | null`.  Question numbers are
\* naturals, so a number that is none of them stands for null, and of the text
\* of a refusal only whether there is one is kept.
None == -1

Screen ==
  [legs     : Strategies,
   analysis : Strategies,
   issued   : Nat,
   asked    : Nat \cup {None},
   settled  : Nat,
   problem  : BOOLEAN]

start(legs, analysis) ==
  [legs |-> legs, analysis |-> analysis, issued |-> 0, asked |-> None,
   settled |-> 0, problem |-> FALSE]

edit(state, legs) ==
  [state EXCEPT !.legs = legs, !.issued = @ + 1]

answered(state, seq, analysis) ==
  IF seq # state.asked
    THEN state
    ELSE [state EXCEPT !.analysis = analysis, !.problem = FALSE,
                       !.asked = None, !.settled = seq]

\* The bug of a refusal that settles nothing.
failed_leavesUnsettled(state, seq) ==
  IF seq # state.asked
    THEN state
    ELSE [state EXCEPT !.problem = TRUE, !.asked = None]

failed(state, seq) ==
  IF seq # state.asked
    THEN state
    ELSE [state EXCEPT !.problem = TRUE, !.asked = None, !.settled = seq]

\* Mutants: asks while a question is out; gives up after a refusal.
shouldAsk_whileOneIsOut(state) == state.issued # state.settled

shouldAsk_givesUp(state) ==
  state.asked = None /\ state.issued # state.settled /\ ~state.problem

shouldAsk(state) == state.asked = None /\ state.issued # state.settled

\* Mutant: the number is read off the state instead of being passed in.
asking_readsIssued(state, seq) == [state EXCEPT !.asked = state.issued]

asking(state, seq) == [state EXCEPT !.asked = seq]
==============================================================================
