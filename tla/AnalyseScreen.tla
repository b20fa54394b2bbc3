---------------------------- MODULE AnalyseScreen ----------------------------
(***************************************************************************)
(* The Analyse screen: web/components/AnalyseScreen.tsx running the        *)
(* reducer of Analysing under React, a browser's network and the engine.   *)
(*                                                                         *)
(* React 19 keeps two things apart that the component's source writes as   *)
(* one name.  `state` is what the last render saw and what is on screen;   *)
(* every setState applies its updater to `pending`, in the order of the    *)
(* calls, and the next render makes `pending` the state.  The effect       *)
(* closes over the state of the render it belongs to, and React runs it    *)
(* some time after that render and always before the next one.  An edit or *)
(* an answer can fall anywhere between.                                    *)
(***************************************************************************)
EXTENDS Analysing, FiniteSets, Sequences

CONSTANTS
  NoLegs,      \* the Strategy with no Legs in it
  MaxEdits     \* bound: edits between two openings of the page

ASSUME NoLegsAssumption == NoLegs \in Strategies
ASSUME MaxEditsAssumption == MaxEdits \in Nat

VARIABLES
  state,       \* the state of the last render: what is on screen
  pending,     \* `state` with every setState since applied, in call order
  effectDue,   \* has the last render an effect that has not run yet?
  inFlight,    \* requests sent to /analyse and not yet come back
  tab,         \* which of the three tabs is open
  url,         \* the Strategy written in the address bar
  said,        \* history: the Strategies since the page was opened, first to last
  sent         \* history: the newest question number sent since then

vars == <<state, pending, effectDue, inFlight, tab, url, said, sent>>

Tabs == {"pnl", "greeks", "table"}

Request == [seq : Nat, legs : Strategies]

TypeOK ==
  /\ state \in Screen
  /\ pending \in Screen
  /\ effectDue \in BOOLEAN
  /\ inFlight \subseteq Request
  /\ tab \in Tabs
  /\ url \in Strategies
  /\ said \in Seq(Strategies)
  /\ sent \in Nat

------------------------------------------------------------------------------
\* The server component has asked about the Legs in the link and renders the
\* screen only with the answer in hand.  The mount's own effect is due.
Open(legs) ==
  /\ state = start(legs, legs)
  /\ pending = state
  /\ effectDue = TRUE
  /\ inFlight = {}
  /\ tab = "pnl"
  /\ url = legs
  /\ said = <<legs>>
  /\ sent = 0

Init == \E legs \in Strategies : Open(legs)

\* `apply`: the setState and the address bar, in the gesture itself.
Apply(legs) ==
  /\ Len(said) <= MaxEdits
  /\ pending' = edit(pending, legs)
  /\ url' = legs
  /\ said' = Append(said, legs)
  /\ UNCHANGED <<state, effectDue, inFlight, tab, sent>>

\* React renders when an updater left something new, after the effects of the
\* render before have been flushed.
Render ==
  /\ ~effectDue
  /\ pending # state
  /\ state' = pending
  /\ effectDue' = TRUE
  /\ UNCHANGED <<pending, inFlight, tab, url, said, sent>>

\* Mutant: the request takes its Legs from a ref of the newest state.
Ask_readsNewestLegs ==
  /\ effectDue
  /\ shouldAsk(state)
  /\ effectDue' = FALSE
  /\ pending' = asking(pending, state.issued)
  /\ inFlight' = inFlight \cup {[seq |-> state.issued, legs |-> pending.legs]}
  /\ sent' = state.issued
  /\ UNCHANGED <<state, tab, url, said>>

\* The effect with a question to ask: number and Legs are the closure's, the
\* mark goes onto whatever the state has become since.
Ask ==
  /\ effectDue
  /\ shouldAsk(state)
  /\ effectDue' = FALSE
  /\ pending' = asking(pending, state.issued)
  /\ inFlight' = inFlight \cup {[seq |-> state.issued, legs |-> state.legs]}
  /\ sent' = state.issued
  /\ UNCHANGED <<state, tab, url, said>>

\* The effect's early return.
HoldBack ==
  /\ effectDue
  /\ ~shouldAsk(state)
  /\ effectDue' = FALSE
  /\ UNCHANGED <<state, pending, inFlight, tab, url, said, sent>>

Answered(request) ==
  /\ pending' = answered(pending, request.seq, request.legs)
  /\ inFlight' = inFlight \ {request}
  /\ UNCHANGED <<state, effectDue, tab, url, said, sent>>

\* The engine refused the Strategy, or the request never reached it.
Failed(request) ==
  /\ pending' = failed(pending, request.seq)
  /\ inFlight' = inFlight \ {request}
  /\ UNCHANGED <<state, effectDue, tab, url, said, sent>>

\* The tabs are on screen only beside a Strategy with Legs in it.
SelectTab(t) ==
  /\ state.legs # NoLegs
  /\ tab # t
  /\ tab' = t
  /\ UNCHANGED <<state, pending, effectDue, inFlight, url, said, sent>>

\* The link opened again in place of this page: the promises of the old page
\* die with it.  An engine that refuses the link renders no screen at all.
Reload ==
  /\ state' = start(url, url)
  /\ pending' = start(url, url)
  /\ effectDue' = TRUE
  /\ inFlight' = {}
  /\ tab' = "pnl"
  /\ said' = <<url>>
  /\ sent' = 0
  /\ UNCHANGED url

Next ==
  \/ \E legs \in Strategies : Apply(legs)
  \/ Render
  \/ Ask
  \/ HoldBack
  \/ \E request \in inFlight : Answered(request) \/ Failed(request)
  \/ \E t \in Tabs : SelectTab(t)
  \/ Reload

\* React renders what it was given and runs the effects of what it rendered;
\* a fetch resolves or rejects.  The trader owes nothing.
Fairness ==
  /\ WF_vars(Render)
  /\ WF_vars(Ask \/ HoldBack)
  /\ WF_vars(\E request \in inFlight : Answered(request) \/ Failed(request))

Spec == Init /\ [][Next]_vars

FairSpec == Spec /\ Fairness

------------------------------------------------------------------------------
\* However the edits, renders, effects and answers interleave, there is never
\* more than one question outstanding at /analyse, which is what stands in for
\* a throttle ("One in flight at a time", analysing.ts, shouldAsk).
OneInFlight == Cardinality(inFlight) <= 1

\* The chart cannot freeze: whenever nothing is left to render, to run or to
\* wait for, the newest question is settled.  An answer recorded under another
\* number than its request carries would leave `asked` set for ever
\* (analysing.ts, asking).
NoFreeze ==
  (~effectDue /\ pending = state /\ inFlight = {}) =>
    /\ state.asked = None
    /\ state.settled = state.issued

\* A question number is sent at most once, whatever became of it: a refusal
\* settles its question, so the screen does not ask again as fast as the
\* refusals come back (analysing.ts, failed).
NoQuestionRepeated ==
  [][\A request \in inFlight' \ inFlight : request.seq > sent]_vars

\* The screen implements LatestAnswer: what it shows is the answer to, or a
\* refusal of, one Strategy the trader had, moving only towards later ones
\* (analysing.ts, answered and edit).
LA == INSTANCE LatestAnswer
        WITH heard <- state.settled, shown <- state.analysis,
             refused <- state.problem

ImplementsLatestAnswer == LA!Spec

\* Once the trader leaves the Strategy alone, the screen comes to rest on that
\* Strategy with its newest question settled, by its answer or by the refusal
\* of it, however far behind the drag the answers were (AnalyseScreen.tsx, the
\* effect).
AtRest ==
  /\ state.legs = url
  /\ state.settled = state.issued
  /\ state.problem \/ state.analysis = url

ComesToRest ==
  \/ []<><<\E legs \in Strategies : Apply(legs)>>_vars
  \/ <>[]AtRest
==============================================================================
