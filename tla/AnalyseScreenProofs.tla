------------------------- MODULE AnalyseScreenProofs -------------------------
(***************************************************************************)
(* The safety properties of AnalyseScreen, for every set of Strategies and *)
(* every bound on the edits.                                               *)
(*                                                                         *)
(* The inductive invariant says where a question can be: not yet asked,    *)
(* asked since the last render, or heard since the last render, and that   *)
(* a rendered state and the state that will replace it agree on all else.  *)
(***************************************************************************)
EXTENDS AnalyseScreen, SequenceTheorems, FiniteSetTheorems, TLAPS

\* Question n is about the Strategy of edit n, and the newest one is the link's.
Numbered ==
  /\ said # <<>>
  /\ pending.issued = Len(said) - 1
  /\ state.issued <= pending.issued
  /\ state.legs = said[state.issued + 1]
  /\ pending.legs = said[pending.issued + 1]
  /\ url = pending.legs
  /\ state.settled <= state.issued
  /\ pending.settled <= pending.issued

\* `asked` names the one request that is out, and that request is about the
\* Strategy its number stands for.
Outstanding ==
  /\ pending.asked = None => inFlight = {} /\ sent = pending.settled
  /\ pending.asked # None =>
       /\ sent = pending.asked
       /\ inFlight = {[seq |-> pending.asked, legs |-> said[pending.asked + 1]]}
       /\ pending.settled < pending.asked
       /\ pending.asked <= pending.issued

SameAnswer ==
  /\ pending.settled = state.settled
  /\ pending.analysis = state.analysis
  /\ pending.problem = state.problem

\* No question has been asked or settled since the last render.
Unmoved ==
  /\ SameAnswer
  /\ pending.asked = state.asked
  /\ (~effectDue /\ state.asked = None) => state.issued = state.settled

\* The last render's effect has asked, and nothing has come back.
Sent ==
  /\ SameAnswer
  /\ ~effectDue
  /\ state.asked = None
  /\ pending.asked = state.issued

\* The question out at the last render, or asked by its effect, has settled.
Heard ==
  /\ pending.asked = None
  /\ pending.settled > state.settled
  /\ effectDue => state.asked # None
  /\ \/ ~pending.problem /\ pending.analysis = said[pending.settled + 1]
     \/ pending.problem /\ pending.analysis = state.analysis

IInv ==
  /\ TypeOK
  /\ Numbered
  /\ Outstanding
  /\ Unmoved \/ Sent \/ Heard

------------------------------------------------------------------------------
\* A Strategy said stays where it was said when another is appended.
LEMMA AppendKeeps ==
  ASSUME NEW S, NEW seq \in Seq(S), NEW x \in S
  PROVE  /\ Append(seq, x) \in Seq(S)
         /\ Append(seq, x) # <<>>
         /\ Len(Append(seq, x)) = Len(seq) + 1
         /\ Append(seq, x)[Len(seq) + 1] = x
         /\ \A i \in 1 .. Len(seq) : Append(seq, x)[i] = seq[i]
  OBVIOUS

\* What the reducer's functions return, field by field.
LEMMA EditType ==
  ASSUME NEW s \in Screen, NEW legs \in Strategies
  PROVE  /\ edit(s, legs) \in Screen
         /\ edit(s, legs).legs = legs
         /\ edit(s, legs).issued = s.issued + 1
         /\ edit(s, legs).analysis = s.analysis
         /\ edit(s, legs).asked = s.asked
         /\ edit(s, legs).settled = s.settled
         /\ edit(s, legs).problem = s.problem
<1>1. s.issued \in Nat /\ s.issued + 1 \in Nat
  BY DEF Screen
<1>. QED
  BY <1>1 DEF edit, Screen

LEMMA AskingType ==
  ASSUME NEW s \in Screen, NEW seq \in Nat
  PROVE  /\ asking(s, seq) \in Screen
         /\ asking(s, seq).asked = seq
         /\ asking(s, seq).legs = s.legs
         /\ asking(s, seq).analysis = s.analysis
         /\ asking(s, seq).issued = s.issued
         /\ asking(s, seq).settled = s.settled
         /\ asking(s, seq).problem = s.problem
BY DEF asking, Screen

LEMMA AnsweredType ==
  ASSUME NEW s \in Screen, NEW analysis \in Strategies, s.asked # None
  PROVE  LET t == answered(s, s.asked, analysis) IN
         /\ t \in Screen
         /\ t.analysis = analysis
         /\ t.problem = FALSE
         /\ t.asked = None
         /\ t.settled = s.asked
         /\ t.legs = s.legs
         /\ t.issued = s.issued
BY DEF answered, Screen, None

LEMMA FailedType ==
  ASSUME NEW s \in Screen, s.asked # None
  PROVE  LET t == failed(s, s.asked) IN
         /\ t \in Screen
         /\ t.analysis = s.analysis
         /\ t.problem = TRUE
         /\ t.asked = None
         /\ t.settled = s.asked
         /\ t.legs = s.legs
         /\ t.issued = s.issued
BY DEF failed, Screen, None

LEMMA InitIInv == Init => IInv
<1> SUFFICES ASSUME NEW legs \in Strategies, Open(legs) PROVE IInv
  BY DEF Init
<1>1. state \in Screen /\ pending \in Screen
  BY DEF Open, start, Screen, None
<1>2. said \in Seq(Strategies) /\ said # <<>> /\ Len(said) = 1 /\ said[1] = legs
  BY DEF Open
<1>3. TypeOK
  BY <1>1, <1>2 DEF Open, TypeOK, Tabs, Request
<1>4. Numbered /\ Outstanding /\ Unmoved
  BY <1>2 DEF Open, start, Numbered, Outstanding, Unmoved, SameAnswer, None
<1>. QED
  BY <1>3, <1>4 DEF IInv

LEMMA ApplyIInv ==
  ASSUME IInv, NEW legs \in Strategies, Apply(legs)
  PROVE  IInv'
<1> USE DEF None
<1>2. /\ said' \in Seq(Strategies)
      /\ said' # <<>>
      /\ Len(said') = Len(said) + 1
      /\ said'[Len(said) + 1] = legs
      /\ \A i \in 1 .. Len(said) : said'[i] = said[i]
  BY AppendKeeps DEF IInv, TypeOK, Apply
<1>3. /\ pending' \in Screen
      /\ pending'.issued = pending.issued + 1
      /\ pending'.legs = legs
      /\ pending'.asked = pending.asked
      /\ pending'.settled = pending.settled
      /\ pending'.analysis = pending.analysis
      /\ pending'.problem = pending.problem
  BY EditType DEF IInv, TypeOK, Apply
<1>4. TypeOK'
  BY <1>2, <1>3 DEF IInv, TypeOK, Apply
<1>5. Numbered'
  BY <1>2, <1>3 DEF IInv, TypeOK, Numbered, Apply, Screen
<1>6. Outstanding'
  BY <1>2, <1>3 DEF IInv, TypeOK, Numbered, Outstanding, Apply, Screen
<1>7. Unmoved => Unmoved'
  BY <1>3 DEF Unmoved, SameAnswer, Apply
<1>8. Sent => Sent'
  BY <1>3 DEF Sent, SameAnswer, Apply
<1>9. Heard => Heard'
  BY <1>2, <1>3 DEF IInv, TypeOK, Numbered, Heard, Apply, Screen
<1>. QED
  BY <1>4, <1>5, <1>6, <1>7, <1>8, <1>9 DEF IInv

LEMMA RenderIInv ==
  ASSUME IInv, Render
  PROVE  IInv'
<1> USE DEF None
<1>1. TypeOK'
  BY DEF IInv, TypeOK, Render
<1>2. Numbered' /\ Outstanding'
  BY DEF IInv, TypeOK, Numbered, Outstanding, Render, Screen
<1>3. Unmoved'
  BY DEF Unmoved, SameAnswer, Render
<1>. QED
  BY <1>1, <1>2, <1>3 DEF IInv

\* An effect that asks finds that nothing has moved since its render.
LEMMA AskIInv ==
  ASSUME IInv, Ask
  PROVE  /\ IInv'
         /\ Unmoved
         /\ pending.asked = None
         /\ inFlight = {}
<1> USE DEF None
<1>1. Unmoved /\ pending.asked = None /\ inFlight = {}
  BY DEF IInv, Outstanding, Unmoved, Sent, Heard, Ask, shouldAsk
<1>2. state.issued \in Nat /\ state.legs \in Strategies /\ state.settled \in Nat
  BY DEF IInv, TypeOK, Screen
<1>3. /\ pending' \in Screen
      /\ pending'.asked = state.issued
      /\ pending'.issued = pending.issued
      /\ pending'.legs = pending.legs
      /\ pending'.settled = pending.settled
      /\ pending'.analysis = pending.analysis
      /\ pending'.problem = pending.problem
  BY <1>2, AskingType DEF IInv, TypeOK, Ask
<1>4. inFlight' = {[seq |-> state.issued, legs |-> state.legs]}
  BY <1>1 DEF Ask
<1>5. TypeOK'
  <2>1. inFlight' \subseteq Request
    BY <1>2, <1>4 DEF Request
  <2>. QED
    BY <1>2, <1>3, <2>1 DEF IInv, TypeOK, Ask
<1>6. Numbered'
  BY <1>3 DEF IInv, Numbered, Ask
<1>7. Outstanding'
  BY <1>1, <1>2, <1>3, <1>4
     DEF IInv, Numbered, Outstanding, Unmoved, SameAnswer, Ask, shouldAsk
<1>8. Sent'
  BY <1>1, <1>3 DEF Unmoved, Sent, SameAnswer, Ask, shouldAsk
<1>. QED
  BY <1>1, <1>5, <1>6, <1>7, <1>8 DEF IInv

LEMMA HoldBackIInv ==
  ASSUME IInv, HoldBack
  PROVE  IInv'
<1> USE DEF None
<1>1. TypeOK' /\ Numbered' /\ Outstanding'
  BY DEF IInv, TypeOK, Numbered, Outstanding, HoldBack
<1>2. Unmoved => Unmoved'
  BY DEF Unmoved, SameAnswer, HoldBack, shouldAsk
<1>3. Heard => Heard'
  BY DEF Heard, HoldBack
<1>4. ~Sent
  BY DEF Sent, HoldBack
<1>. QED
  BY <1>1, <1>2, <1>3, <1>4 DEF IInv

\* The one request out is the one `asked` names, so its answer is never stale.
LEMMA RequestIsAsked ==
  ASSUME IInv, NEW request \in inFlight
  PROVE  /\ pending.asked # None
         /\ request = [seq |-> pending.asked, legs |-> said[pending.asked + 1]]
         /\ inFlight \ {request} = {}
         /\ request.seq = pending.asked
         /\ request.legs = said[pending.asked + 1]
         /\ request.legs \in Strategies
         /\ pending.asked \in Nat
         /\ pending.settled < pending.asked
         /\ pending.asked <= pending.issued
         /\ ~Heard
         /\ state.settled < pending.asked
         /\ effectDue => state.asked # None
         /\ sent = pending.asked
<1>1. request \in Request /\ pending.asked \in Nat \cup {None}
  BY DEF IInv, TypeOK, Screen
<1>2. /\ pending.asked # None
      /\ inFlight = {[seq |-> pending.asked, legs |-> said[pending.asked + 1]]}
      /\ pending.settled < pending.asked
      /\ pending.asked <= pending.issued
      /\ sent = pending.asked
  BY DEF IInv, Outstanding
<1>3. Unmoved \/ Sent
  BY <1>2 DEF IInv, Heard
<1>. QED
  BY <1>1, <1>2, <1>3 DEF Request, Unmoved, Sent, SameAnswer, Heard

LEMMA AnsweredIInv ==
  ASSUME IInv, NEW request \in inFlight, Answered(request)
  PROVE  IInv'
<1>1. /\ pending' \in Screen
      /\ pending'.analysis = said[pending.asked + 1]
      /\ pending'.problem = FALSE
      /\ pending'.asked = None
      /\ pending'.settled = pending.asked
      /\ pending'.legs = pending.legs
      /\ pending'.issued = pending.issued
  <2>1. pending' = answered(pending, pending.asked, said[pending.asked + 1])
    BY RequestIsAsked DEF Answered
  <2>2. /\ pending \in Screen
        /\ pending.asked # None
        /\ said[pending.asked + 1] \in Strategies
    BY RequestIsAsked DEF IInv, TypeOK
  <2>. QED
    BY <2>1, <2>2, AnsweredType
<1>2. inFlight' = {}
  BY RequestIsAsked DEF Answered
<1>3. TypeOK' /\ Numbered' /\ Outstanding'
  BY <1>1, <1>2, RequestIsAsked DEF IInv, TypeOK, Numbered, Outstanding, Answered
<1>4. Heard'
  BY <1>1, RequestIsAsked DEF Heard, Answered
<1>. QED
  BY <1>3, <1>4 DEF IInv

LEMMA FailedIInv ==
  ASSUME IInv, NEW request \in inFlight, Failed(request)
  PROVE  IInv'
<1>1. /\ pending' \in Screen
      /\ pending'.analysis = pending.analysis
      /\ pending'.problem = TRUE
      /\ pending'.asked = None
      /\ pending'.settled = pending.asked
      /\ pending'.legs = pending.legs
      /\ pending'.issued = pending.issued
  <2>1. pending' = failed(pending, pending.asked)
    BY RequestIsAsked DEF Failed
  <2>2. pending \in Screen /\ pending.asked # None
    BY RequestIsAsked DEF IInv, TypeOK
  <2>. QED
    BY <2>1, <2>2, FailedType
<1>2. inFlight' = {}
  BY RequestIsAsked DEF Failed
<1>3. TypeOK' /\ Numbered' /\ Outstanding'
  BY <1>1, <1>2, RequestIsAsked DEF IInv, TypeOK, Numbered, Outstanding, Failed
<1>4. pending.analysis = state.analysis
  BY RequestIsAsked DEF IInv, Unmoved, Sent, SameAnswer
<1>5. Heard'
  BY <1>1, <1>4, RequestIsAsked DEF Heard, Failed
<1>. QED
  BY <1>3, <1>5 DEF IInv

LEMMA ReloadIInv ==
  ASSUME IInv, Reload
  PROVE  IInv'
<1>1. url \in Strategies
  BY DEF IInv, TypeOK
<1>2. state' \in Screen /\ pending' \in Screen
  BY <1>1 DEF Reload, start, Screen, None
<1>3. said' \in Seq(Strategies) /\ said' # <<>> /\ Len(said') = 1 /\ said'[1] = url
  BY <1>1 DEF Reload
<1>4. TypeOK'
  BY <1>1, <1>2, <1>3 DEF Reload, TypeOK, Tabs, Request
<1>5. Numbered' /\ Outstanding' /\ Unmoved'
  BY <1>3 DEF Reload, start, Numbered, Outstanding, Unmoved, SameAnswer, None
<1>. QED
  BY <1>4, <1>5 DEF IInv

LEMMA SelectTabIInv ==
  ASSUME IInv, NEW t \in Tabs, SelectTab(t)
  PROVE  IInv'
<1>1. TypeOK'
  BY DEF IInv, TypeOK, SelectTab
<1>2. Numbered' /\ Outstanding'
  BY DEF IInv, Numbered, Outstanding, SelectTab
<1>3. (Unmoved \/ Sent \/ Heard)'
  BY DEF IInv, Unmoved, Sent, Heard, SameAnswer, SelectTab
<1>. QED
  BY <1>1, <1>2, <1>3 DEF IInv

LEMMA StutterIInv ==
  ASSUME IInv, UNCHANGED vars
  PROVE  IInv'
BY DEF IInv, TypeOK, Numbered, Outstanding, Unmoved, Sent, Heard, SameAnswer, vars

LEMMA NextIInv == IInv /\ [Next]_vars => IInv'
<1> SUFFICES ASSUME IInv, [Next]_vars PROVE IInv'
  OBVIOUS
<1>1. ASSUME NEW legs \in Strategies, Apply(legs) PROVE IInv'
  BY <1>1, ApplyIInv
<1>2. CASE Render
  BY <1>2, RenderIInv
<1>3. CASE Ask
  BY <1>3, AskIInv
<1>4. CASE HoldBack
  BY <1>4, HoldBackIInv
<1>5. ASSUME NEW request \in inFlight, Answered(request) PROVE IInv'
  BY <1>5, AnsweredIInv
<1>6. ASSUME NEW request \in inFlight, Failed(request) PROVE IInv'
  BY <1>6, FailedIInv
<1>7. ASSUME NEW t \in Tabs, SelectTab(t) PROVE IInv'
  BY <1>7, SelectTabIInv
<1>8. CASE Reload
  BY <1>8, ReloadIInv
<1>9. CASE UNCHANGED vars
  BY <1>9, StutterIInv
<1>. QED
  BY <1>1, <1>2, <1>3, <1>4, <1>5, <1>6, <1>7, <1>8, <1>9 DEF Next

\* The inductive invariant holds throughout.
THEOREM Invariance == Spec => []IInv
BY InitIInv, NextIInv, PTL DEF Spec

------------------------------------------------------------------------------
\* The fields and the requests of the screen keep their types, whatever the
\* order of edits, renders, effects, answers and reloads.
THEOREM TypeCorrect == Spec => []TypeOK
<1>1. IInv => TypeOK
  BY DEF IInv
<1>. QED
  BY <1>1, Invariance, PTL

\* There is never more than one question outstanding at /analyse.
THEOREM OneInFlightAlways == Spec => []OneInFlight
<1>1. IInv => OneInFlight
  <2> SUFFICES ASSUME IInv PROVE Cardinality(inFlight) <= 1
    BY DEF OneInFlight
  <2>1. inFlight = {} \/ \E request : inFlight = {request}
    BY DEF IInv, Outstanding
  <2>2. Cardinality(inFlight) = 0 \/ Cardinality(inFlight) = 1
    BY <2>1, FS_EmptySet, FS_Singleton
  <2>. QED
    BY <2>2
<1>. QED
  BY <1>1, Invariance, PTL

\* Whenever the screen is at rest, its newest question is settled.
THEOREM NoFreezeEver == Spec => []NoFreeze
<1>1. IInv => NoFreeze
  <2> SUFFICES ASSUME IInv, ~effectDue, pending = state, inFlight = {}
               PROVE  state.asked = None /\ state.settled = state.issued
    BY DEF NoFreeze
  <2>1. pending.asked = None
    BY DEF IInv, Outstanding
  <2>2. state.settled \in Nat
    BY DEF IInv, TypeOK, Screen
  <2>3. ~Heard
    BY <2>2 DEF Heard
  <2>4. Unmoved
    BY <2>1, <2>3, SMT DEF IInv, TypeOK, Screen, Sent, None
  <2>. QED
    BY <2>1, <2>4 DEF Unmoved
<1>. QED
  BY <1>1, Invariance, PTL

\* No question number is sent a second time: a new request's number is beyond
\* every one sent before.
THEOREM NoQuestionEverRepeated == Spec => NoQuestionRepeated
<1> DEFINE Fresh == \A request \in inFlight' \ inFlight : request.seq > sent
<1>1. ASSUME IInv, [Next]_vars PROVE [Fresh]_vars
  <2>1. CASE Ask
    <3>1. inFlight' = {[seq |-> state.issued, legs |-> state.legs]}
      BY <1>1, <2>1, AskIInv DEF Ask
    <3>2. IInv' /\ pending'.asked = state.issued /\ pending'.settled = pending.settled
      BY <1>1, <2>1, AskIInv, AskingType DEF IInv, TypeOK, Ask, Screen
    <3>3. state.issued \in Nat /\ pending.settled \in Nat /\ state.issued # None
      BY <1>1 DEF IInv, TypeOK, Screen, None
    <3>4. sent = pending.settled
      BY <1>1, <2>1, AskIInv DEF IInv, Outstanding
    <3>5. state.issued > sent
      BY <3>2, <3>3, <3>4 DEF IInv, Outstanding
    <3>. QED
      BY <3>1, <3>5
  <2>2. CASE ~Ask
    <3>1. inFlight' \subseteq inFlight
      BY <1>1, <2>2 DEF Next, Apply, Render, HoldBack, Answered, Failed,
                        SelectTab, Reload, vars
    <3>. QED
      BY <3>1
  <2>. QED
    BY <2>1, <2>2
<1>. QED
  BY <1>1, Invariance, PTL DEF Spec, NoQuestionRepeated

------------------------------------------------------------------------------
\* A rendered screen shows at most one more answer than the one before it, of
\* a Strategy the trader had had by then.
LEMMA RenderHears ==
  ASSUME IInv, Render
  PROVE  LA!Hear \/ UNCHANGED LA!vars
<1>1. CASE Unmoved \/ Sent
  BY <1>1 DEF Unmoved, Sent, SameAnswer, Render, LA!vars
<1>2. CASE Heard
  <2>1. pending.settled \in LA!Unheard
    BY <1>2 DEF IInv, TypeOK, Numbered, Heard, Screen, LA!Unheard
  <2>2. LA!Answer(pending.settled) \/ LA!Refuse(pending.settled)
    <3>1. pending.problem \in BOOLEAN
      BY DEF IInv, TypeOK, Screen
    <3>. QED
      BY <1>2, <3>1, Zenon DEF Heard, Render, LA!Answer, LA!Refuse
  <2>. QED
    BY <2>1, <2>2 DEF LA!Hear
<1>. QED
  BY <1>1, <1>2 DEF IInv

LEMMA ReloadReopens ==
  ASSUME IInv, Reload
  PROVE  LA!Reopen
<1>1. pending.issued + 1 = Len(said)
  BY DEF IInv, TypeOK, Numbered
<1>2. url = said[Len(said)]
  BY <1>1 DEF IInv, Numbered
<1>. QED
  BY <1>2 DEF Reload, start, LA!Reopen

\* The screen's safety half of LatestAnswer: it starts where the promise
\* starts, and every step of it is a step of the promise or a stutter.
THEOREM Refinement == Spec => LA!Init /\ [][LA!Next]_(LA!vars)
<1>1. Init => LA!Init
  BY DEF Init, Open, start, LA!Init
<1>2. ASSUME IInv, [Next]_vars PROVE [LA!Next]_(LA!vars)
  <2>1. ASSUME NEW legs \in Strategies, Apply(legs) PROVE LA!Say(legs)
    BY <2>1 DEF Apply, LA!Say
  <2>2. CASE Render
    BY <1>2, <2>2, RenderHears DEF LA!Next
  <2>3. CASE Reload
    BY <1>2, <2>3, ReloadReopens DEF LA!Next
  <2>4. ASSUME Ask \/ HoldBack
               \/ (\E request \in inFlight : Answered(request) \/ Failed(request))
               \/ (\E t \in Tabs : SelectTab(t))
               \/ UNCHANGED vars
        PROVE  UNCHANGED LA!vars
    BY <2>4 DEF Ask, HoldBack, Answered, Failed, SelectTab, vars, LA!vars
  <2>. QED
    BY <1>2, <2>1, <2>2, <2>3, <2>4 DEF Next, LA!Next
<1>. QED
  BY <1>1, <1>2, Invariance, PTL DEF Spec
==============================================================================
