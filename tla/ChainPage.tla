------------------------------ MODULE ChainPage ------------------------------
(***************************************************************************)
(* The Chain page and its door to Analyse: web/components/ChainScreen.tsx, *)
(* LegsStrip.tsx, ViewPicker.tsx, TimeControl.tsx, app/page.tsx and        *)
(* app/analyse/page.tsx, over the engine's answers.                        *)
(*                                                                         *)
(* The address bar is the state.  A gesture computes the next address from *)
(* what the last render holds and asks the router for it; the screen stays *)
(* as it is, still clickable, until the server has rendered the address.   *)
(* An address asked for meanwhile replaces the one that was on its way.  A *)
(* Preset is fetched first, and its address is asked for when the answer   *)
(* comes, computed from the render it was picked in.                       *)
(***************************************************************************)
EXTENDS Positions, FiniteSets

CONSTANTS
  Quote,      \* Quote[<<d, e>>][clock][contract]: the engine's answer about it
  Shapes,     \* what each Preset builds: a sequence of <<contract, direction>>
  Links,      \* the addresses a trader may open the page with
  MaxLegs,    \* bound: Legs in a Strategy
  MaxGestures \* bound: gestures since the page was opened

\* Not in the Chain, in it without a volatility, in it and priced.
Answers == {"none", "unpriced", "priced"}

ASSUME QuoteAssumption ==
  /\ Quote \in [Pairs -> [Clocks -> [Contracts -> Answers]]]
  /\ \A pair \in Pairs : \A m, n \in Clocks, c \in Contracts :
       (m <= n /\ Quote[pair][m][c] # "none") => Quote[pair][n][c] # "none"

\* No link is a Strategy of another series than the one it names, and a Leg it
\* holds was picked at no moment.
ASSUME LinksAssumption ==
  /\ Links \subseteq [view : LinkView, legs : Seq(Leg)]
  /\ \A link \in Links : \A i \in DOMAIN link.legs :
       /\ link.legs[i].expiry = link.view.expiry
       /\ link.legs[i].at.day = Nothing

ASSUME ShapesAssumption == Shapes \subseteq Seq(Contracts \X Directions)
ASSUME BoundsAssumption == MaxLegs \in Nat /\ MaxGestures \in Nat

Address == [view : View, legs : Seq(Leg)]

None == <<>>

VARIABLES
  screen,    \* the address the last render was of, as the page resolved it
  going,     \* the address the router is rendering, at most one
  calls,     \* Presets picked and not yet answered
  page,      \* "chain", or what Analyse shows: the chart or a heading
  gestures,  \* gestures so far
  carried    \* history: was a Strategy rendered in a series its link did not name?

vars == <<screen, going, calls, page, gestures, carried>>

Calls == [id : Nat, view : View, shape : Shapes]

Headings == {"notQuoted", "noExpiryLine"}

TypeOK ==
  /\ screen \in Address
  /\ going \in {None} \cup Address
  /\ calls \subseteq Calls
  /\ page \in {"chain", "chart"} \cup Headings
  /\ gestures \in 0 .. MaxGestures
  /\ carried \in BOOLEAN

------------------------------------------------------------------------------
\* The bug of leaving out what the engine has a default for.
strategyHref_leavesTheMomentOut(view, legs) ==
  [view |-> [view EXCEPT !.moment.clock = Nothing], legs |-> legs]

\* The whole view is written, and the Strategy.
strategyHref(view, legs) == [view |-> view, legs |-> legs]

\* The server's render of an address.
Rendered(address) == [view |-> pickView(address.view), legs |-> address.legs]

\* Did the engine resolve the link to another series than its Legs came under?
MovedSeries(address) ==
  address.legs # <<>> /\ pickView(address.view).expiry # address.view.expiry

Init ==
  /\ \E link \in Links : screen = Rendered(link) /\ carried = MovedSeries(link)
  /\ going = None
  /\ calls = {}
  /\ page = "chain"
  /\ gestures = 0

\* The date a question is about: off the moment, where none was named.
on(moment, date) == IF date = Nothing THEN moment.day ELSE date

\* The engine as-of a moment: the latest minute of the series at or before it.
\* A series the date did not trade is a 404, as an unquoted strike is.
answer(moment, date, expiry, contract) ==
  LET pair == <<on(moment, date), expiry>>
      upTo == IF require(pair[1], expiry) = "none"
              THEN {m \in Minutes[pair] : \/ pair[1] < moment.day
                                          \/ pair[1] = moment.day /\ m <= moment.clock}
              ELSE {}
  IN  IF upTo = {} THEN "none" ELSE Quote[pair][Max(upTo)][contract]

onChain(view, contract) == answer(view.moment, view.date, view.expiry, contract) # "none"

newLeg(view, contract, direction) ==
  [contract |-> contract, expiry |-> view.expiry, direction |-> direction, at |-> view.moment]

\* A gesture on the Chain page, and the address it asks for.
Gesture ==
  /\ page = "chain"
  /\ gestures < MaxGestures
  /\ gestures' = gestures + 1

go(view, legs) ==
  /\ going' = strategyHref(view, legs)
  /\ UNCHANGED <<screen, page, carried>>

\* toggleLeg, on a side of the Chain that has a quote.
Toggle(contract, direction) ==
  LET view == screen.view
      lit == heldAt(screen.legs, contract, direction, view.expiry)
  IN  /\ Gesture
      /\ onChain(view, contract)
      /\ lit \/ Len(screen.legs) < MaxLegs
      /\ go(view, IF lit THEN dropFirst(screen.legs, contract, direction, view.expiry)
                         ELSE Append(screen.legs, newLeg(view, contract, direction)))
      /\ UNCHANGED calls

\* The bug of carrying the moment across whole.
goDate_keepsTheMoment(date) ==
  /\ Gesture
  /\ date # screen.view.date
  /\ go([screen.view EXCEPT !.date = date], screen.legs)
  /\ UNCHANGED calls

\* Another day at the same clock, the Expiry and the Legs carried.
goDate(date) ==
  /\ Gesture
  /\ date # screen.view.date
  /\ go([screen.view EXCEPT !.date = date, !.moment.day = date], screen.legs)
  /\ UNCHANGED calls

\* Another series, without the Legs.
goExpiry(expiry) ==
  /\ Gesture
  /\ expiry # screen.view.expiry
  /\ go([screen.view EXCEPT !.expiry = expiry], <<>>)
  /\ UNCHANGED calls

\* The time control, over the minutes of the session.
goMoment(clock) ==
  /\ Gesture
  /\ clock # screen.view.moment.clock
  /\ go([screen.view EXCEPT !.moment.clock = clock], screen.legs)
  /\ UNCHANGED calls

\* The Legs strip: take one out, flip one between bought and sold.
RemoveLeg(i) ==
  /\ Gesture
  /\ go(screen.view, RemoveAt(screen.legs, i))
  /\ UNCHANGED calls

FlipLeg(i) ==
  /\ Gesture
  /\ go(screen.view, [screen.legs EXCEPT ![i].direction = IF @ = "B" THEN "S" ELSE "B"])
  /\ UNCHANGED calls

PickPreset(shape) ==
  /\ Gesture
  /\ calls' = calls \cup {[id |-> gestures, view |-> screen.view, shape |-> shape]}
  /\ UNCHANGED <<screen, going, page, carried>>

\* The bug of opening a Preset with Legs no one quotes.
built_withEveryLeg(view, shape) ==
  {[i \in DOMAIN shape |-> newLeg(view, shape[i][1], shape[i][2])]}

\* The Legs of a Preset that the Chain of that view quotes, in its order: the
\* one Strategy of the set.
built(view, shape) ==
  LET quoted == {i \in DOMAIN shape : onChain(view, shape[i][1])}
      places == 1..Cardinality(quoted)
  IN  {[n \in places |-> newLeg(view, shape[order[n]][1], shape[order[n]][2])] :
         order \in {order \in [places -> quoted] : \A m, n \in places : m < n => order[m] < order[n]}}

\* The bug of building for the screen the answer finds.
PresetBuilt_intoTheScreen(call) ==
  /\ \E legs \in built(call.view, call.shape) : go(screen.view, legs)
  /\ calls' = calls \ {call}
  /\ UNCHANGED <<gestures>>

\* The engine's answer to a Preset, applied to the view it was picked in,
\* whatever the trader has done since.
PresetBuilt(call) ==
  /\ \E legs \in built(call.view, call.shape) : go(call.view, legs)
  /\ calls' = calls \ {call}
  /\ UNCHANGED <<gestures>>

PresetFailed(call) ==
  /\ calls' = calls \ {call}
  /\ UNCHANGED <<screen, going, page, gestures, carried>>

\* The server has rendered the address.
Arrive ==
  /\ going # None
  /\ screen' = Rendered(going)
  /\ carried' = (going.legs # <<>> /\ (carried \/ MovedSeries(going)))
  /\ going' = None
  /\ UNCHANGED <<calls, page, gestures>>

\* What Analyse shows for a Strategy: a label that is none is refused first, then
\* mixed series, then the first Leg the engine cannot answer for; every 422 gets
\* one heading.
verdict(address) ==
  LET said(i) ==
        answer(address.view.moment, Nothing, address.legs[i].expiry, address.legs[i].contract)
      refused == {i \in DOMAIN address.legs : said(i) # "priced"}
  IN  IF \E i, j \in DOMAIN address.legs :
           \/ address.legs[i].expiry = Unreadable
           \/ address.legs[i].expiry # address.legs[j].expiry
        THEN "noExpiryLine"
      ELSE IF refused = {} THEN "chart"
      ELSE IF said(Min(refused)) = "none" THEN "notQuoted" ELSE "noExpiryLine"

\* The link to Analyse is of the last render.  Following it leaves the page,
\* and whatever was on its way is lost with it.
Analyse ==
  /\ Gesture
  /\ screen.legs # <<>>
  /\ screen' = Rendered(strategyHref(screen.view, screen.legs))
  /\ page' = verdict(screen')
  /\ going' = None
  /\ calls' = {}
  /\ UNCHANGED carried

\* Back to the Chain: with the Strategy from the chart, without it from a heading.
Back ==
  /\ page # "chain"
  /\ screen' = Rendered(strategyHref(screen.view, IF page = "chart" THEN screen.legs ELSE <<>>))
  /\ page' = "chain"
  /\ carried' = (carried /\ page = "chart")
  /\ UNCHANGED <<going, calls, gestures>>

Next ==
  \/ \E c \in Contracts, d \in Directions : Toggle(c, d)
  \/ \E date \in Dates : goDate(date)
  \/ \E expiry \in Traded[screen.view.date] : goExpiry(expiry)
  \/ \E clock \in Minutes[<<screen.view.date, screen.view.expiry>>] : goMoment(clock)
  \/ \E i \in DOMAIN screen.legs : RemoveLeg(i) \/ FlipLeg(i)
  \/ \E shape \in Shapes : PickPreset(shape)
  \/ \E call \in calls : PresetBuilt(call) \/ PresetFailed(call)
  \/ Arrive
  \/ Analyse
  \/ Back

Spec == Init /\ [][Next]_vars

------------------------------------------------------------------------------
\* Whatever a link named, the page is rendered from a pair the store holds, at
\* a minute of it: nothing the strict endpoints would refuse (catalog.py,
\* resolve and require; strategy-url.ts, pickView).
ScreenIsServed ==
  /\ screen.view.expiry # Nothing
  /\ require(screen.view.date, screen.view.expiry) = "none"
  /\ screen.view.moment.day = screen.view.date
  /\ screen.view.moment.clock \in Minutes[<<screen.view.date, screen.view.expiry>>]

\* The page never asks for an address of two days, in whatever order gestures,
\* answers and renders come: /analyse takes its day off the moment alone
\* (ChainScreen.tsx, goDate; strategy-url.ts, View).
OneDayPerAddress ==
  going # None => going.view.moment.day = going.view.date

\* The link of a screen reopens that screen, now or in another tab
\* (strategy-url.ts, strategyHref).
LinkReopens == Rendered(strategyHref(screen.view, screen.legs)) = screen

\* A Leg picked on the page was in the Chain of its own series at the moment it
\* was picked.
OnItsChain(leg) ==
  leg.at.day \in Dates => answer(leg.at, leg.at.day, leg.expiry, leg.contract) # "none"

\* Neither the Expiry dropdown, a date nor a Preset that answers late relabels a
\* Leg or mixes series: every Leg stays of the series it was picked in, also on
\* a screen a date change has taken to another, and on every other screen that
\* is the series shown (ChainScreen.tsx, goExpiry, goDate, toggleLeg, applyPreset).
LegsOfTheSeries ==
  /\ \A i \in DOMAIN screen.legs : OnItsChain(screen.legs[i])
  /\ ~carried => \A i \in DOMAIN screen.legs : screen.legs[i].expiry = screen.view.expiry

\* Analyse says a Leg is not quoted only of a Strategy taken to an earlier
\* minute than it was picked at, to another day, or written by hand: every Leg
\* a Preset or a click adds is quoted where its address lands, however late
\* the Preset answers (app/analyse/page.tsx, the 404; applyPreset).
NotQuotedOnlyAfterMoving ==
  page = "notQuoted" =>
    \E i \in DOMAIN screen.legs :
      \/ screen.legs[i].at.day # screen.view.date
      \/ screen.legs[i].at.clock > screen.view.moment.clock

\* The heading "This Strategy has no Expiry line", "because a curve drawn across
\* two Expiries looks like an answer and is not one" (app/analyse/page.tsx:101):
\* it is shown of Strategies across two Expiries.
NoExpiryLineMeansTwoSeries ==
  page = "noExpiryLine" =>
    \E i, j \in DOMAIN screen.legs : screen.legs[i].expiry # screen.legs[j].expiry
==============================================================================
