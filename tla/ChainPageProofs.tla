--------------------------- MODULE ChainPageProofs ---------------------------
(***************************************************************************)
(* Theorems about ChainPage, for every store, every link and any number of *)
(* gestures: the page is rendered from a pair the store holds, it asks for *)
(* addresses of one day only, the link of a screen reopens the screen, its *)
(* Legs are of its series, and a Leg called not quoted was moved.          *)
(***************************************************************************)
EXTENDS ChainPage, FiniteSetTheorems, SequenceTheorems, WellFoundedInduction, TLAPS

------------------------------------------------------------------------------
(* Facts about sets and sequences. *)

\* A set of naturals with a member has a least one.
LEMMA LeastMember ==
  ASSUME NEW S \in SUBSET Nat, S # {}
  PROVE  \E x \in S : \A y \in S : x <= y
<1>. DEFINE LessThan == {pair \in Nat \X Nat : pair[1] < pair[2]}
<1>1. PICK x \in S : \A y \in S : <<y, x>> \notin LessThan
  <2>1. IsWellFoundedOn(LessThan, Nat)
    BY NatLessThanWellFounded DEF OpToRel
  <2>. HIDE DEF LessThan
  <2>. QED
    BY <2>1, WFMin
<1>2. ASSUME NEW y \in S
      PROVE  x <= y
  <2>1. <<y, x>> \notin LessThan /\ y \in Nat /\ x \in Nat
    BY <1>1
  <2>. QED
    BY <2>1
<1>. QED
  BY <1>2

\* A least member is a member.
LEMMA MinIsMember ==
  ASSUME NEW S \in SUBSET Nat, S # {}
  PROVE  Min(S) \in S
BY LeastMember DEF Min

\* A bounded set of naturals with a member has a greatest one.
LEMMA GreatestMember ==
  ASSUME NEW S \in SUBSET Nat, S # {}, NEW n \in Nat, \A x \in S : x <= n
  PROVE  \E x \in S : \A y \in S : y <= x
<1>. DEFINE T == {n - x : x \in S}
<1>1. T \in SUBSET Nat /\ T # {}
  <2>1. \A x \in S : n - x \in Nat
    OBVIOUS
  <2>. QED
    BY <2>1
<1>2. PICK t \in T : \A u \in T : t <= u
  <2>. HIDE DEF T
  <2>. QED
    BY <1>1, LeastMember
<1>3. PICK x \in S : t = n - x
  BY <1>2
<1>4. \A y \in S : n - x <= n - y
  BY <1>2, <1>3
<1>5. ASSUME NEW y \in S
      PROVE  y <= x
  <2>1. x \in Nat /\ y \in Nat /\ n - x <= n - y
    BY <1>4
  <2>. QED
    BY <2>1
<1>. QED
  BY <1>5

\* A sequence is left with the elements it had, in their order, when one is
\* taken out.
LEMMA Removed ==
  ASSUME NEW S, NEW s \in Seq(S), NEW at \in 1..Len(s)
  PROVE  /\ RemoveAt(s, at) \in Seq(S)
         /\ Len(RemoveAt(s, at)) = Len(s) - 1
         /\ \A i \in 1..(Len(s) - 1) : RemoveAt(s, at)[i] = s[IF i < at THEN i ELSE i + 1]
<1>. DEFINE before == SubSeq(s, 1, at - 1)
            after == SubSeq(s, at + 1, Len(s))
<1>1. /\ before \in Seq(S) /\ Len(before) = at - 1
      /\ \A i \in 1..(at - 1) : before[i] = s[i]
      /\ after \in Seq(S) /\ Len(after) = Len(s) - at
      /\ \A i \in 1..(Len(s) - at) : after[i] = s[at + i]
  <2>1. \A i \in 1..(at - 1) : s[i] \in S
    OBVIOUS
  <2>2. \A i \in (at + 1)..Len(s) : s[i] \in S
    OBVIOUS
  <2>. QED
    BY <2>1, <2>2, SubSeqProperties
<1>2. RemoveAt(s, at) = before \o after
  BY DEF RemoveAt
<1>. HIDE DEF before, after
<1>3. /\ before \o after \in Seq(S) /\ Len(before \o after) = Len(before) + Len(after)
      /\ \A i \in 1..(Len(before) + Len(after)) :
           (before \o after)[i] = IF i <= Len(before) THEN before[i] ELSE after[i - Len(before)]
  BY <1>1, ConcatProperties
<1>4. ASSUME NEW i \in 1..(Len(s) - 1), ~(i < at)
      PROVE  after[i - (at - 1)] = s[i + 1]
  <2>1. i - (at - 1) \in 1..(Len(s) - at) /\ at + (i - (at - 1)) = i + 1
    BY <1>4
  <2>. QED
    BY <1>1, <2>1
<1>5. Len(before) = at - 1 /\ Len(before) + Len(after) = Len(s) - 1
  BY <1>1
<1>. QED
  BY <1>1, <1>2, <1>3, <1>4, <1>5

USE StoreAssumption, SessionAssumption

------------------------------------------------------------------------------
(* What resolving a link yields. *)

\* A view the page may ask for: of dates and series the store lists, and the
\* moment on its date.
OneDay(view) == view \in View /\ view.moment.day = view.date

\* A view the strict endpoints answer.
Served(view) ==
  /\ OneDay(view)
  /\ <<view.date, view.expiry>> \in Pairs
  /\ view.moment.clock \in Minutes[<<view.date, view.expiry>>]

\* The date a link resolves to is stored, whatever it named.
LEMMA ResolvedDateStored == \A date : resolvedDate(date) \in Dates
<1>1. Min(Dates) \in Dates
  BY MinIsMember
<1>. QED
  BY <1>1 DEF resolvedDate

\* The pair a link resolves to is stored, whatever it named.
LEMMA ResolvedPairStored ==
  ASSUME NEW date, NEW expiry
  PROVE  /\ resolve(date, expiry) \in Pairs
         /\ resolve(date, expiry) = <<resolve(date, expiry)[1], resolve(date, expiry)[2]>>
<1>. DEFINE day == resolvedDate(date)
<1>1. day \in Dates
  BY ResolvedDateStored
<1>2. /\ Traded[day] \in SUBSET Series
      /\ Traded[day] # {}
  BY <1>1
<1>3. Min(Traded[day]) \in Traded[day]
  BY <1>2, MinIsMember
<1>4. PICK series : resolve(date, expiry)
                      = <<day, IF series \in Traded[day] THEN series ELSE Min(Traded[day])>>
  BY <1>1 DEF resolve, expiries
<1>. HIDE DEF day
<1>. QED
  BY <1>1, <1>2, <1>3, <1>4 DEF Pairs

\* The minute the page settles on is a minute of the pair.
LEMMA PickedMomentServed ==
  ASSUME NEW date \in Dates, NEW expiry \in Series, <<date, expiry>> \in Pairs, NEW asked
  PROVE  /\ pickMoment(<<date, expiry>>, asked) \in [day : Dates, clock : Clocks]
         /\ pickMoment(<<date, expiry>>, asked).day = date
         /\ pickMoment(<<date, expiry>>, asked).clock \in Minutes[<<date, expiry>>]
<1>. DEFINE minutes == Minutes[<<date, expiry>>]
<1>1. minutes \in SUBSET Clocks /\ minutes # {}
  OBVIOUS
<1>2. Min(minutes) \in minutes
  BY <1>1, MinIsMember
<1>3. \E clock \in minutes : pickMoment(<<date, expiry>>, asked) = [day |-> date, clock |-> clock]
  BY <1>2 DEF pickMoment
<1>. QED
  BY <1>1, <1>3

\* Whatever a link named, the view it renders is served.
LEMMA PickedViewServed == \A view : Served(pickView(view))
<1>. SUFFICES ASSUME NEW view
              PROVE  Served(pickView(view))
  OBVIOUS
<1>. DEFINE pair == resolve(view.date, view.expiry)
<1>1. pair \in Pairs /\ pair = <<pair[1], pair[2]>>
  BY ResolvedPairStored
<1>. DEFINE date == pair[1]
            expiry == pair[2]
            moment == pickMoment(pair, view.moment)
<1>2. pickView(view) = [date |-> date, expiry |-> expiry, moment |-> moment]
  BY DEF pickView
<1>. HIDE DEF pair
<1>3. date \in Dates /\ expiry \in Series /\ <<date, expiry>> \in Pairs
  BY <1>1 DEF Pairs
<1>4. /\ moment \in [day : Dates, clock : Clocks]
      /\ moment.day = date
      /\ moment.clock \in Minutes[<<date, expiry>>]
  BY <1>1, <1>3, PickedMomentServed
<1>. HIDE DEF date, expiry, moment
<1>. QED
  BY <1>2, <1>3, <1>4 DEF Served, OneDay, View

\* A served view resolves to itself.
LEMMA ServedIsFixed ==
  ASSUME NEW view, Served(view)
  PROVE  pickView(view) = view
<1>1. /\ view \in View
      /\ view.date \in Dates
      /\ view.expiry \in Traded[view.date]
      /\ view.date \in Nat /\ view.expiry \in Nat
      /\ view.moment = [day |-> view.date, clock |-> view.moment.clock]
      /\ view.moment.clock \in Minutes[<<view.date, view.expiry>>]
  BY DEF Served, OneDay, View, Pairs
<1>2. resolve(view.date, view.expiry) = <<view.date, view.expiry>>
  BY <1>1 DEF resolve, resolvedDate, expiries, as_date, as_label, Unreadable
<1>3. pickMoment(<<view.date, view.expiry>>, view.moment) = view.moment
  BY <1>1 DEF pickMoment
<1>. QED
  BY <1>1, <1>2, <1>3 DEF pickView, View

------------------------------------------------------------------------------
(* The engine's answer does not go away as the day goes on.                 *)

\* What names nothing is no date, no clock and no series.
LEMMA NothingNamed == Nothing \in Int /\ Nothing < 0 /\ Unreadable \in Int /\ Unreadable < 0
<1>1. -1 \in Int /\ -1 < 0 /\ -2 \in Int /\ -2 < 0
  OBVIOUS
<1>. QED
  BY <1>1 DEF Nothing, Unreadable

\* A contract in the Chain of its series at a moment is in it at every later
\* moment of that day.
LEMMA StaysQuoted ==
  ASSUME NEW early \in Moment, NEW late \in [day : Dates, clock : Clocks],
         NEW expiry \in Series \cup {Unreadable}, NEW contract \in Contracts,
         early.day = late.day, early.clock <= late.clock,
         answer(early, early.day, expiry, contract) # "none"
  PROVE  answer(late, Nothing, expiry, contract) # "none"
<1>. DEFINE day == late.day
            pair == <<day, expiry>>
            upTo(moment) == {m \in Minutes[pair] : day < moment.day \/ (day = moment.day /\ m <= moment.clock)}
<1>1. /\ day \in Dates /\ day \in Nat /\ day # Nothing /\ late.clock \in Nat
      /\ on(early, early.day) = day /\ on(late, Nothing) = day
  <2>1. day \in Dates /\ late.clock \in Clocks
    OBVIOUS
  <2>2. day \in Nat /\ late.clock \in Nat
    BY <2>1
  <2>3. day # Nothing
    BY <2>2, NothingNamed
  <2>. QED
    BY <2>1, <2>2, <2>3 DEF on
<1>2. /\ require(day, expiry) = "none" /\ upTo(early) # {}
      /\ Quote[pair][Max(upTo(early))][contract] # "none"
  BY <1>1 DEF answer
<1>3. expiry \in Traded[day] /\ pair \in Pairs
  BY <1>1, <1>2 DEF require, expiries, Pairs, Nothing, Unreadable
<1>4. Minutes[pair] \in SUBSET Clocks /\ Clocks \subseteq Nat
  BY <1>3
<1>5. /\ upTo(early) = {m \in Minutes[pair] : m <= early.clock}
      /\ upTo(late) = {m \in Minutes[pair] : m <= late.clock}
  BY <1>1
<1>6. early.clock \in Nat
  <2>1. early.clock \in Nat \cup {Nothing}
    BY DEF Moment
  <2>2. PICK m \in Minutes[pair] : m <= early.clock
    BY <1>2, <1>5
  <2>3. m \in Nat
    BY <1>4, <2>2
  <2>. QED
    BY <2>1, <2>2, <2>3, NothingNamed
<1>7. answer(late, Nothing, expiry, contract)
        = IF upTo(late) = {} THEN "none" ELSE Quote[pair][Max(upTo(late))][contract]
  BY <1>1, <1>2 DEF answer
<1>. HIDE DEF upTo
<1>8. /\ upTo(early) \in SUBSET Nat /\ \A m \in upTo(early) : m <= early.clock
      /\ upTo(late) \in SUBSET Nat /\ \A m \in upTo(late) : m <= late.clock
      /\ upTo(early) \subseteq upTo(late) /\ upTo(late) \subseteq Clocks
  <2>1. upTo(early) \subseteq Minutes[pair] /\ upTo(late) \subseteq Minutes[pair]
    BY <1>5
  <2>2. Minutes[pair] \subseteq Nat /\ Minutes[pair] \subseteq Clocks
    BY <1>4
  <2>3. ASSUME NEW m \in upTo(early)
        PROVE  m \in upTo(late)
    <3>1. m \in Minutes[pair] /\ m \in Nat /\ m <= early.clock
      BY <1>5, <2>1, <2>2
    <3>2. m <= late.clock
      BY <1>1, <1>6, <3>1
    <3>. QED
      BY <1>5, <3>1, <3>2
  <2>. QED
    BY <1>5, <2>1, <2>2, <2>3
<1>9. Max(upTo(early)) \in upTo(early)
  BY <1>2, <1>6, <1>8, GreatestMember DEF Max
<1>10. upTo(late) # {}
  BY <1>2, <1>8
<1>11. Max(upTo(late)) \in upTo(late) /\ \A m \in upTo(late) : Max(upTo(late)) >= m
  BY <1>1, <1>8, <1>10, GreatestMember DEF Max
<1>12. Max(upTo(early)) <= Max(upTo(late))
  BY <1>8, <1>9, <1>11
<1>13. Quote[pair][Max(upTo(late))][contract] # "none"
  BY <1>2, <1>3, <1>8, <1>9, <1>11, <1>12, QuoteAssumption
<1>. QED
  BY <1>7, <1>10, <1>13

------------------------------------------------------------------------------
(* The inductive invariant: it says of the addresses on their way, and of   *)
(* the Presets not yet answered, what the theorems say of the screen.       *)

Strategy(legs) == legs \in Seq(Leg) /\ \A i \in DOMAIN legs : OnItsChain(legs[i])

OfSeries(legs, expiry) == \A i \in DOMAIN legs : legs[i].expiry = expiry

IInv ==
  /\ screen = strategyHref(screen.view, screen.legs)
  /\ Served(screen.view)
  /\ Strategy(screen.legs)
  /\ ~carried => OfSeries(screen.legs, screen.view.expiry)
  /\ going # None => /\ going = strategyHref(going.view, going.legs)
                     /\ OneDay(going.view)
                     /\ Strategy(going.legs)
                     /\ ~carried => OfSeries(going.legs, going.view.expiry)
  /\ calls \subseteq Calls
  /\ \A call \in calls : Served(call.view)
  /\ page \in {"chain", "chart"} \cup Headings
  /\ page # "chain" => going = None /\ calls = {}
  /\ NotQuotedOnlyAfterMoving
  /\ gestures \in 0..MaxGestures
  /\ carried \in BOOLEAN

\* What the server renders is served, and is a view and a Strategy.
LEMMA RenderedServed ==
  \A address : /\ Served(Rendered(address).view)
               /\ Rendered(address) = strategyHref(Rendered(address).view, Rendered(address).legs)
               /\ Rendered(address).legs = address.legs
BY PickedViewServed DEF Rendered, strategyHref

\* A screen's own address renders as the screen, with its Legs or without.
LEMMA OwnAddress ==
  ASSUME NEW view, Served(view), NEW legs
  PROVE  Rendered(strategyHref(view, legs)) = strategyHref(view, legs)
BY ServedIsFixed DEF Rendered, strategyHref

\* Asking for an address of one day leaves the invariant, of a Strategy that is
\* of the view's series where the last one was.
LEMMA GoKeeps ==
  ASSUME IInv, page = "chain", NEW view, OneDay(view), NEW legs, Strategy(legs),
         ~carried => OfSeries(legs, view.expiry),
         go(view, legs), calls' \subseteq calls, gestures' \in 0..MaxGestures
  PROVE  IInv'
<1>1. /\ screen' = screen /\ page' = "chain" /\ carried' = carried
      /\ going' = [view |-> view, legs |-> legs]
  BY DEF go, strategyHref
<1>2. going'.view = view /\ going'.legs = legs
  BY <1>1
<1>3. /\ screen' = strategyHref(screen'.view, screen'.legs)
      /\ Served(screen.view)' /\ Strategy(screen.legs)'
      /\ (~carried => OfSeries(screen.legs, screen.view.expiry))'
  BY <1>1 DEF IInv, Served, OneDay, Strategy, OnItsChain, OfSeries
<1>4. /\ going' = strategyHref(going'.view, going'.legs)
      /\ OneDay(going'.view) /\ Strategy(going'.legs)
      /\ ~carried' => OfSeries(going'.legs, going'.view.expiry)
  BY <1>1, <1>2 DEF strategyHref
<1>5. calls' \subseteq Calls /\ \A call \in calls' : Served(call.view)
  BY DEF IInv
<1>6. page' \in {"chain", "chart"} \cup Headings /\ NotQuotedOnlyAfterMoving'
      /\ carried' \in BOOLEAN
  BY <1>1 DEF NotQuotedOnlyAfterMoving, IInv
<1>. QED
  BY <1>1, <1>3, <1>4, <1>5, <1>6 DEF IInv

\* A Leg added off the Chain on screen is one, and was on it.
LEMMA NewLeg ==
  ASSUME NEW view, Served(view), NEW contract \in Contracts, NEW direction \in Directions,
         onChain(view, contract)
  PROVE  /\ newLeg(view, contract, direction) \in Leg
         /\ OnItsChain(newLeg(view, contract, direction))
         /\ newLeg(view, contract, direction).expiry = view.expiry
<1>. DEFINE leg == newLeg(view, contract, direction)
<1>1. view \in View /\ view.moment.day = view.date
  BY DEF Served, OneDay
<1>2. leg = [contract |-> contract, expiry |-> view.expiry, direction |-> direction,
             at |-> view.moment]
  BY DEF newLeg
<1>3. /\ leg.contract = contract /\ leg.expiry = view.expiry /\ leg.at = view.moment
  BY <1>2
<1>4. leg \in Leg
  <2>1. view.expiry \in Series /\ view.moment \in [day : Dates, clock : Clocks]
    BY <1>1 DEF View
  <2>2. view.moment \in Moment
    BY <2>1 DEF Moment
  <2>. HIDE DEF leg
  <2>. QED
    BY <1>2, <2>1, <2>2 DEF Leg
<1>5. OnItsChain(leg)
  BY <1>1, <1>3 DEF OnItsChain, onChain
<1>. QED
  BY <1>3, <1>4, <1>5

\* What a Preset opens with was on the Chain it was picked off, in its series.
LEMMA BuiltStrategy ==
  ASSUME NEW view, Served(view), NEW shape \in Shapes, NEW legs \in built(view, shape)
  PROVE  Strategy(legs) /\ OfSeries(legs, view.expiry)
<1>. DEFINE quoted == {i \in DOMAIN shape : onChain(view, shape[i][1])}
            places == 1..Cardinality(quoted)
<1>1. PICK order \in [places -> quoted] :
        legs = [n \in places |-> newLeg(view, shape[order[n]][1], shape[order[n]][2])]
  BY DEF built
<1>2. shape \in Seq(Contracts \X Directions)
  BY ShapesAssumption
<1>3. Cardinality(quoted) \in Nat
  <2>1. IsFiniteSet(1..Len(shape))
    BY <1>2, FS_Interval
  <2>2. quoted \subseteq 1..Len(shape)
    BY <1>2
  <2>. HIDE DEF quoted
  <2>. QED
    BY <2>1, <2>2, FS_Subset, FS_CardinalityType
<1>4. \A i \in quoted : /\ shape[i][1] \in Contracts /\ shape[i][2] \in Directions
                        /\ onChain(view, shape[i][1])
  BY <1>2
<1>. HIDE DEF quoted
<1>5. DOMAIN legs = places
  BY <1>1
<1>6. ASSUME NEW n \in places
      PROVE  legs[n] \in Leg /\ OnItsChain(legs[n]) /\ legs[n].expiry = view.expiry
  <2>1. order[n] \in quoted
    BY <1>1
  <2>2. legs[n] = newLeg(view, shape[order[n]][1], shape[order[n]][2])
    BY <1>1
  <2>. QED
    BY <1>4, <2>1, <2>2, NewLeg
<1>7. legs \in Seq(Leg)
  <2>1. legs = [n \in places |-> legs[n]]
    BY <1>1
  <2>. QED
    BY <1>3, <1>6, <2>1
<1>. QED
  BY <1>5, <1>6, <1>7 DEF Strategy, OfSeries

\* A Strategy one Leg shorter is one.
LEMMA Shorter ==
  ASSUME NEW legs, Strategy(legs), NEW at \in DOMAIN legs
  PROVE  /\ Strategy(RemoveAt(legs, at))
         /\ \A expiry : OfSeries(legs, expiry) => OfSeries(RemoveAt(legs, at), expiry)
<1>1. legs \in Seq(Leg) /\ at \in 1..Len(legs) /\ DOMAIN legs = 1..Len(legs) /\ Len(legs) \in Nat
  BY DEF Strategy
<1>2. /\ RemoveAt(legs, at) \in Seq(Leg)
      /\ Len(RemoveAt(legs, at)) = Len(legs) - 1
      /\ \A i \in 1..(Len(legs) - 1) : RemoveAt(legs, at)[i] = legs[IF i < at THEN i ELSE i + 1]
  BY <1>1, Removed
<1>3. DOMAIN RemoveAt(legs, at) = 1..(Len(legs) - 1)
  BY <1>1, <1>2
<1>4. ASSUME NEW i \in 1..(Len(legs) - 1)
      PROVE  \E j \in DOMAIN legs : RemoveAt(legs, at)[i] = legs[j]
  <2>1. (IF i < at THEN i ELSE i + 1) \in DOMAIN legs
    BY <1>1
  <2>. QED
    BY <1>2, <2>1
<1>. QED
  BY <1>2, <1>3, <1>4 DEF Strategy, OfSeries

\* A Strategy one Leg longer is one.
LEMMA Longer ==
  ASSUME NEW legs, Strategy(legs), NEW leg \in Leg, OnItsChain(leg)
  PROVE  /\ Strategy(Append(legs, leg))
         /\ OfSeries(legs, leg.expiry) => OfSeries(Append(legs, leg), leg.expiry)
<1>1. legs \in Seq(Leg) /\ DOMAIN legs = 1..Len(legs) /\ Len(legs) \in Nat
  BY DEF Strategy
<1>2. /\ Append(legs, leg) \in Seq(Leg)
      /\ Len(Append(legs, leg)) = Len(legs) + 1
      /\ \A i \in 1..Len(legs) : Append(legs, leg)[i] = legs[i]
      /\ Append(legs, leg)[Len(legs) + 1] = leg
  BY <1>1, AppendProperties
<1>3. DOMAIN Append(legs, leg) = 1..(Len(legs) + 1)
  BY <1>1, <1>2
<1>4. \A i \in 1..(Len(legs) + 1) : i \in 1..Len(legs) \/ i = Len(legs) + 1
  BY <1>1
<1>. QED
  BY <1>1, <1>2, <1>3, <1>4 DEF Strategy, OfSeries

\* A Leg bought and sold are of one series and picked at one moment.
LEMMA Flipped ==
  ASSUME NEW legs, Strategy(legs), NEW at \in DOMAIN legs
  PROVE  LET flipped == [legs EXCEPT ![at].direction = IF @ = "B" THEN "S" ELSE "B"]
         IN  /\ Strategy(flipped)
             /\ \A expiry : OfSeries(legs, expiry) => OfSeries(flipped, expiry)
<1>. DEFINE leg == [legs[at] EXCEPT !.direction = IF @ = "B" THEN "S" ELSE "B"]
            flipped == [legs EXCEPT ![at] = leg]
<1>1. legs \in Seq(Leg) /\ legs[at] \in Leg
  BY DEF Strategy
<1>2. /\ leg \in Leg /\ leg.at = legs[at].at /\ leg.expiry = legs[at].expiry
      /\ leg.contract = legs[at].contract
  BY <1>1 DEF Leg, Directions
<1>. HIDE DEF leg
<1>3. /\ flipped \in Seq(Leg) /\ DOMAIN flipped = DOMAIN legs
      /\ \A i \in DOMAIN legs : flipped[i] = IF i = at THEN leg ELSE legs[i]
  BY <1>1, <1>2
<1>. HIDE DEF flipped
<1>4. OnItsChain(leg)
  BY <1>2 DEF Strategy, OnItsChain
<1>5. Strategy(flipped) /\ \A expiry : OfSeries(legs, expiry) => OfSeries(flipped, expiry)
  BY <1>2, <1>3, <1>4 DEF Strategy, OfSeries
<1>6. flipped = [legs EXCEPT ![at].direction = IF @ = "B" THEN "S" ELSE "B"]
  BY DEF flipped, leg
<1>. QED
  BY <1>5, <1>6

\* The parts the dropdowns and the time control replace.
LEMMA PickedParts ==
  ASSUME NEW view, Served(view)
  PROVE  /\ OneDay(view)
         /\ \A date \in Dates :
              /\ OneDay([view EXCEPT !.date = date, !.moment.day = date])
              /\ [view EXCEPT !.date = date, !.moment.day = date].expiry = view.expiry
         /\ \A expiry \in Traded[view.date] : OneDay([view EXCEPT !.expiry = expiry])
         /\ \A clock \in Minutes[<<view.date, view.expiry>>] :
              /\ OneDay([view EXCEPT !.moment.clock = clock])
              /\ [view EXCEPT !.moment.clock = clock].expiry = view.expiry
<1>1. /\ view \in View
      /\ view.moment.day = view.date
      /\ <<view.date, view.expiry>> \in Pairs
  BY DEF Served, OneDay
<1>2. Traded[view.date] \subseteq Series
  BY <1>1 DEF View
<1>3. Minutes[<<view.date, view.expiry>>] \subseteq Clocks
  BY <1>1
<1>. QED
  BY <1>1, <1>2, <1>3 DEF OneDay, View

LEMMA InitEstablishes == Init => IInv
<1>. SUFFICES ASSUME Init
              PROVE  IInv
  OBVIOUS
<1>1. PICK link \in Links : screen = Rendered(link) /\ carried = MovedSeries(link)
  BY DEF Init
<1>2. /\ screen = strategyHref(screen.view, screen.legs) /\ Served(screen.view)
      /\ screen.legs = link.legs /\ screen.view = pickView(link.view)
  BY <1>1, RenderedServed DEF Rendered
<1>3. /\ link.legs \in Seq(Leg)
      /\ \A i \in DOMAIN link.legs : /\ link.legs[i].expiry = link.view.expiry
                                     /\ link.legs[i].at.day = Nothing
  BY LinksAssumption
<1>4. Strategy(screen.legs)
  BY <1>2, <1>3 DEF Strategy, OnItsChain, Nothing
<1>5. ~carried => OfSeries(screen.legs, screen.view.expiry)
  <2>1. CASE link.legs = <<>>
    BY <1>2, <2>1 DEF OfSeries
  <2>2. CASE link.legs # <<>>
    BY <1>1, <1>2, <1>3, <2>2 DEF OfSeries, MovedSeries
  <2>. QED
    BY <2>1, <2>2
<1>6. carried \in BOOLEAN
  BY <1>1 DEF MovedSeries
<1>7. going = None /\ calls = {} /\ page = "chain" /\ gestures \in 0..MaxGestures
  BY BoundsAssumption DEF Init
<1>. QED
  BY <1>2, <1>4, <1>5, <1>6, <1>7 DEF IInv, NotQuotedOnlyAfterMoving

\* Analyse says a Leg is not quoted only of one that was moved.
LEMMA VerdictMoved ==
  ASSUME NEW view, Served(view), NEW legs, Strategy(legs),
         verdict(strategyHref(view, legs)) = "notQuoted"
  PROVE  \E i \in DOMAIN legs : \/ legs[i].at.day # view.date
                                \/ legs[i].at.clock > view.moment.clock
<1>. DEFINE said(i) == answer(view.moment, Nothing, legs[i].expiry, legs[i].contract)
            refused == {i \in DOMAIN legs : said(i) # "priced"}
<1>1. refused # {} /\ said(Min(refused)) = "none"
  BY DEF verdict, strategyHref
<1>2. refused \in SUBSET Nat
  BY DEF Strategy
<1>3. Min(refused) \in refused
  <2>. HIDE DEF refused
  <2>. QED
    BY <1>1, <1>2, MinIsMember
<1>4. PICK i \in DOMAIN legs : said(i) = "none"
  BY <1>1, <1>3
<1>5. /\ legs[i] \in Leg /\ legs[i].at \in Moment /\ legs[i].contract \in Contracts
      /\ legs[i].expiry \in Series \cup {Unreadable} /\ OnItsChain(legs[i])
  <2>1. legs[i] \in Leg /\ OnItsChain(legs[i])
    BY DEF Strategy
  <2>. QED
    BY <2>1 DEF Leg
<1>6. /\ view.moment \in [day : Dates, clock : Clocks] /\ view.moment.day = view.date
      /\ view.date \in Dates /\ view.moment.clock \in Nat
  BY DEF Served, OneDay, View
<1>7. ASSUME legs[i].at.day = view.date, legs[i].at.clock <= view.moment.clock
      PROVE  FALSE
  BY <1>4, <1>5, <1>6, <1>7, StaysQuoted DEF OnItsChain
<1>8. legs[i].at.clock \in Int
  BY <1>5, NothingNamed DEF Moment
<1>. QED
  BY <1>6, <1>7, <1>8

LEMMA StepKeeps == IInv /\ [Next]_vars => IInv'
<1>. SUFFICES ASSUME IInv, [Next]_vars
              PROVE  IInv'
  OBVIOUS
<1>. DEFINE view == screen.view
            legs == screen.legs
<1>0. /\ Served(view) /\ OneDay(view) /\ Strategy(legs)
      /\ ~carried => OfSeries(legs, view.expiry)
      /\ gestures \in Nat /\ MaxGestures \in Nat
  <2>1. Served(view) /\ Strategy(legs) /\ (~carried => OfSeries(legs, view.expiry))
    BY DEF IInv
  <2>2. gestures \in Nat /\ MaxGestures \in Nat
    BY BoundsAssumption DEF IInv
  <2>. QED
    BY <2>1, <2>2, PickedParts
<1>g. ASSUME Gesture
      PROVE  page = "chain" /\ gestures' \in 0..MaxGestures
  BY <1>0, <1>g DEF Gesture
<1>1. ASSUME NEW c \in Contracts, NEW d \in Directions, Toggle(c, d)
      PROVE  IInv'
  <2>1. /\ Gesture /\ onChain(view, c) /\ calls' = calls
    BY <1>1 DEF Toggle
  <2>2. CASE heldAt(legs, c, d, view.expiry)
    <3>. DEFINE at == held(legs, c, d, view.expiry)
    <3>1. at \subseteq DOMAIN legs /\ at # {} /\ at \in SUBSET Nat
      BY <1>0, <2>2 DEF held, heldAt, Strategy
    <3>2. Min(at) \in DOMAIN legs
      <4>. HIDE DEF at
      <4>. QED
        BY <3>1, MinIsMember
    <3>3. go(view, RemoveAt(legs, Min(at)))
      BY <1>1, <2>2 DEF Toggle, dropFirst
    <3>. HIDE DEF at
    <3>4. /\ Strategy(RemoveAt(legs, Min(at)))
          /\ ~carried => OfSeries(RemoveAt(legs, Min(at)), view.expiry)
      BY <1>0, <3>2, Shorter
    <3>. QED
      BY <1>0, <1>g, <2>1, <3>3, <3>4, GoKeeps
  <2>3. CASE ~heldAt(legs, c, d, view.expiry)
    <3>. DEFINE leg == newLeg(view, c, d)
    <3>1. go(view, Append(legs, leg))
      BY <1>1, <2>3 DEF Toggle
    <3>2. leg \in Leg /\ OnItsChain(leg) /\ leg.expiry = view.expiry
      BY <1>0, <2>1, NewLeg
    <3>. HIDE DEF leg
    <3>3. Strategy(Append(legs, leg)) /\ (~carried => OfSeries(Append(legs, leg), view.expiry))
      BY <1>0, <3>2, Longer
    <3>. QED
      BY <1>0, <1>g, <2>1, <3>1, <3>3, GoKeeps
  <2>. QED
    BY <2>2, <2>3
<1>2. ASSUME NEW date \in Dates, goDate(date)
      PROVE  IInv'
  <2>. DEFINE next == [view EXCEPT !.date = date, !.moment.day = date]
  <2>1. OneDay(next) /\ next.expiry = view.expiry
    BY <1>0, PickedParts
  <2>2. Gesture /\ go(next, legs) /\ calls' = calls
    BY <1>2 DEF goDate
  <2>. HIDE DEF next
  <2>. QED
    BY <1>0, <1>g, <2>1, <2>2, GoKeeps
<1>3. ASSUME NEW expiry \in Traded[view.date], goExpiry(expiry)
      PROVE  IInv'
  <2>. DEFINE next == [view EXCEPT !.expiry = expiry]
  <2>1. OneDay(next)
    BY <1>0, PickedParts
  <2>2. Gesture /\ go(next, <<>>) /\ calls' = calls
    BY <1>3 DEF goExpiry
  <2>. HIDE DEF next
  <2>3. Strategy(<<>>) /\ OfSeries(<<>>, next.expiry)
    BY DEF Strategy, OfSeries
  <2>. QED
    BY <1>0, <1>g, <2>1, <2>2, <2>3, GoKeeps
<1>4. ASSUME NEW clock \in Minutes[<<view.date, view.expiry>>], goMoment(clock)
      PROVE  IInv'
  <2>. DEFINE next == [view EXCEPT !.moment.clock = clock]
  <2>1. OneDay(next) /\ next.expiry = view.expiry
    BY <1>0, PickedParts
  <2>2. Gesture /\ go(next, legs) /\ calls' = calls
    BY <1>4 DEF goMoment
  <2>. HIDE DEF next
  <2>. QED
    BY <1>0, <1>g, <2>1, <2>2, GoKeeps
<1>5. ASSUME NEW i \in DOMAIN legs, RemoveLeg(i)
      PROVE  IInv'
  <2>1. Gesture /\ go(view, RemoveAt(legs, i)) /\ calls' = calls
    BY <1>5 DEF RemoveLeg
  <2>2. Strategy(RemoveAt(legs, i)) /\ (~carried => OfSeries(RemoveAt(legs, i), view.expiry))
    BY <1>0, Shorter
  <2>. QED
    BY <1>0, <1>g, <2>1, <2>2, GoKeeps
<1>6. ASSUME NEW i \in DOMAIN legs, FlipLeg(i)
      PROVE  IInv'
  <2>. DEFINE flipped == [legs EXCEPT ![i].direction = IF @ = "B" THEN "S" ELSE "B"]
  <2>1. Gesture /\ go(view, flipped) /\ calls' = calls
    BY <1>6 DEF FlipLeg
  <2>2. Strategy(flipped) /\ (~carried => OfSeries(flipped, view.expiry))
    BY <1>0, Flipped
  <2>. HIDE DEF flipped
  <2>. QED
    BY <1>0, <1>g, <2>1, <2>2, GoKeeps
<1>7. ASSUME NEW shape \in Shapes, PickPreset(shape)
      PROVE  IInv'
  <2>1. /\ UNCHANGED <<screen, going, page, carried>> /\ Gesture
        /\ calls' = calls \cup {[id |-> gestures, view |-> view, shape |-> shape]}
    BY <1>7 DEF PickPreset
  <2>2. calls' \subseteq Calls /\ \A call \in calls' : Served(call.view)
    BY <1>0, <2>1 DEF IInv, Calls, Served, OneDay
  <2>. QED
    BY <1>g, <2>1, <2>2 DEF IInv, strategyHref, OneDay, Served, Strategy, OnItsChain, OfSeries,
                            NotQuotedOnlyAfterMoving
<1>8. ASSUME NEW call \in calls, PresetBuilt(call)
      PROVE  IInv'
  <2>1. PICK strategy \in built(call.view, call.shape) : go(call.view, strategy)
    BY <1>8 DEF PresetBuilt
  <2>2. calls' \subseteq calls /\ gestures' \in 0..MaxGestures /\ page = "chain"
    BY <1>8 DEF PresetBuilt, IInv
  <2>3. Served(call.view) /\ OneDay(call.view) /\ call.shape \in Shapes
    BY DEF IInv, Served, Calls
  <2>4. Strategy(strategy) /\ OfSeries(strategy, call.view.expiry)
    BY <2>1, <2>3, BuiltStrategy
  <2>. QED
    BY <2>1, <2>2, <2>3, <2>4, GoKeeps
<1>9. ASSUME NEW call \in calls, PresetFailed(call)
      PROVE  IInv'
  BY <1>9 DEF PresetFailed, IInv, strategyHref, OneDay, Served, Strategy, OnItsChain, OfSeries,
              NotQuotedOnlyAfterMoving
<1>10. CASE Arrive
  <2>1. /\ going # None /\ going' = None /\ screen' = Rendered(going)
        /\ carried' = (going.legs # <<>> /\ (carried \/ MovedSeries(going)))
        /\ UNCHANGED <<calls, page, gestures>>
    BY <1>10 DEF Arrive
  <2>2. /\ Strategy(going.legs) /\ page = "chain"
        /\ ~carried => OfSeries(going.legs, going.view.expiry)
    BY <2>1 DEF IInv
  <2>3. /\ screen' = strategyHref(screen'.view, screen'.legs) /\ Served(screen'.view)
        /\ screen'.legs = going.legs /\ screen'.view = pickView(going.view)
    BY <2>1, RenderedServed DEF Rendered
  <2>4. ~carried' => OfSeries(screen'.legs, screen'.view.expiry)
    <3>1. CASE going.legs = <<>>
      BY <2>3, <3>1 DEF OfSeries
    <3>2. CASE going.legs # <<>>
      BY <2>1, <2>2, <2>3, <3>2 DEF OfSeries, MovedSeries
    <3>. QED
      BY <3>1, <3>2
  <2>5. carried' \in BOOLEAN
    BY <2>1
  <2>6. Strategy(screen'.legs)
    BY <2>2, <2>3
  <2>. QED
    BY <2>1, <2>2, <2>3, <2>4, <2>5, <2>6 DEF IInv, NotQuotedOnlyAfterMoving
<1>11. CASE Analyse
  <2>1. /\ Gesture /\ screen' = screen /\ page' = verdict(screen') /\ going' = None /\ calls' = {}
        /\ carried' = carried
    BY <1>0, <1>11, OwnAddress DEF Analyse, IInv
  <2>2. page' \in {"chain", "chart"} \cup Headings
    BY <2>1 DEF verdict, Headings
  <2>3. screen = strategyHref(view, legs)
    BY DEF IInv
  <2>4. page' = "notQuoted" => \E i \in DOMAIN legs : \/ legs[i].at.day # view.date
                                                      \/ legs[i].at.clock > view.moment.clock
    BY <1>0, <2>1, <2>3, VerdictMoved
  <2>5. NotQuotedOnlyAfterMoving'
    BY <2>1, <2>4 DEF NotQuotedOnlyAfterMoving
  <2>. QED
    BY <1>g, <2>1, <2>2, <2>5 DEF IInv, strategyHref, OneDay, Served, Strategy, OnItsChain, OfSeries
<1>12. CASE Back
  <2>. DEFINE kept == IF page = "chart" THEN legs ELSE <<>>
  <2>1. /\ screen' = Rendered(strategyHref(view, kept)) /\ page' = "chain" /\ page # "chain"
        /\ carried' = (carried /\ page = "chart")
        /\ UNCHANGED <<going, calls, gestures>>
    BY <1>12 DEF Back
  <2>2. screen' = strategyHref(view, kept) /\ screen'.view = view /\ screen'.legs = kept
    BY <1>0, <2>1, OwnAddress DEF strategyHref
  <2>3. Strategy(kept) /\ (~carried' => OfSeries(kept, view.expiry))
    <3>1. Strategy(<<>>) /\ OfSeries(<<>>, view.expiry)
      BY DEF Strategy, OfSeries
    <3>. QED
      BY <1>0, <2>1, <3>1
  <2>4. going' = None /\ calls' = {} /\ carried' \in BOOLEAN
    BY <2>1 DEF IInv
  <2>. HIDE DEF kept
  <2>. QED
    BY <1>0, <2>1, <2>2, <2>3, <2>4 DEF IInv, NotQuotedOnlyAfterMoving
<1>13. CASE UNCHANGED vars
  BY <1>13 DEF vars, IInv, strategyHref, OneDay, Served, Strategy, OnItsChain, OfSeries,
               NotQuotedOnlyAfterMoving
<1>. QED
  BY <1>1, <1>2, <1>3, <1>4, <1>5, <1>6, <1>7, <1>8, <1>9, <1>10, <1>11, <1>12, <1>13 DEF Next

\* The strengthened invariant holds of every reachable state.
THEOREM Invariance == Spec => []IInv
BY InitEstablishes, StepKeeps, PTL DEF Spec

\* Whatever a link named and whatever was picked, the page is rendered from a
\* pair the store holds at a minute of it (catalog.py, resolve; strategy-url.ts).
THEOREM AlwaysServed == Spec => []ScreenIsServed
<1>1. IInv => ScreenIsServed
  BY DEF IInv, ScreenIsServed, Served, OneDay, View, Pairs, require, expiries, Nothing, Unreadable
<1>. QED
  BY <1>1, Invariance, PTL

\* No address the page asks for names two days (ChainScreen.tsx, goDate).
THEOREM AlwaysOneDay == Spec => []OneDayPerAddress
<1>1. IInv => OneDayPerAddress
  BY DEF IInv, OneDayPerAddress, OneDay
<1>. QED
  BY <1>1, Invariance, PTL

\* A screen's own link reopens it (strategy-url.ts, strategyHref and pickView).
THEOREM LinkAlwaysReopens == Spec => []LinkReopens
<1>1. IInv => LinkReopens
  <2>. SUFFICES ASSUME IInv
                PROVE  LinkReopens
    OBVIOUS
  <2>1. pickView(screen.view) = screen.view
    BY ServedIsFixed DEF IInv
  <2>2. Rendered(strategyHref(screen.view, screen.legs)) = strategyHref(screen.view, screen.legs)
    BY <2>1 DEF Rendered, strategyHref
  <2>. QED
    BY <2>2 DEF IInv, LinkReopens
<1>. QED
  BY <1>1, Invariance, PTL

\* The screen, what is on its way to it and what was asked stay of their types.
THEOREM TypeCorrect == Spec => []TypeOK
<1>1. IInv => TypeOK
  BY DEF IInv, TypeOK, Strategy, Served, OneDay, strategyHref, Address
<1>. QED
  BY <1>1, Invariance, PTL

\* Neither a dropdown, a date nor a late Preset relabels or mixes the Legs on
\* screen (ChainScreen.tsx, goExpiry, goDate and applyPreset).
THEOREM AlwaysOfTheSeries == Spec => []LegsOfTheSeries
<1>1. IInv => LegsOfTheSeries
  BY DEF IInv, LegsOfTheSeries, OfSeries, Strategy
<1>. QED
  BY <1>1, Invariance, PTL

\* A Leg is called not quoted only where it was moved, or written by hand
\* (app/analyse/page.tsx).
THEOREM NotQuotedAlwaysMoved == Spec => []NotQuotedOnlyAfterMoving
<1>1. IInv => NotQuotedOnlyAfterMoving
  BY DEF IInv
<1>. QED
  BY <1>1, Invariance, PTL
==============================================================================
