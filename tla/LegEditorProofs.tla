--------------------------- MODULE LegEditorProofs ---------------------------
(***************************************************************************)
(* Theorems about LegEditor, for every Chain, every Strategy and any       *)
(* sequence of edits and reloads: what the controls reach the engine can   *)
(* price, no Entry Premium follows a Leg to another contract, and an       *)
(* address is read whole or not at all.                                    *)
(***************************************************************************)
EXTENDS LegEditor, SequenceTheorems, WellFoundedInduction, TLAPS

------------------------------------------------------------------------------
(* Facts about sets and sequences. *)

\* A set of naturals with a member has a least one.
LEMMA LeastMember ==
  ASSUME NEW S \in SUBSET Nat, S # {}
  PROVE  \E x \in S : \A y \in S : x <= y
<1>. DEFINE LessThan == {pair \in Nat \X Nat : pair[1] < pair[2]}
<1>1. PICK x \in S : \A y \in S : <<y, x>> \notin LessThan
  <2>1. IsWellFoundedOn(LessThan, Nat)
    BY NatLessThanWellFounded DEF OpToRel
  <2>. HIDE DEF LessThan
  <2>. QED
    BY <2>1, WFMin
<1>2. ASSUME NEW y \in S
      PROVE  x <= y
  <2>1. <<y, x>> \notin LessThan /\ y \in Nat /\ x \in Nat
    BY <1>1
  <2>. QED
    BY <2>1
<1>. QED
  BY <1>2

\* A least member is a member.
LEMMA MinIsMember ==
  ASSUME NEW S \in SUBSET Nat, S # {}
  PROVE  Min(S) \in S
BY LeastMember DEF Min

\* A sequence is left with the elements it had, in their order, when one is
\* taken out.
LEMMA Removed ==
  ASSUME NEW S, NEW s \in Seq(S), NEW at \in 1..Len(s)
  PROVE  /\ RemoveAt(s, at) \in Seq(S)
         /\ Len(RemoveAt(s, at)) = Len(s) - 1
         /\ \A i \in 1..(Len(s) - 1) : RemoveAt(s, at)[i] = s[IF i < at THEN i ELSE i + 1]
<1>. DEFINE before == SubSeq(s, 1, at - 1)
            after == SubSeq(s, at + 1, Len(s))
<1>1. /\ before \in Seq(S) /\ Len(before) = at - 1
      /\ \A i \in 1..(at - 1) : before[i] = s[i]
      /\ after \in Seq(S) /\ Len(after) = Len(s) - at
      /\ \A i \in 1..(Len(s) - at) : after[i] = s[at + i]
  <2>1. \A i \in 1..(at - 1) : s[i] \in S
    OBVIOUS
  <2>2. \A i \in (at + 1)..Len(s) : s[i] \in S
    OBVIOUS
  <2>. QED
    BY <2>1, <2>2, SubSeqProperties
<1>2. RemoveAt(s, at) = before \o after
  BY DEF RemoveAt
<1>. HIDE DEF before, after
<1>3. /\ before \o after \in Seq(S) /\ Len(before \o after) = Len(before) + Len(after)
      /\ \A i \in 1..(Len(before) + Len(after)) :
           (before \o after)[i] = IF i <= Len(before) THEN before[i] ELSE after[i - Len(before)]
  BY <1>1, ConcatProperties
<1>4. ASSUME NEW i \in 1..(Len(s) - 1), ~(i < at)
      PROVE  after[i - (at - 1)] = s[i + 1]
  <2>1. i - (at - 1) \in 1..(Len(s) - at) /\ at + (i - (at - 1)) = i + 1
    BY <1>4
  <2>. QED
    BY <1>1, <2>1
<1>5. Len(before) = at - 1 /\ Len(before) + Len(after) = Len(s) - 1
  BY <1>1
<1>. QED
  BY <1>1, <1>2, <1>3, <1>4, <1>5

------------------------------------------------------------------------------
(* The ladder. *)

\* The rungs are strikes, and strikes are naturals.
LEMMA LadderType ==
  ASSUME NEW side \in Sides
  PROVE  /\ legalStrikes(side) \in SUBSET Nat
         /\ legalStrikes(side) \subseteq Strikes
         /\ \A strike \in legalStrikes(side) : /\ strike \in DOMAIN LastPrice[side]
                                               /\ strike \in Volatile
BY ChainAssumption, StrikesAssumption DEF legalStrikes

\* The rung a strike snaps to is on the ladder.
LEMMA NearestOnLadder ==
  ASSUME NEW ladder \in SUBSET Nat, ladder # {}, NEW strike \in Nat
  PROVE  nearest(ladder, strike) \in ladder
<1>. DEFINE distance(rung) == IF rung < strike THEN strike - rung ELSE rung - strike
            distances == {distance(rung) : rung \in ladder}
            closest == {rung \in ladder : \A other \in ladder : distance(rung) <= distance(other)}
<1>1. distances \in SUBSET Nat /\ distances # {}
  <2>1. \A rung \in ladder : distance(rung) \in Nat
    OBVIOUS
  <2>. HIDE DEF distance
  <2>. QED
    BY <2>1
<1>2. PICK least \in distances : \A other \in distances : least <= other
  <2>. HIDE DEF distances
  <2>. QED
    BY <1>1, LeastMember
<1>3. PICK rung \in ladder : least = distance(rung)
  BY <1>2
<1>4. rung \in closest
  BY <1>2, <1>3
<1>5. closest \in SUBSET Nat /\ closest # {} /\ closest \subseteq ladder
  BY <1>4
<1>6. nearest(ladder, strike) = Min(closest)
  BY DEF nearest
<1>. HIDE DEF closest
<1>. QED
  BY <1>5, <1>6, MinIsMember

\* What the Chain says of a contract is a premium.
LEMMA QuoteType ==
  ASSUME NEW strike, NEW side \in Sides
  PROVE  quoteAt(strike, side) \in Premium
BY ChainAssumption DEF quoteAt, Premium, Absent

\* A move to a rung, or to the other side where that side has rungs, ends on a
\* contract the engine prices, at the Chain's premium for it.
LEMMA MoveIsPriced ==
  ASSUME NEW leg \in Leg, NEW strike \in Strikes, NEW side \in Sides,
         \/ side # leg.side /\ legalStrikes(side) # {}
         \/ strike \in legalStrikes(side)
  PROVE  LET moved == moveLeg(leg, strike, side)
         IN  /\ moved \in Leg
             /\ moved.quantity = leg.quantity
             /\ Priceable(moved)
             /\ moved.premium = quoteAt(moved.strike, moved.side)
<1>. DEFINE snaps == side # leg.side /\ legalStrikes(side) # {}
            at == IF snaps THEN nearest(legalStrikes(side), strike) ELSE strike
<1>1. at \in legalStrikes(side)
  <2>1. strike \in Nat
    BY StrikesAssumption
  <2>. QED
    BY <2>1, LadderType, NearestOnLadder
<1>2. moveLeg(leg, strike, side)
        = [leg EXCEPT !.strike = at, !.side = side, !.premium = quoteAt(at, side)]
  BY DEF moveLeg
<1>. HIDE DEF at
<1>3. /\ at \in Strikes /\ at \in DOMAIN LastPrice[side] /\ at \in Volatile
      /\ quoteAt(at, side) \in Premium
  BY <1>1, LadderType, QuoteType
<1>4. /\ moveLeg(leg, strike, side) \in Leg
      /\ moveLeg(leg, strike, side).quantity = leg.quantity
      /\ moveLeg(leg, strike, side).strike = at
      /\ moveLeg(leg, strike, side).side = side
      /\ moveLeg(leg, strike, side).premium = quoteAt(at, side)
  BY <1>2, <1>3 DEF Leg
<1>. QED
  BY <1>3, <1>4 DEF Priceable

------------------------------------------------------------------------------
(* The address. *)

\* A Leg spelled and read back is the Leg.
LEMMA FragmentReadsBack ==
  ASSUME NEW strategy \in Seq(Leg)
  PROVE  decodeLegs(encodeLegs(strategy)) \subseteq {strategy}
<1>. DEFINE fragments == encodeLegs(strategy)
<1>1. DOMAIN fragments = DOMAIN strategy
  BY DEF encodeLegs
<1>2. ASSUME NEW i \in DOMAIN strategy
      PROVE  legOf(fragments[i]) = strategy[i]
  <2>1. strategy[i] \in Leg
    OBVIOUS
  <2>2. /\ fragments[i].contract[1] = strategy[i].strike /\ fragments[i].contract[2] = strategy[i].side
        /\ fragments[i].side = strategy[i].direction /\ fragments[i].quantity = strategy[i].quantity
        /\ fragments[i].at = strategy[i].premium
    BY <1>1 DEF encodeLegs
  <2>. QED
    BY <2>1, <2>2 DEF legOf, Leg
<1>3. [i \in DOMAIN fragments |-> legOf(fragments[i])] = strategy
  BY <1>1, <1>2
<1>. QED
  BY <1>3 DEF decodeLegs

------------------------------------------------------------------------------
(* The invariant: of every Leg, beside its contract's premium, that it is one *)
(* of the Chain's; and of the address, that it is the Strategy's.             *)

Sound(leg, byHand) ==
  /\ leg \in Leg
  /\ leg.quantity >= One
  /\ Priceable(leg)
  /\ byHand \/ leg.premium = quoteAt(leg.strike, leg.side)

IInv ==
  /\ legs \in Seq(Leg)
  /\ typed \in Seq(BOOLEAN)
  /\ Len(typed) = Len(legs)
  /\ \A i \in 1..Len(legs) : Sound(legs[i], typed[i])
  /\ link = encodeLegs(legs)
  /\ problem \in BOOLEAN

LEMMA InitIInv == Init => IInv
<1>. SUFFICES ASSUME Init
              PROVE  IInv
  OBVIOUS
<1>1. PICK leg \in Leg :
        /\ Priceable(leg) /\ readable(encodeLegs(<<leg>>)[1])
        /\ legs = <<leg>>
        /\ typed = <<leg.premium # quoteAt(leg.strike, leg.side)>>
  BY DEF Init
<1>2. leg.quantity >= One
  BY <1>1 DEF readable, encodeLegs
<1>3. /\ legs \in Seq(Leg) /\ Len(legs) = 1 /\ legs[1] = leg
      /\ typed \in Seq(BOOLEAN) /\ Len(typed) = 1
      /\ typed[1] = (leg.premium # quoteAt(leg.strike, leg.side))
  BY <1>1
<1>4. Sound(legs[1], typed[1])
  BY <1>1, <1>2, <1>3 DEF Sound
<1>5. \A i \in 1..Len(legs) : Sound(legs[i], typed[i])
  BY <1>3, <1>4
<1>6. link = encodeLegs(legs) /\ problem \in BOOLEAN
  BY DEF Init
<1>. QED
  BY <1>3, <1>5, <1>6 DEF IInv

\* A control that leaves its Leg sound keeps the invariant.
LEMMA SetKeeps ==
  ASSUME IInv, NEW at \in DOMAIN legs, NEW leg, NEW byHand \in BOOLEAN,
         Sound(leg, byHand), Set(at, leg, byHand)
  PROVE  IInv'
<1>1. /\ legs' = [legs EXCEPT ![at] = leg]
      /\ typed' = [typed EXCEPT ![at] = byHand]
      /\ link' = encodeLegs(legs)'
      /\ problem' = problem
  BY DEF Set, Show, encodeLegs
<1>2. leg \in Leg /\ at \in 1..Len(legs) /\ at \in 1..Len(typed)
  BY DEF IInv, Sound
<1>3. /\ legs' \in Seq(Leg) /\ Len(legs') = Len(legs)
      /\ typed' \in Seq(BOOLEAN) /\ Len(typed') = Len(typed)
  BY <1>1, <1>2 DEF IInv
<1>4. \A i \in 1..Len(legs') : Sound(legs'[i], typed'[i])
  BY <1>1, <1>2, <1>3 DEF IInv
<1>. QED
  BY <1>1, <1>3, <1>4 DEF IInv, Sound, Priceable, quoteAt

LEMMA DropKeeps ==
  ASSUME IInv, NEW at \in DOMAIN legs, Drop(at)
  PROVE  IInv'
<1>1. /\ legs' = RemoveAt(legs, at) /\ typed' = RemoveAt(typed, at)
      /\ link' = encodeLegs(legs)' /\ problem' = problem
  BY DEF Drop, Show, encodeLegs
<1>2. /\ legs \in Seq(Leg) /\ typed \in Seq(BOOLEAN) /\ Len(typed) = Len(legs)
      /\ at \in 1..Len(legs) /\ Len(legs) \in Nat
  BY DEF IInv
<1>3. /\ legs' \in Seq(Leg) /\ Len(legs') = Len(legs) - 1
      /\ \A i \in 1..(Len(legs) - 1) : legs'[i] = legs[IF i < at THEN i ELSE i + 1]
  BY <1>1, <1>2, Removed
<1>4. /\ typed' \in Seq(BOOLEAN) /\ Len(typed') = Len(legs) - 1
      /\ \A i \in 1..(Len(legs) - 1) : typed'[i] = typed[IF i < at THEN i ELSE i + 1]
  <2>1. typed \in Seq(BOOLEAN) /\ at \in 1..Len(typed)
    BY <1>2
  <2>2. /\ RemoveAt(typed, at) \in Seq(BOOLEAN)
        /\ Len(RemoveAt(typed, at)) = Len(typed) - 1
        /\ \A i \in 1..(Len(typed) - 1) :
             RemoveAt(typed, at)[i] = typed[IF i < at THEN i ELSE i + 1]
    BY <2>1, Removed
  <2>. QED
    BY <1>1, <1>2, <2>2
<1>5. ASSUME NEW i \in 1..Len(legs')
      PROVE  Sound(legs'[i], typed'[i])
  <2>. DEFINE from == IF i < at THEN i ELSE i + 1
  <2>1. from \in 1..Len(legs) /\ legs'[i] = legs[from] /\ typed'[i] = typed[from]
    BY <1>2, <1>3, <1>4
  <2>. HIDE DEF from
  <2>. QED
    BY <2>1 DEF IInv
<1>. QED
  BY <1>1, <1>2, <1>3, <1>4, <1>5 DEF IInv, Sound, Priceable, quoteAt

LEMMA AddKeeps ==
  ASSUME IInv, addLeg
  PROVE  IInv'
<1>. DEFINE strike == nearest(legalStrikes("CE"), Forward)
            leg == [strike |-> strike, side |-> "CE", direction |-> "B",
                    quantity |-> One, premium |-> quoteAt(strike, "CE")]
<1>1. /\ legs' = Append(legs, leg) /\ typed' = Append(typed, FALSE)
      /\ link' = encodeLegs(legs)' /\ problem' = problem
      /\ legalStrikes("CE") # {}
  BY DEF addLeg, Show, encodeLegs
<1>2. strike \in legalStrikes("CE") /\ "CE" \in Sides
  BY <1>1, LadderType, NearestOnLadder, ChainAssumption DEF Sides
<1>3. /\ strike \in Strikes /\ strike \in DOMAIN LastPrice["CE"] /\ strike \in Volatile
      /\ quoteAt(strike, "CE") \in Premium
  BY <1>2, LadderType, QuoteType
<1>. HIDE DEF strike
<1>4. Sound(leg, FALSE)
  BY <1>2, <1>3 DEF Sound, Leg, Directions, Priceable, One
<1>. HIDE DEF leg
<1>5. /\ legs \in Seq(Leg) /\ typed \in Seq(BOOLEAN) /\ Len(typed) = Len(legs)
      /\ leg \in Leg
  BY <1>4 DEF IInv, Sound
<1>6. /\ legs' \in Seq(Leg) /\ Len(legs') = Len(legs) + 1
      /\ typed' \in Seq(BOOLEAN) /\ Len(typed') = Len(legs) + 1
      /\ \A i \in 1..Len(legs) : legs'[i] = legs[i] /\ typed'[i] = typed[i]
      /\ legs'[Len(legs) + 1] = leg /\ typed'[Len(legs) + 1] = FALSE
  <2>1. /\ legs' \in Seq(Leg) /\ Len(legs') = Len(legs) + 1
        /\ \A i \in 1..Len(legs) : legs'[i] = legs[i]
        /\ legs'[Len(legs) + 1] = leg
    BY <1>1, <1>5, AppendProperties
  <2>2. /\ typed' \in Seq(BOOLEAN) /\ Len(typed') = Len(typed) + 1
        /\ \A i \in 1..Len(typed) : typed'[i] = typed[i]
        /\ typed'[Len(typed) + 1] = FALSE
    <3>1. PICK no \in BOOLEAN : no = FALSE
      OBVIOUS
    <3>2. typed' = Append(typed, no)
      BY <1>1, <3>1
    <3>3. typed \in Seq(BOOLEAN)
      BY <1>5
    <3>4. /\ Append(typed, no) \in Seq(BOOLEAN)
          /\ Len(Append(typed, no)) = Len(typed) + 1
          /\ \A i \in 1..Len(typed) : Append(typed, no)[i] = typed[i]
          /\ Append(typed, no)[Len(typed) + 1] = no
      BY <3>3, AppendProperties
    <3>. QED
      BY <3>1, <3>2, <3>4, Zenon
  <2>. QED
    BY <1>5, <2>1, <2>2
<1>7. ASSUME NEW i \in 1..Len(legs')
      PROVE  Sound(legs'[i], typed'[i])
  <2>1. CASE i \in 1..Len(legs)
    BY <1>6, <2>1 DEF IInv
  <2>2. CASE i = Len(legs) + 1
    BY <1>4, <1>6, <2>2
  <2>. QED
    BY <1>5, <1>6, <2>1, <2>2
<1>. QED
  BY <1>1, <1>5, <1>6, <1>7 DEF IInv, Sound, Priceable, quoteAt

\* Reading the address back changes nothing, or shows the page that says so.
LEMMA ReloadKeeps ==
  ASSUME IInv, Reload
  PROVE  IInv'
<1>1. decodeLegs(link) \subseteq {legs}
  BY FragmentReadsBack DEF IInv
<1>2. UNCHANGED <<legs, typed, link>> /\ problem' \in BOOLEAN
  BY <1>1 DEF Reload
<1>. QED
  BY <1>2 DEF IInv, Sound, Priceable, quoteAt, encodeLegs

LEMMA NextIInv == IInv /\ [Next]_vars => IInv'
<1>. SUFFICES ASSUME IInv, [Next]_vars
              PROVE  IInv'
  OBVIOUS
<1>1. ASSUME NEW at \in DOMAIN legs
      PROVE  /\ Sound(legs[at], typed[at]) /\ typed[at] \in BOOLEAN
             /\ legs[at] \in Leg /\ legs[at].side \in Sides /\ legs[at].strike \in Strikes
  BY DEF IInv, Sound, Leg
<1>2. ASSUME NEW at \in DOMAIN legs, FlipDirection(at)
      PROVE  IInv'
  <2>. DEFINE leg == [legs[at] EXCEPT !.direction = IF @ = "B" THEN "S" ELSE "B"]
  <2>1. Sound(leg, typed[at])
    BY <1>1 DEF Sound, Leg, Directions, Priceable
  <2>2. Set(at, leg, typed[at])
    BY <1>2 DEF FlipDirection
  <2>. HIDE DEF leg
  <2>. QED
    BY <1>1, <2>1, <2>2, SetKeeps
<1>3. ASSUME NEW at \in DOMAIN legs, NEW side \in Sides, ChangeSide(at, side)
      PROVE  IInv'
  <2>. DEFINE leg == moveLeg(legs[at], legs[at].strike, side)
  <2>1. Sound(leg, FALSE)
    BY <1>1, <1>3, MoveIsPriced DEF ChangeSide, Sound
  <2>2. Set(at, leg, FALSE)
    BY <1>3 DEF ChangeSide
  <2>. HIDE DEF leg
  <2>. QED
    BY <2>1, <2>2, SetKeeps
<1>4. ASSUME NEW at \in DOMAIN legs, NEW strike \in Strikes, Slide(at, strike)
      PROVE  IInv'
  <2>. DEFINE leg == moveLeg(legs[at], strike, legs[at].side)
  <2>1. Sound(leg, FALSE)
    BY <1>1, <1>4, MoveIsPriced DEF Slide, Sound
  <2>2. Set(at, leg, FALSE)
    BY <1>4 DEF Slide
  <2>. HIDE DEF leg
  <2>. QED
    BY <2>1, <2>2, SetKeeps
<1>5. ASSUME NEW at \in DOMAIN legs, NEW number \in Amounts, TypeQuantity(at, number)
      PROVE  IInv'
  <2>. DEFINE leg == [legs[at] EXCEPT !.quantity = IF number < One THEN One ELSE number]
  <2>1. number \in Int
    BY AmountsAssumption
  <2>2. Sound(leg, typed[at])
    BY <1>1, <2>1 DEF Sound, Leg, Priceable, One
  <2>3. Set(at, leg, typed[at])
    BY <1>5 DEF TypeQuantity
  <2>. HIDE DEF leg
  <2>. QED
    BY <1>1, <2>2, <2>3, SetKeeps
<1>6. ASSUME NEW at \in DOMAIN legs, NEW number \in Amounts, TypePremium(at, number)
      PROVE  IInv'
  <2>. DEFINE leg == [legs[at] EXCEPT !.premium = {number}]
  <2>1. Sound(leg, TRUE)
    BY <1>1 DEF Sound, Leg, Premium, Priceable
  <2>2. Set(at, leg, TRUE)
    BY <1>6 DEF TypePremium
  <2>. HIDE DEF leg
  <2>. QED
    BY <2>1, <2>2, SetKeeps
<1>7. ASSUME NEW at \in DOMAIN legs, Drop(at)
      PROVE  IInv'
  BY <1>7, DropKeeps
<1>8. CASE addLeg
  BY <1>8, AddKeeps
<1>9. CASE Reload
  BY <1>9, ReloadKeeps
<1>10. CASE UNCHANGED vars
  BY <1>10 DEF vars, IInv, Sound, Priceable, quoteAt, encodeLegs
<1>. QED
  BY <1>2, <1>3, <1>4, <1>5, <1>6, <1>7, <1>8, <1>9, <1>10 DEF Next

LEMMA AlwaysIInv == Spec => []IInv
BY InitIInv, NextIInv, PTL DEF Spec

------------------------------------------------------------------------------
\* The Strategy, its address and what was typed stay of their types, and no
\* quantity falls below one.
THEOREM TypeCorrect == Spec => []TypeOK
<1>1. IInv => TypeOK
  BY DEF IInv, Sound, TypeOK
<1>. QED
  BY <1>1, AlwaysIInv, PTL

\* No sequence of edits takes a Strategy the engine priced to one it refuses
\* (strikes.ts).
THEOREM AlwaysPriceable == Spec => []EveryLegPriceable
<1>1. IInv => EveryLegPriceable
  BY DEF IInv, Sound, EveryLegPriceable
<1>. QED
  BY <1>1, AlwaysIInv, PTL

\* No Entry Premium travels with its Leg to another contract (strikes.ts,
\* moveLeg).
THEOREM PremiumAlwaysOfItsContract == Spec => []PremiumIsOfItsContract
<1>1. IInv => PremiumIsOfItsContract
  BY DEF IInv, Sound, PremiumIsOfItsContract
<1>. QED
  BY <1>1, AlwaysIInv, PTL

\* What the address bar says is the Strategy on screen, or cannot be read
\* (legs-url.ts).
THEOREM AlwaysReadWhole == Spec => []ReadWholeOrNotAtAll
<1>1. IInv => ReadWholeOrNotAtAll
  BY FragmentReadsBack DEF IInv, ReadWholeOrNotAtAll
<1>. QED
  BY <1>1, AlwaysIInv, PTL
==============================================================================
