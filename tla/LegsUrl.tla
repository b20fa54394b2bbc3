------------------------------- MODULE LegsUrl -------------------------------
(***************************************************************************)
(* The Strategy as the address bar holds it (web/lib/legs-url.ts).         *)
(*                                                                         *)
(* A Leg's numbers are what the two number boxes can put there: a quantity *)
(* in tenths, an Entry Premium in ticks, or no premium.  A fragment of the *)
(* link spells the same numbers, and the grammar reads a quantity without  *)
(* a point and a premium without a sign.  All of a link is read or none.   *)
(***************************************************************************)
EXTENDS Integers, Sequences, FiniteSets

CONSTANTS
  Strikes,     \* the strikes of the Chain
  Amounts      \* the numbers that occur: quantities in tenths, premiums in ticks

ASSUME StrikesAssumption == Strikes \subseteq Nat
ASSUME AmountsAssumption == Amounts \subseteq Int

Sides == {"CE", "PE"}
Directions == {"B", "S"}
One == 10

\* An optional number is a set of at most one.
Absent == {}
Premium == {Absent} \cup {{amount} : amount \in Amounts}

Leg == [strike : Strikes, side : Sides, direction : Directions,
        quantity : Amounts \cup {One}, premium : Premium]

encodeLegs(legs) ==
  [i \in DOMAIN legs |->
     [contract |-> <<legs[i].strike, legs[i].side>>, side |-> legs[i].direction,
      quantity |-> legs[i].quantity, at |-> legs[i].premium]]

\* The pattern LEG, and the quantity of at least one.
readable(fragment) ==
  /\ fragment.quantity % One = 0 /\ fragment.quantity >= One
  /\ \A premium \in fragment.at : premium >= 0

legOf(fragment) ==
  [strike |-> fragment.contract[1], side |-> fragment.contract[2],
   direction |-> fragment.side, quantity |-> fragment.quantity, premium |-> fragment.at]

\* The bug of skipping the fragments that do not parse.
decodeLegs_skipping(link) ==
  LET read == SelectSeq(link, readable)
  IN  {[i \in DOMAIN read |-> legOf(read[i])]}

\* The Strategy a link says, or nothing: an unreadable fragment throws.
decodeLegs(link) ==
  IF \A i \in DOMAIN link : readable(link[i]) THEN {[i \in DOMAIN link |-> legOf(link[i])]} ELSE {}
==============================================================================
