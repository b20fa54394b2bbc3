------------------------------ MODULE LegEditor ------------------------------
(***************************************************************************)
(* The Strategy under the Analyse screen's controls: LegEditor.tsx, the    *)
(* StrikeSlider and web/lib/strikes.ts over the Chain of one minute, each  *)
(* edit written to the address bar by AnalyseScreen's apply.  Every Leg is *)
(* of the Chain's series.                                                  *)
(***************************************************************************)
EXTENDS LegsUrl, FiniteSetsExt, SequencesExt

CONSTANTS
  LastPrice, \* LastPrice[side]: the strikes quoted on that side, and their last price
  Volatile,  \* the strikes that carry an implied volatility
  Forward,   \* the Forward of the minute
  MaxLegs    \* bound: Legs in a Strategy

ASSUME ChainAssumption ==
  /\ \A side \in Sides : /\ DOMAIN LastPrice[side] \subseteq Strikes
                         /\ \A strike \in DOMAIN LastPrice[side] :
                              LastPrice[side][strike] \in Amounts /\ LastPrice[side][strike] >= 0
  /\ Volatile \subseteq Strikes
  /\ Forward \in Nat

VARIABLES
  legs,      \* the Strategy on screen
  link,      \* the fragments in the address bar
  typed,     \* history: for each Leg, is its Entry Premium one typed for its contract?
  problem    \* does the page say the link cannot be read?

vars == <<legs, link, typed, problem>>

TypeOK ==
  /\ legs \in Seq(Leg)
  /\ \A i \in DOMAIN legs : legs[i].quantity >= One
  /\ link = encodeLegs(legs)
  /\ typed \in Seq(BOOLEAN) /\ Len(typed) = Len(legs)
  /\ problem \in BOOLEAN

------------------------------------------------------------------------------
(* The ladder. *)

quoteAt(strike, side) ==
  IF strike \in DOMAIN LastPrice[side] THEN {LastPrice[side][strike]} ELSE Absent

legalStrikes(side) == Volatile \cap DOMAIN LastPrice[side]

\* The rung nearest a strike, the lower of two.
nearest(ladder, strike) ==
  LET distance(rung) == IF rung < strike THEN strike - rung ELSE rung - strike
  IN  Min({rung \in ladder : \A other \in ladder : distance(rung) <= distance(other)})

\* The bug of keeping the strike across a change of side.
moveLeg_keepsTheStrike(leg, strike, side) ==
  [leg EXCEPT !.strike = strike, !.side = side, !.premium = quoteAt(strike, side)]

\* The bug of carrying the Entry Premium along.
moveLeg_carriesThePremium(leg, strike, side) ==
  LET at == IF side # leg.side THEN nearest(legalStrikes(side), strike) ELSE strike
  IN  [leg EXCEPT !.strike = at, !.side = side]

\* One Leg moved to another strike or side: a change of side snaps the strike,
\* and the premium becomes the Chain's.
moveLeg(leg, strike, side) ==
  LET snaps == side # leg.side /\ legalStrikes(side) # {}
      at == IF snaps THEN nearest(legalStrikes(side), strike) ELSE strike
  IN  [leg EXCEPT !.strike = at, !.side = side, !.premium = quoteAt(at, side)]

\* What resolve_legs answers for: a quoted contract whose strike has a volatility.
Priceable(leg) == leg.strike \in DOMAIN LastPrice[leg.side] /\ leg.strike \in Volatile

------------------------------------------------------------------------------
Show(strategy, byHand) ==
  /\ legs' = strategy
  /\ link' = encodeLegs(strategy)
  /\ typed' = byHand

\* The screen is opened on a link the engine has priced, an Entry Premium of its
\* own or none in it.
Init ==
  /\ \E leg \in Leg :
       /\ Priceable(leg) /\ readable(encodeLegs(<<leg>>)[1])
       /\ legs = <<leg>>
       /\ typed = <<leg.premium # quoteAt(leg.strike, leg.side)>>
  /\ link = encodeLegs(legs)
  /\ problem = FALSE

\* A control of one Leg's card gives it new values.
Set(at, leg, byHand) ==
  /\ ~problem
  /\ Show([legs EXCEPT ![at] = leg], [typed EXCEPT ![at] = byHand])
  /\ UNCHANGED problem

FlipDirection(at) ==
  Set(at, [legs[at] EXCEPT !.direction = IF @ = "B" THEN "S" ELSE "B"], typed[at])

\* A side nothing legal is quoted on is disabled, and the side it has does nothing.
ChangeSide(at, side) ==
  /\ side # legs[at].side
  /\ legalStrikes(side) # {}
  /\ Set(at, moveLeg(legs[at], legs[at].strike, side), FALSE)

\* The slider commits another rung of the ladder.
Slide(at, strike) ==
  /\ strike \in legalStrikes(legs[at].side) \ {legs[at].strike}
  /\ Set(at, moveLeg(legs[at], strike, legs[at].side), FALSE)

\* The quantity box: what is not a number, and zero, count as one.
TypeQuantity(at, number) ==
  Set(at, [legs[at] EXCEPT !.quantity = IF number < One THEN One ELSE number], typed[at])

\* The Entry Premium box: Number() of an emptied box is 0.
TypePremium(at, number) ==
  Set(at, [legs[at] EXCEPT !.premium = {number}], TRUE)

Drop(at) ==
  /\ ~problem
  /\ Show(RemoveAt(legs, at), RemoveAt(typed, at))
  /\ UNCHANGED problem

\* A bought call at the money; the button is disabled when no call is legal.
addLeg ==
  LET strike == nearest(legalStrikes("CE"), Forward)
  IN  /\ ~problem
      /\ legalStrikes("CE") # {}
      /\ Len(legs) < MaxLegs
      /\ Show(Append(legs, [strike |-> strike, side |-> "CE", direction |-> "B",
                            quantity |-> One, premium |-> quoteAt(strike, "CE")]),
              Append(typed, FALSE))
      /\ UNCHANGED problem

\* The address opened again: the Strategy it says, or the page that says it
\* cannot be read.
Reload ==
  /\ ~problem
  /\ problem' = (decodeLegs(link) = {})
  /\ IF problem' THEN UNCHANGED <<legs, typed>>
     ELSE \E strategy \in decodeLegs(link) :
            /\ legs' = strategy
            /\ UNCHANGED typed
  /\ UNCHANGED link

Next ==
  \/ \E at \in DOMAIN legs :
       \/ FlipDirection(at)
       \/ \E side \in Sides : ChangeSide(at, side)
       \/ \E strike \in Strikes : Slide(at, strike)
       \/ \E number \in Amounts : TypeQuantity(at, number) \/ TypePremium(at, number)
       \/ Drop(at)
  \/ addLeg
  \/ Reload

Spec == Init /\ [][Next]_vars

------------------------------------------------------------------------------
\* "The set the slider can reach is the set the engine can price" (strikes.ts):
\* no sequence of edits takes a Strategy the engine priced to one it refuses,
\* the side change of a Leg whose strike the other side does not quote included.
EveryLegPriceable == \A i \in DOMAIN legs : Priceable(legs[i])

\* An Entry Premium never travels with its Leg to another contract: it is the
\* Chain's at that contract, or was typed there (strikes.ts, moveLeg).
PremiumIsOfItsContract ==
  \A i \in DOMAIN legs :
    typed[i] \/ legs[i].premium = quoteAt(legs[i].strike, legs[i].side)

\* A link is read whole or not at all: what the address bar says is the
\* Strategy on screen, or the page says it cannot be read (legs-url.ts).
ReadWholeOrNotAtAll == decodeLegs(link) \subseteq {legs}
==============================================================================
