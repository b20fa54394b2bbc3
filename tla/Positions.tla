------------------------------ MODULE Positions ------------------------------
(***************************************************************************)
(* The Strategy as the Chain's buttons see it (web/lib/positions.ts): a    *)
(* sequence of Legs, each a contract (a strike and a side of the Chain) in *)
(* a series, bought or sold.  Quantity and Entry Premium decide nothing    *)
(* here.  `at` is history: the moment of the Chain the Leg was picked off. *)
(***************************************************************************)
EXTENDS StrategyUrl, Sequences, SequencesExt

CONSTANTS
  Contracts    \* the strikes and sides of the Chain

Directions == {"B", "S"}

Leg == [contract : Contracts, expiry : Series \cup {Unreadable}, direction : Directions, at : Moment]

matches(leg, contract, direction, expiry) ==
  /\ leg.contract = contract
  /\ leg.direction = direction
  /\ leg.expiry = expiry

\* Where the contract, traded this way, is held.
held(legs, contract, direction, expiry) ==
  {i \in DOMAIN legs : matches(legs[i], contract, direction, expiry)}

heldAt(legs, contract, direction, expiry) ==
  held(legs, contract, direction, expiry) # {}

\* The Strategy with one matching Leg removed.
dropFirst(legs, contract, direction, expiry) ==
  RemoveAt(legs, Min(held(legs, contract, direction, expiry)))
==============================================================================
