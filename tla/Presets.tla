------------------------------- MODULE Presets -------------------------------
(***************************************************************************)
(* The five Presets (src/payoff/presets.py): lists of Legs, which go       *)
(* through the engine as Legs picked by hand do.                           *)
(*                                                                         *)
(* The prices a Preset is entered at are free of arbitrage: a call is      *)
(* worth less the higher its strike, by no more than the strikes are apart *)
(* and by ever less, and a put its call and the distance to the Forward    *)
(* (put-call parity at a Discount Factor of one).                          *)
(***************************************************************************)
EXTENDS StrategyLine

CONSTANTS
  Centre, DEFAULT_WIDTH,  \* the strike a Preset is built about, and its width
  Picked,                 \* the Legs a trader picks by hand
  MaxPicked               \* bound: how many of them

ASSUME PresetAssumption ==
  /\ \A k \in -2..2 : Centre + k * DEFAULT_WIDTH \in Strikes
  /\ DEFAULT_WIDTH \in Nat \ {0} /\ Centre \in Nat /\ Forward \in Strikes
  /\ 1 \in Quantities
ASSUME PickedAssumption == Picked \subseteq Leg /\ MaxPicked \in Nat

VARIABLES
  preset,   \* the name of the Preset being built, or "none"
  pending,  \* its Legs that are still to be summed
  calls     \* the price of the call of each strike, once a Preset is picked

presetVars == <<vars, preset, pending, calls>>

PRESETS == {"straddle", "strangle", "iron_condor", "credit_spread", "iron_fly"}

------------------------------------------------------------------------------
leg(strike, option_type, direction) ==
  [strike |-> strike, option_type |-> option_type, direction |-> direction]

straddle(centre, width, direction) ==
  <<leg(centre, "CE", direction), leg(centre, "PE", direction)>>

\* The bug of both Legs on the far side of the money.
strangle_crossed(centre, width, direction) ==
  <<leg(centre - width, "CE", direction), leg(centre + width, "PE", direction)>>

strangle(centre, width, direction) ==
  <<leg(centre + width, "CE", direction), leg(centre - width, "PE", direction)>>

credit_spread(centre, width, direction) ==
  <<leg(centre, "PE", -1), leg(centre - width, "PE", 1)>>

\* The bug of signs that follow the trader's direction.
iron_condor_directed(centre, width, direction) ==
  <<leg(centre - width, "PE", -direction), leg(centre - 2 * width, "PE", 1),
    leg(centre + width, "CE", -direction), leg(centre + 2 * width, "CE", 1)>>

iron_condor(centre, width, direction) ==
  <<leg(centre - width, "PE", -1), leg(centre - 2 * width, "PE", 1),
    leg(centre + width, "CE", -1), leg(centre + 2 * width, "CE", 1)>>

iron_fly(centre, width, direction) ==
  <<leg(centre, "CE", -1), leg(centre, "PE", -1),
    leg(centre + width, "CE", 1), leg(centre - width, "PE", 1)>>

BUILDERS(centre, width, direction) ==
  [straddle |-> straddle(centre, width, direction),
   strangle |-> strangle(centre, width, direction),
   iron_condor |-> iron_condor(centre, width, direction),
   credit_spread |-> credit_spread(centre, width, direction),
   iron_fly |-> iron_fly(centre, width, direction)]

build(name, centre, width, direction) == BUILDERS(centre, width, direction)[name]

------------------------------------------------------------------------------
(* What they are entered at. *)

last(strike, option_type, prices) ==
  IF option_type = "CE" THEN prices[strike] ELSE prices[strike] + strike - Forward

entered(request, prices) ==
  [strike |-> request.strike, option_type |-> request.option_type,
   direction |-> request.direction, quantity |-> 1,
   entry_premium |-> last(request.strike, request.option_type, prices)]

NoArbitrage ==
  {prices \in [Strikes -> Premiums] :
     /\ \A strike \in Strikes :
          last(strike, "PE", prices) >= 0 /\ last(strike, "PE", prices) \in Premiums
     /\ \A low, high \in Strikes :
          low < high => /\ prices[high] <= prices[low]
                        /\ prices[low] - prices[high] <= high - low
     /\ \A low, middle, high \in Strikes :
          low < middle /\ middle < high =>
            (prices[middle] - prices[high]) * (middle - low)
              <= (prices[low] - prices[middle]) * (high - middle)}

------------------------------------------------------------------------------
PresetInit == Init /\ preset = "none" /\ pending = <<>> /\ calls = <<>>

PickPreset ==
  /\ preset = "none" /\ legs = <<>>
  /\ \E name \in PRESETS, direction \in {1, -1}, prices \in NoArbitrage :
       LET built == build(name, Centre, DEFAULT_WIDTH, direction)
       IN  /\ preset' = name
           /\ calls' = prices
           /\ pending' = [i \in DOMAIN built |-> entered(built[i], prices)]
  /\ UNCHANGED vars

SumPreset ==
  /\ pending # <<>>
  /\ Sum(Head(pending))
  /\ pending' = Tail(pending)
  /\ UNCHANGED <<preset, calls>>

PickLeg ==
  /\ preset = "none" /\ Len(legs) < MaxPicked
  /\ \E picked \in Picked : Sum(picked)
  /\ UNCHANGED <<preset, pending, calls>>

PresetNext == PickPreset \/ SumPreset \/ PickLeg

PresetSpec == PresetInit /\ [][PresetNext]_presetVars

------------------------------------------------------------------------------
Built(name) == preset = name /\ pending = <<>>

\* What the prices make of a Preset's Legs, and of any list of Legs: what is
\* received for them.
CreditOf(requests) ==
  LET paid[n \in 0..Len(requests)] ==
        IF n = 0 THEN 0
        ELSE paid[n - 1] + requests[n].direction * entered(requests[n], calls).entry_premium
  IN  -paid[Len(requests)]

\* The bought wings turn an Unbounded loss into a known one (presets.py:79):
\* whichever way the trader asked to hold it, what a condor, a fly or a credit
\* spread can lose is capped, at the width of one wing less what it collected,
\* and what it can gain is what it collected.
WingsCapTheLoss ==
  (\E name \in {"iron_condor", "iron_fly", "credit_spread"} : Built(name)) =>
    /\ max_profit = {-net_premium}
    /\ max_loss = {-net_premium - DEFAULT_WIDTH}

\* What each Preset is for, whichever way it is held and whatever the prices.
\* A strangle's Breakevens sit outside its two strikes, because between them
\* both Legs expire worthless (presets.py:52), and a straddle's lie about its
\* strike, where they cost anything.  A credit spread "crosses zero exactly
\* once" (presets.py:66), between its strikes, where it is paid up front and
\* less than its width.  The fly collects no less than the condor at the same
\* width and keeps it over a narrower range (presets.py:95).
PresetsKeepTheirShape ==
  /\ (Built("strangle") \/ Built("straddle")) /\ net_premium # 0 =>
       \A breakeven \in breakevens :
         \/ \A strike \in strikesOf : breakeven[1] < strike * breakeven[2]
         \/ \A strike \in strikesOf : breakeven[1] > strike * breakeven[2]
  /\ Built("credit_spread") /\ -net_premium \in 1..(DEFAULT_WIDTH - 1) =>
       \E only \in breakevens :
         /\ breakevens = {only}
         /\ (Centre - DEFAULT_WIDTH) * only[2] < only[1] /\ only[1] < Centre * only[2]
  /\ Built("iron_fly") =>
       /\ -net_premium >= CreditOf(iron_condor(Centre, DEFAULT_WIDTH, 1))
       /\ \A forward \in Forwards :
            total[forward] > -DEFAULT_WIDTH - net_premium =>
              Centre - DEFAULT_WIDTH < forward /\ forward < Centre + DEFAULT_WIDTH
==============================================================================
