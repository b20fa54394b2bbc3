-------------------------- MODULE StrategyLineProofs --------------------------
(***************************************************************************)
(* Theorems about StrategyLine and the Presets, for every artifact, every  *)
(* Strategy and every price: the line bends only at strikes, its extrema   *)
(* and its zeros are those the engine reads off the corners, the chart     *)
(* holds its wings, and a Preset is a Strategy that keeps its shape.       *)
(***************************************************************************)
EXTENDS Presets, WellFoundedInduction, TLAPS

------------------------------------------------------------------------------
(* Facts about sets and sequences. *)

\* A set of naturals with a member has a least one.
LEMMA LeastMember ==
  ASSUME NEW S \in SUBSET Nat, S # {}
  PROVE  \E x \in S : \A y \in S : x <= y
<1>. DEFINE LessThan == {pair \in Nat \X Nat : pair[1] < pair[2]}
<1>1. PICK x \in S : \A y \in S : <<y, x>> \notin LessThan
  <2>1. IsWellFoundedOn(LessThan, Nat)
    BY NatLessThanWellFounded DEF OpToRel
  <2>. HIDE DEF LessThan
  <2>. QED
    BY <2>1, WFMin
<1>2. ASSUME NEW y \in S
      PROVE  x <= y
  <2>1. <<y, x>> \notin LessThan /\ y \in Nat /\ x \in Nat
    BY <1>1
  <2>. QED
    BY <2>1
<1>. QED
  BY <1>2

\* A bounded set of naturals with a member has a greatest one.
LEMMA GreatestMember ==
  ASSUME NEW S \in SUBSET Nat, S # {}, NEW n \in Nat, \A x \in S : x <= n
  PROVE  \E x \in S : \A y \in S : y <= x
<1>. DEFINE T == {n - x : x \in S}
<1>1. T \in SUBSET Nat /\ T # {}
  <2>1. \A x \in S : n - x \in Nat
    OBVIOUS
  <2>. QED
    BY <2>1
<1>2. PICK t \in T : \A u \in T : t <= u
  <2>. HIDE DEF T
  <2>. QED
    BY <1>1, LeastMember
<1>3. PICK x \in S : t = n - x
  BY <1>2
<1>4. \A y \in S : n - x <= n - y
  BY <1>2, <1>3
<1>5. ASSUME NEW y \in S
      PROVE  y <= x
  <2>1. x \in Nat /\ y \in Nat /\ n - x <= n - y
    BY <1>4
  <2>. QED
    BY <2>1
<1>. QED
  BY <1>5

\* A stored segment's slope is a whole number: minus one, none or one.
LEMMA SlopeOfASegment ==
  ASSUME NEW width \in Nat \ {0}
  PROVE  width \div width = 1 /\ (-width) \div width = -1 /\ 0 \div width = 0
OBVIOUS

\* The domain has room on both sides of every strike.
LEMMA StrikeRoom ==
  ASSUME NEW strike \in Strikes
  PROVE  /\ strike \in Int /\ 0 < strike /\ strike <= High - 1 /\ strike < High
         /\ strike \in Forwards
<1>1. strike \in Nat /\ High \in Nat
  BY DomainAssumption DEF DomainAssumption
<1>2. Low < strike /\ FAR_TAIL * strike <= High
  BY DomainAssumption DEF DomainAssumption
<1>. QED
  BY <1>1, <1>2, SMT DEF Low, FAR_TAIL, Forwards

\* A Payoff read off its corners is the Payoff: interpolation loses nothing
\* (leg_payoff: "np.interp is exact here rather than approximate").
LEMMA PayoffIsExact ==
  ASSUME NEW taken \in Leg, NEW forward \in Forwards
  PROVE  leg_payoff(forward, taken) = intrinsic_value(forward, taken.strike, taken.option_type)
<1>. DEFINE K == taken.strike
            Worth(corner) == intrinsic_value(corner, K, taken.option_type)
<1>1. /\ K \in Int /\ 0 < K /\ K < High /\ High \in Int
      /\ forward \in Int /\ 0 <= forward /\ forward <= High
  <2>1. K \in Strikes
    BY DEF Leg
  <2>2. forward \in Int /\ 0 <= forward /\ forward <= High /\ High \in Int
    BY DomainAssumption, SMT DEF DomainAssumption, Forwards, Low
  <2>. QED
    BY <2>1, <2>2, StrikeRoom
<1>2. taken.option_type \in {"CE", "PE"}
  BY DEF Leg
<1>3. /\ K \div K = 1 /\ (-K) \div K = -1 /\ 0 \div K = 0
      /\ (High - K) \div (High - K) = 1 /\ 0 \div (High - K) = 0
  <2>1. K \in Nat \ {0} /\ High - K \in Nat \ {0}
    BY <1>1, SMT
  <2>. QED
    BY <2>1, SlopeOfASegment
<1>4. leg_payoff(forward, taken) =
        IF forward <= K
        THEN ((Worth(K) - Worth(0)) \div (K - 0)) * (forward - 0) + Worth(0)
        ELSE ((Worth(High) - Worth(K)) \div (High - K)) * (forward - K) + Worth(K)
  BY DEF leg_payoff, Low
<1>5. CASE taken.option_type = "CE"
  <2>1. /\ Worth(0) = 0 /\ Worth(K) = 0 /\ Worth(High) = High - K
        /\ Worth(forward) = IF forward <= K THEN 0 ELSE forward - K
    BY <1>1, <1>5, SMT DEF intrinsic_value
  <2>2. K - 0 = K /\ 0 - 0 = 0 /\ High - K - 0 = High - K
    BY <1>1, SMT
  <2>. HIDE DEF Worth, K
  <2>3. leg_payoff(forward, taken) =
          IF forward <= K THEN 0 * (forward - 0) + 0 ELSE 1 * (forward - K) + 0
    BY <1>3, <1>4, <2>1, <2>2
  <2>4. leg_payoff(forward, taken) = Worth(forward)
    BY <1>1, <2>1, <2>3, SMT
  <2>. QED
    BY <2>4 DEF Worth, K
<1>6. CASE taken.option_type = "PE"
  <2>1. /\ Worth(0) = K /\ Worth(K) = 0 /\ Worth(High) = 0
        /\ Worth(forward) = IF forward <= K THEN K - forward ELSE 0
    BY <1>1, <1>6, SMT DEF intrinsic_value
  <2>2. K - 0 = K /\ 0 - K = -K /\ 0 - 0 = 0
    BY <1>1, SMT
  <2>. HIDE DEF Worth, K
  <2>3. leg_payoff(forward, taken) =
          IF forward <= K THEN (-1) * (forward - 0) + K ELSE 0 * (forward - K) + 0
    BY <1>3, <1>4, <2>1, <2>2
  <2>4. leg_payoff(forward, taken) = Worth(forward)
    BY <1>1, <2>1, <2>3, SMT
  <2>. QED
    BY <2>4 DEF Worth, K
<1>. QED
  BY <1>2, <1>5, <1>6

\* What the lemmas below need of a Leg.
LEMMA LegType ==
  ASSUME NEW taken \in Leg
  PROVE  /\ taken.strike \in Int
         /\ taken.option_type \in {"CE", "PE"}
         /\ taken.direction * taken.quantity \in Int
         /\ taken.entry_premium \in Int
<1>1. taken.strike \in Strikes /\ taken.direction \in {1, -1} /\ taken.quantity \in Quantities
      /\ taken.option_type \in {"CE", "PE"} /\ taken.entry_premium \in Premiums
  BY DEF Leg
<1>2. taken.strike \in Int /\ taken.direction \in Int /\ taken.quantity \in Int
      /\ taken.entry_premium \in Int
  <2>1. taken.strike \in Nat
    BY <1>1, DomainAssumption DEF DomainAssumption
  <2>2. taken.quantity \in Nat
    BY <1>1, TradesAssumption DEF TradesAssumption
  <2>3. taken.entry_premium \in Int
    BY <1>1, TradesAssumption DEF TradesAssumption
  <2>4. taken.direction \in Int
    BY <1>1, SMT
  <2>. QED
    BY <2>1, <2>2, <2>3, <2>4, SMT
<1>3. taken.direction * taken.quantity \in Int
  BY <1>2, SMT
<1>. QED
  BY <1>1, <1>2, <1>3

LEMMA ForwardsType ==
  ASSUME NEW forward \in Forwards
  PROVE  forward \in Nat /\ forward <= High /\ High \in Nat
BY DomainAssumption, SMT DEF DomainAssumption, Forwards, Low

\* A Payoff is a number.
LEMMA PayoffType ==
  ASSUME NEW taken \in Leg, NEW forward \in Forwards
  PROVE  leg_payoff(forward, taken) \in Int
BY PayoffIsExact, LegType, ForwardsType, SMT DEF intrinsic_value

\* A Payoff bends at its strike and nowhere else.
LEMMA PayoffBendsOnce ==
  ASSUME NEW taken \in Leg, NEW forward \in (Low + 1)..(High - 1), forward # taken.strike
  PROVE  leg_payoff(forward + 1, taken) - leg_payoff(forward, taken)
           = leg_payoff(forward, taken) - leg_payoff(forward - 1, taken)
<1>1. forward \in Forwards /\ forward + 1 \in Forwards /\ forward - 1 \in Forwards
  BY DomainAssumption, SMT DEF DomainAssumption, Forwards, Low
<1>2. forward \in Int /\ taken.strike \in Int
  BY <1>1, ForwardsType, LegType
<1>. DEFINE Worth(at) == intrinsic_value(at, taken.strike, taken.option_type)
<1>3. Worth(forward + 1) - Worth(forward) = Worth(forward) - Worth(forward - 1)
  BY <1>2, SMT DEF intrinsic_value
<1>4. /\ leg_payoff(forward + 1, taken) = Worth(forward + 1)
      /\ leg_payoff(forward, taken) = Worth(forward)
      /\ leg_payoff(forward - 1, taken) = Worth(forward - 1)
  BY <1>1, PayoffIsExact
<1>. QED
  BY <1>3, <1>4

\* Above its strike a call rises one for one and a put is worth nothing.
LEMMA PayoffTail ==
  ASSUME NEW taken \in Leg, NEW forward \in Low..(High - 1), taken.strike <= forward
  PROVE  leg_payoff(forward + 1, taken) - leg_payoff(forward, taken)
           = IF taken.option_type = "CE" THEN 1 ELSE 0
<1>1. forward \in Forwards /\ forward + 1 \in Forwards
  BY DomainAssumption, SMT DEF DomainAssumption, Forwards, Low
<1>2. forward \in Int /\ taken.strike \in Int
  BY <1>1, ForwardsType, LegType
<1>. DEFINE Worth(at) == intrinsic_value(at, taken.strike, taken.option_type)
<1>3. Worth(forward + 1) - Worth(forward) = IF taken.option_type = "CE" THEN 1 ELSE 0
  BY <1>2, SMT DEF intrinsic_value
<1>4. /\ leg_payoff(forward + 1, taken) = Worth(forward + 1)
      /\ leg_payoff(forward, taken) = Worth(forward)
  BY <1>1, PayoffIsExact
<1>. QED
  BY <1>3, <1>4

\* Adding a scaled Payoff less its premium keeps equal steps equal.
LEMMA EqualStepsAdd ==
  ASSUME NEW t1 \in Int, NEW t2 \in Int, NEW t3 \in Int, t1 - t2 = t2 - t3,
         NEW w1 \in Int, NEW w2 \in Int, NEW w3 \in Int, w1 - w2 = w2 - w3,
         NEW s \in Int, NEW m \in Int
  PROVE  (t1 + s * (w1 - m)) - (t2 + s * (w2 - m)) = (t2 + s * (w2 - m)) - (t3 + s * (w3 - m))
<1>1. \A x, y \in Int : s * x - s * y = s * (x - y) /\ s * x \in Int
  BY SMT
<1>2. s * (w1 - m) - s * (w2 - m) = s * (w2 - m) - s * (w3 - m)
  <2>1. (w1 - m) - (w2 - m) = (w2 - m) - (w3 - m) /\ w1 - m \in Int /\ w2 - m \in Int /\ w3 - m \in Int
    BY SMT
  <2>. QED
    BY <1>1, <2>1
<1>3. s * (w1 - m) \in Int /\ s * (w2 - m) \in Int /\ s * (w3 - m) \in Int
  BY <1>1, SMT
<1>. QED
  BY <1>2, <1>3, SMT

\* Adding a scaled Payoff less its premium adds its scaled step to a step.
LEMMA StepAdds ==
  ASSUME NEW t1 \in Int, NEW t2 \in Int, NEW w1 \in Int, NEW w2 \in Int,
         NEW s \in Int, NEW m \in Int
  PROVE  (t1 + s * (w1 - m)) - (t2 + s * (w2 - m)) = (t1 - t2) + s * (w1 - w2)
<1>1. \A x, y \in Int : s * x - s * y = s * (x - y) /\ s * x \in Int
  BY SMT
<1>2. s * (w1 - m) - s * (w2 - m) = s * (w1 - w2)
  <2>1. (w1 - m) - (w2 - m) = w1 - w2 /\ w1 - m \in Int /\ w2 - m \in Int
    BY SMT
  <2>. QED
    BY <1>1, <2>1
<1>3. s * (w1 - m) \in Int /\ s * (w2 - m) \in Int /\ s * (w1 - w2) \in Int
  BY <1>1, SMT
<1>. QED
  BY <1>2, <1>3, SMT

------------------------------------------------------------------------------
LineInv == TypeOK /\ BendsOnlyAtStrikes /\ TailIsTheCallSlope /\ NetPremiumIsTheCost

LEMMA LineInit ==
  ASSUME Init
  PROVE  LineInv
<1>1. TypeOK
  BY SMT DEF Init, TypeOK
<1>2. total = [forward \in Forwards |-> 0] /\ call_slope = 0
  BY DEF Init
<1>3. BendsOnlyAtStrikes
  <2>1. \A forward \in (Low + 1)..(High - 1) :
          forward \in Forwards /\ forward + 1 \in Forwards /\ forward - 1 \in Forwards
    BY DomainAssumption, SMT DEF DomainAssumption, Forwards, Low
  <2>. QED
    BY <1>2, <2>1 DEF BendsOnlyAtStrikes
<1>4. TailIsTheCallSlope
  <2>1. \A forward \in Low..(High - 1) : forward \in Forwards /\ forward + 1 \in Forwards
    BY DomainAssumption, SMT DEF DomainAssumption, Forwards, Low
  <2>2. 0 - 0 = 0
    OBVIOUS
  <2>. QED
    BY <1>2, <2>1, <2>2 DEF TailIsTheCallSlope
<1>5. NetPremiumIsTheCost
  <2>1. net_premium = 0
    BY DEF Init
  <2>2. \A forward \in Forwards : total[forward] = 0
    BY <1>2
  <2>3. -net_premium = 0 - net_premium /\ 0 - net_premium = 0
    <3>1. \A n \in Int : -n = 0 - n
      BY SMT
    <3>2. -net_premium = 0 - net_premium
      BY <1>1, <3>1 DEF TypeOK
    <3>3. 0 - net_premium = 0
      BY <2>1
    <3>. QED
      BY <3>2, <3>3
  <2>. QED
    BY <2>1, <2>2, <2>3 DEF NetPremiumIsTheCost
<1>. QED
  BY <1>1, <1>3, <1>4, <1>5 DEF LineInv

LEMMA SumKeepsLine ==
  ASSUME LineInv, NEW taken \in Leg, Sum(taken)
  PROVE  LineInv'
<1>. DEFINE scale == taken.direction * taken.quantity
            Worth(forward) == leg_payoff(forward, taken)
<1>0. TypeOK
  BY DEF LineInv
<1>1. scale \in Int /\ taken.entry_premium \in Int /\ taken.option_type \in {"CE", "PE"}
  BY LegType
<1>2. /\ legs' = Append(legs, taken)
      /\ total' = [forward \in Forwards |->
                     total[forward] + scale * (Worth(forward) - taken.entry_premium)]
      /\ call_slope' = call_slope + (IF taken.option_type = "CE" THEN scale ELSE 0)
      /\ net_premium' = net_premium + scale * taken.entry_premium
  BY DEF Sum
<1>3. \A forward \in Forwards : Worth(forward) \in Int /\ total[forward] \in Int
  BY <1>0, PayoffType DEF TypeOK
<1>4. strikesOf' = strikesOf \cup {taken.strike}
  <2>1. legs \in Seq(Leg)
    BY <1>0 DEF TypeOK
  <2>2. /\ DOMAIN legs = 1..Len(legs) /\ DOMAIN legs' = 1..(Len(legs) + 1) /\ Len(legs) \in Nat
        /\ \A i \in 1..Len(legs) : legs'[i] = legs[i]
        /\ legs'[Len(legs) + 1] = taken
    BY <1>2, <2>1, SMT
  <2>3. DOMAIN legs' = DOMAIN legs \cup {Len(legs) + 1}
    BY <2>2, SMT
  <2>. QED
    BY <2>2, <2>3 DEF strikesOf
<1>. HIDE DEF scale, Worth
<1>5. TypeOK'
  <2>1. legs' \in Seq(Leg)
    BY <1>0, <1>2, SMT DEF TypeOK
  <2>2. total' \in [Forwards -> Int]
    <3>1. \A forward \in Forwards :
            total[forward] + scale * (Worth(forward) - taken.entry_premium) \in Int
      BY <1>1, <1>3, SMT
    <3>. QED
      BY <1>2, <3>1
  <2>3. call_slope' \in Int /\ net_premium' \in Int
    BY <1>0, <1>1, <1>2, SMT DEF TypeOK
  <2>. QED
    BY <2>1, <2>2, <2>3 DEF TypeOK
<1>6. BendsOnlyAtStrikes'
  <2>1. SUFFICES ASSUME NEW forward \in (Low + 1)..(High - 1), forward \notin strikesOf'
                 PROVE  total'[forward + 1] - total'[forward]
                          = total'[forward] - total'[forward - 1]
    BY DEF BendsOnlyAtStrikes
  <2>2. forward \in Forwards /\ forward + 1 \in Forwards /\ forward - 1 \in Forwards
    BY DomainAssumption, SMT DEF DomainAssumption, Forwards, Low
  <2>3. total[forward + 1] - total[forward] = total[forward] - total[forward - 1]
    BY <1>4, <2>1 DEF LineInv, BendsOnlyAtStrikes
  <2>4. Worth(forward + 1) - Worth(forward) = Worth(forward) - Worth(forward - 1)
    BY <1>4, <2>1, PayoffBendsOnce DEF Worth
  <2>5. /\ total'[forward + 1] = total[forward + 1] + scale * (Worth(forward + 1) - taken.entry_premium)
        /\ total'[forward] = total[forward] + scale * (Worth(forward) - taken.entry_premium)
        /\ total'[forward - 1] = total[forward - 1] + scale * (Worth(forward - 1) - taken.entry_premium)
    BY <1>2, <2>2
  <2>7. /\ total[forward + 1] \in Int /\ total[forward] \in Int /\ total[forward - 1] \in Int
        /\ Worth(forward + 1) \in Int /\ Worth(forward) \in Int /\ Worth(forward - 1) \in Int
    BY <1>3, <2>2
  <2>. DEFINE t1 == total[forward + 1]
              t2 == total[forward]
              t3 == total[forward - 1]
              w1 == Worth(forward + 1)
              w2 == Worth(forward)
              w3 == Worth(forward - 1)
              m == taken.entry_premium
  <2>8. /\ t1 \in Int /\ t2 \in Int /\ t3 \in Int /\ t1 - t2 = t2 - t3
        /\ w1 \in Int /\ w2 \in Int /\ w3 \in Int /\ w1 - w2 = w2 - w3
        /\ m \in Int
    BY <1>1, <2>3, <2>4, <2>7
  <2>9. total'[forward + 1] = t1 + scale * (w1 - m) /\ total'[forward] = t2 + scale * (w2 - m)
        /\ total'[forward - 1] = t3 + scale * (w3 - m)
    BY <2>5
  <2>. HIDE DEF t1, t2, t3, w1, w2, w3, m
  <2>. QED
    BY <1>1, <2>8, <2>9, EqualStepsAdd
<1>7. TailIsTheCallSlope'
  <2>1. SUFFICES ASSUME NEW forward \in Low..(High - 1),
                        \A strike \in strikesOf' : strike <= forward
                 PROVE  total'[forward + 1] - total'[forward] = call_slope'
    BY DEF TailIsTheCallSlope
  <2>2. forward \in Forwards /\ forward + 1 \in Forwards
    BY DomainAssumption, SMT DEF DomainAssumption, Forwards, Low
  <2>3. total[forward + 1] - total[forward] = call_slope
    BY <1>4, <2>1 DEF LineInv, TailIsTheCallSlope
  <2>4. Worth(forward + 1) - Worth(forward) = IF taken.option_type = "CE" THEN 1 ELSE 0
    BY <1>4, <2>1, PayoffTail DEF Worth
  <2>5. /\ total'[forward + 1] = total[forward + 1] + scale * (Worth(forward + 1) - taken.entry_premium)
        /\ total'[forward] = total[forward] + scale * (Worth(forward) - taken.entry_premium)
    BY <1>2, <2>2
  <2>7. /\ total[forward + 1] \in Int /\ total[forward] \in Int /\ call_slope \in Int
        /\ Worth(forward + 1) \in Int /\ Worth(forward) \in Int
    BY <1>0, <1>3, <2>2 DEF TypeOK
  <2>. DEFINE t1 == total[forward + 1]
              t2 == total[forward]
              w1 == Worth(forward + 1)
              w2 == Worth(forward)
              m == taken.entry_premium
  <2>8. /\ t1 \in Int /\ t2 \in Int /\ t1 - t2 = call_slope /\ call_slope \in Int
        /\ w1 \in Int /\ w2 \in Int /\ w1 - w2 = IF taken.option_type = "CE" THEN 1 ELSE 0
        /\ m \in Int
    BY <1>1, <2>3, <2>4, <2>7
  <2>9. total'[forward + 1] = t1 + scale * (w1 - m) /\ total'[forward] = t2 + scale * (w2 - m)
    BY <2>5
  <2>. HIDE DEF t1, t2, w1, w2, m
  <2>10. total'[forward + 1] - total'[forward] = call_slope + scale * (w1 - w2)
    BY <1>1, <2>8, <2>9, StepAdds
  <2>11. scale * 1 = scale /\ scale * 0 = 0 /\ call_slope + 0 = call_slope
    BY <1>1, <2>8, SMT
  <2>. QED
    BY <1>2, <2>8, <2>10, <2>11
<1>8. NetPremiumIsTheCost'
  <2>1. SUFFICES ASSUME \A i \in DOMAIN legs' : legs'[i].option_type = "CE",
                        NEW forward \in Forwards, \A strike \in strikesOf' : forward <= strike
                 PROVE  total'[forward] = -net_premium'
    BY DEF NetPremiumIsTheCost
  <2>2. legs \in Seq(Leg)
    BY <1>0 DEF TypeOK
  <2>3. /\ DOMAIN legs = 1..Len(legs) /\ DOMAIN legs' = 1..(Len(legs) + 1) /\ Len(legs) \in Nat
        /\ \A i \in 1..Len(legs) : legs'[i] = legs[i]
        /\ legs'[Len(legs) + 1] = taken
    BY <1>2, <2>2, SMT
  <2>4. taken.option_type = "CE" /\ \A i \in DOMAIN legs : legs[i].option_type = "CE"
    <3>1. Len(legs) + 1 \in DOMAIN legs' /\ DOMAIN legs \subseteq DOMAIN legs'
      BY <2>3, SMT
    <3>. QED
      BY <2>1, <2>3, <3>1
  <2>5. total[forward] = -net_premium
    BY <1>4, <2>1, <2>4 DEF LineInv, NetPremiumIsTheCost
  <2>6. Worth(forward) = 0
    <3>1. forward <= taken.strike /\ forward \in Int /\ taken.strike \in Int
      BY <1>4, <2>1, LegType, ForwardsType
    <3>2. intrinsic_value(forward, taken.strike, "CE") = 0
      BY <3>1, SMT DEF intrinsic_value
    <3>3. Worth(forward) = intrinsic_value(forward, taken.strike, taken.option_type)
      BY PayoffIsExact DEF Worth
    <3>. QED
      BY <2>4, <3>2, <3>3
  <2>7. total'[forward] = total[forward] + scale * (0 - taken.entry_premium)
    BY <1>2, <2>6
  <2>8. /\ scale * (0 - taken.entry_premium) = -(scale * taken.entry_premium)
        /\ scale * taken.entry_premium \in Int /\ net_premium \in Int
    BY <1>0, <1>1, SMT DEF TypeOK
  <2>. QED
    BY <1>2, <2>5, <2>7, <2>8, SMT
<1>. QED
  BY <1>5, <1>6, <1>7, <1>8 DEF LineInv

LEMMA LineStep ==
  ASSUME LineInv, [Next]_vars
  PROVE  LineInv'
<1>1. CASE Next
  BY <1>1, SumKeepsLine DEF Next
<1>2. CASE UNCHANGED vars
  BY <1>2 DEF vars, LineInv, TypeOK, BendsOnlyAtStrikes, TailIsTheCallSlope,
              NetPremiumIsTheCost, strikesOf
<1>. QED
  BY <1>1, <1>2

\* The line and the sums beside it are whole numbers.
THEOREM TypeCorrect == Spec => []TypeOK
<1>1. Init => LineInv
  BY LineInit
<1>2. LineInv /\ [Next]_vars => LineInv'
  BY LineStep
<1>. QED
  BY <1>1, <1>2, PTL DEF Spec, LineInv

\* However many Legs are summed, of whatever contracts, in whatever order, the
\* line bends at their strikes only, ends as steep as the net quantity of calls
\* and starts at the premium paid.
THEOREM LineIsPiecewise == Spec => []LineFollowsTheLegs
<1>1. Init => LineInv
  BY LineInit
<1>2. LineInv /\ [Next]_vars => LineInv'
  BY LineStep
<1>3. LineInv => LineFollowsTheLegs
  BY DEF LineInv, LineFollowsTheLegs
<1>. QED
  BY <1>1, <1>2, <1>3, PTL DEF Spec

------------------------------------------------------------------------------
\* A line that bends at corners only, both ends of its domain among them, is
\* nowhere above all of them.  Take the first Forward that is, and the first
\* corner right of it: the line comes into the Forward rising, so it still rises
\* on every step to that corner, which is then no lower.
LEMMA CornerNotBelow ==
  ASSUME NEW f \in [Forwards -> Int], NEW C \in SUBSET Forwards, Low \in C, High \in C,
         \A x \in (Low + 1)..(High - 1) : x \notin C => f[x + 1] - f[x] = f[x] - f[x - 1],
         NEW at \in Forwards
  PROVE  \E c \in C : f[at] <= f[c]
<1>. DEFINE Above == {x \in Forwards : \A c \in C : f[c] < f[x]}
<1>1. High \in Nat /\ Low = 0 /\ Forwards = 0..High /\ Forwards \subseteq Nat
  BY DomainAssumption, SMT DEF DomainAssumption, Forwards, Low
<1>2. \A x \in Forwards : f[x] \in Int
  OBVIOUS
<1>3. ASSUME Above # {}
      PROVE  FALSE
  <2>1. PICK x \in Above : \A y \in Above : x <= y
    <3>1. Above \in SUBSET Nat
      BY <1>1
    <3>. HIDE DEF Above
    <3>. QED
      BY <1>3, <3>1, LeastMember
  <2>2. x \in Forwards /\ x \in Nat /\ x <= High /\ \A c \in C : f[c] < f[x]
    BY <1>1, <2>1, SMT
  <2>3. x \notin C
    <3>1. ~(f[x] < f[x])
      BY <1>2, <2>2, SMT
    <3>. QED
      BY <2>2, <3>1
  <2>4. x \in 1..(High - 1) /\ x - 1 \in Forwards
    <3>1. x # 0 /\ x # High
      BY <1>1, <2>3
    <3>. QED
      BY <1>1, <2>2, <3>1, SMT
  <2>5. f[x - 1] < f[x]
    <3>1. x - 1 \notin Above
      BY <2>1, <2>4, SMT
    <3>2. PICK c \in C : ~(f[c] < f[x - 1])
      BY <2>4, <3>1
    <3>3. f[c] < f[x] /\ f[c] \in Int /\ f[x] \in Int /\ f[x - 1] \in Int
      BY <1>2, <2>2, <2>4
    <3>. QED
      BY <3>2, <3>3, SMT
  <2>. DEFINE Right == {y \in C : x < y}
  <2>6. PICK y \in Right : \A z \in Right : y <= z
    <3>1. Right \in SUBSET Nat
      BY <1>1
    <3>2. Right # {}
      BY <1>1, <2>4, SMT
    <3>. HIDE DEF Right
    <3>. QED
      BY <3>1, <3>2, LeastMember
  <2>7. y \in C /\ y \in Nat /\ x < y /\ y <= High /\ \A z \in (x + 1)..(y - 1) : z \notin C
    <3>1. y \in C /\ x < y
      BY <2>6
    <3>2. y \in Nat /\ y <= High
      BY <1>1, <3>1, SMT
    <3>3. ASSUME NEW z \in (x + 1)..(y - 1), z \in C
          PROVE  FALSE
      <4>1. x < z /\ ~(y <= z)
        BY <2>2, <3>2, <3>3, SMT
      <4>2. z \in Right
        BY <3>3, <4>1
      <4>. QED
        BY <2>6, <4>1, <4>2
    <3>. QED
      BY <3>1, <3>2, <3>3
  <2>. DEFINE Falls == {z \in x..y : ~(f[z - 1] < f[z])}
  <2>8. Falls = {}
    <3>1. SUFFICES ASSUME Falls # {}
                   PROVE  FALSE
      OBVIOUS
    <3>2. PICK z \in Falls : \A w \in Falls : z <= w
      <4>1. Falls \in SUBSET Nat
        BY <2>2, SMT
      <4>. HIDE DEF Falls
      <4>. QED
        BY <3>1, <4>1, LeastMember
    <3>3. z \in x..y /\ z \in Nat /\ ~(f[z - 1] < f[z])
      BY <2>2, <3>2, SMT
    <3>4. z # x
      BY <2>5, <3>3
    <3>5. z - 1 \in x..y /\ z - 1 \in 1..(High - 1)
      BY <2>2, <2>4, <2>7, <3>3, <3>4, SMT
    <3>6. f[z - 1 - 1] < f[z - 1]
      <4>1. z - 1 \notin Falls
        BY <3>2, <3>3, SMT
      <4>. QED
        BY <3>5, <4>1
    <3>7. z - 1 \notin C
      <4>1. CASE z - 1 = x
        BY <2>3, <4>1
      <4>2. CASE z - 1 # x
        <5>1. z - 1 \in (x + 1)..(y - 1)
          BY <2>2, <2>7, <3>3, <3>5, <4>2, SMT
        <5>. QED
          BY <2>7, <5>1
      <4>. QED
        BY <4>1, <4>2
    <3>8. f[z - 1 + 1] - f[z - 1] = f[z - 1] - f[z - 1 - 1]
      BY <1>1, <3>5, <3>7, SMT
    <3>9. z - 1 + 1 = z /\ z - 1 \in Forwards /\ z \in Forwards /\ z - 1 - 1 \in Forwards
      BY <1>1, <2>2, <2>7, <3>3, <3>5, SMT
    <3>10. f[z] \in Int /\ f[z - 1] \in Int /\ f[z - 1 - 1] \in Int
      BY <1>2, <3>9
    <3>11. f[z] - f[z - 1] = f[z - 1] - f[z - 1 - 1]
      BY <3>8, <3>9
    <3>. DEFINE a == f[z]
                b == f[z - 1]
                c == f[z - 1 - 1]
    <3>12. a \in Int /\ b \in Int /\ c \in Int /\ a - b = b - c /\ c < b /\ ~(b < a)
      BY <3>3, <3>6, <3>10, <3>11
    <3>. HIDE DEF a, b, c
    <3>. QED
      BY <3>12, SMT
  <2>. DEFINE Lower == {z \in x..y : f[z] < f[x]}
  <2>9. Lower = {}
    <3>1. SUFFICES ASSUME Lower # {}
                   PROVE  FALSE
      OBVIOUS
    <3>2. PICK z \in Lower : \A w \in Lower : z <= w
      <4>1. Lower \in SUBSET Nat
        BY <2>2, SMT
      <4>. HIDE DEF Lower
      <4>. QED
        BY <3>1, <4>1, LeastMember
    <3>3. z \in x..y /\ z \in Nat /\ f[z] < f[x]
      BY <2>2, <3>2, SMT
    <3>4. z # x
      <4>1. ~(f[x] < f[x])
        BY <1>2, <2>2, SMT
      <4>. QED
        BY <3>3, <4>1
    <3>5. z - 1 \in x..y /\ z \in Forwards /\ z - 1 \in Forwards
      BY <1>1, <2>2, <2>7, <3>3, <3>4, SMT
    <3>6. ~(f[z - 1] < f[x])
      <4>1. z - 1 \notin Lower
        BY <3>2, <3>3, SMT
      <4>. QED
        BY <3>5, <4>1
    <3>7. f[z - 1] < f[z]
      BY <2>8, <3>3
    <3>8. f[z] \in Int /\ f[z - 1] \in Int /\ f[x] \in Int
      BY <1>2, <2>2, <3>5
    <3>. QED
      BY <3>3, <3>6, <3>7, <3>8, SMT
  <2>10. ~(f[y] < f[x])
    <3>1. y \in x..y
      BY <2>2, <2>7, SMT
    <3>. QED
      BY <2>9, <3>1
  <2>. QED
    BY <2>2, <2>7, <2>10
<1>4. PICK c \in C : ~(f[c] < f[at])
  BY <1>3
<1>5. f[c] \in Int /\ f[at] \in Int
  BY <1>2
<1>. QED
  BY <1>4, <1>5, SMT

\* The corners have one where the line is greatest: the first Forward up to
\* which they had none would have had one a step before.
LEMMA GreatestCorner ==
  ASSUME NEW f \in [Forwards -> Int], NEW C \in SUBSET Forwards, C # {}
  PROVE  \E c \in C : \A d \in C : f[d] <= f[c]
<1>. DEFINE Upto(n) == {c \in C : c <= n}
            Best(n) == \E c \in Upto(n) : \A d \in Upto(n) : f[d] <= f[c]
            Worse == {n \in Forwards : Upto(n) # {} /\ ~Best(n)}
<1>1. High \in Nat /\ Forwards = 0..High /\ Forwards \subseteq Nat
  BY DomainAssumption, SMT DEF DomainAssumption, Forwards, Low
<1>2. \A x \in Forwards : f[x] \in Int
  OBVIOUS
<1>3. ASSUME Worse # {}
      PROVE  FALSE
  <2>1. PICK n \in Worse : \A m \in Worse : n <= m
    <3>1. Worse \in SUBSET Nat
      BY <1>1
    <3>. HIDE DEF Worse
    <3>. QED
      BY <1>3, <3>1, LeastMember
  <2>2. n \in Forwards /\ n \in Nat /\ n <= High /\ Upto(n) # {} /\ ~Best(n)
    BY <1>1, <2>1, SMT
  <2>3. ASSUME NEW c \in Upto(n), \A d \in Upto(n) : f[d] <= f[c]
        PROVE  FALSE
    BY <2>2, <2>3
  <2>4. \A c \in Upto(n) : c \in C /\ c \in Nat /\ c <= n /\ f[c] \in Int
    BY <1>1, <1>2
  <2>5. \A c \in Upto(n) : c = n \/ c \in Upto(n - 1)
    BY <2>2, <2>4, SMT
  <2>6. \A c \in Upto(n - 1) : c \in Upto(n)
    BY <1>1, <2>2, SMT
  <2>7. CASE Upto(n - 1) = {}
    <3>1. PICK c \in Upto(n) : TRUE
      BY <2>2
    <3>2. \A d \in Upto(n) : d = c
      BY <2>5, <2>7, <3>1
    <3>3. f[c] <= f[c]
      BY <2>4, <3>1, SMT
    <3>. QED
      BY <2>3, <3>1, <3>2, <3>3
  <2>8. CASE Upto(n - 1) # {}
    <3>1. n - 1 \in Forwards
      <4>1. PICK c \in Upto(n - 1) : TRUE
        BY <2>8
      <4>2. c \in Nat /\ c <= n - 1
        BY <1>1, <4>1
      <4>. QED
        BY <1>1, <2>2, <4>2, SMT
    <3>2. n - 1 \notin Worse
      BY <2>1, <2>2, SMT
    <3>3. PICK c \in Upto(n - 1) : \A d \in Upto(n - 1) : f[d] <= f[c]
      BY <2>8, <3>1, <3>2
    <3>4. c \in Upto(n) /\ f[c] \in Int
      BY <2>4, <2>6, <3>3
    <3>5. CASE n \notin C
      <4>1. \A d \in Upto(n) : f[d] <= f[c]
        BY <2>4, <2>5, <3>3, <3>5
      <4>. QED
        BY <2>3, <3>4, <4>1
    <3>6. CASE n \in C /\ f[n] <= f[c]
      <4>1. \A d \in Upto(n) : f[d] <= f[c]
        BY <2>5, <3>3, <3>6
      <4>. QED
        BY <2>3, <3>4, <4>1
    <3>7. CASE n \in C /\ ~(f[n] <= f[c])
      <4>1. n \in Upto(n) /\ f[n] \in Int
        BY <1>2, <2>2, <3>7, SMT
      <4>2. ASSUME NEW d \in Upto(n)
            PROVE  f[d] <= f[n]
        <5>1. CASE d = n
          BY <4>1, <5>1, SMT
        <5>2. CASE d \in Upto(n - 1)
          <6>1. f[d] <= f[c] /\ f[d] \in Int
            BY <2>4, <3>3, <5>2, <4>2
          <6>. QED
            BY <3>4, <3>7, <4>1, <6>1, SMT
        <5>. QED
          BY <2>5, <5>1, <5>2
      <4>. QED
        BY <2>3, <4>1, <4>2
    <3>. QED
      BY <3>5, <3>6, <3>7
  <2>. QED
    BY <2>7, <2>8
<1>4. Upto(High) = C
  <2>1. \A c \in C : c \in 0..High
    BY <1>1
  <2>2. \A c \in 0..High : c <= High
    BY <1>1, SMT
  <2>. QED
    BY <2>1, <2>2
<1>5. High \in Forwards /\ High \notin Worse
  <2>1. High \in 0..High
    BY <1>1, SMT
  <2>2. Worse = {}
    BY <1>3
  <2>. QED
    BY <1>1, <2>1, <2>2
<1>6. Best(High)
  BY <1>4, <1>5
<1>. QED
  BY <1>4, <1>6

LEMMA CornersInDomain ==
  ASSUME TypeOK
  PROVE  corners \in SUBSET Forwards /\ Low \in corners /\ High \in corners
<1>1. Low \in Forwards /\ High \in Forwards
  BY DomainAssumption, SMT DEF DomainAssumption, Forwards, Low
<1>2. ASSUME NEW i \in DOMAIN legs
      PROVE  legs[i].strike \in Forwards
  <2>1. legs[i] \in Leg
    BY <1>2, SMT DEF TypeOK
  <2>2. legs[i].strike \in Strikes
    BY <2>1 DEF Leg
  <2>. QED
    BY <2>2, StrikeRoom
<1>. QED
  BY <1>1, <1>2 DEF corners, strikesOf

\* What the engine prints as Max Profit and Max Loss is true of every Forward,
\* and it prints Unlimited exactly when the line's tail runs away.
LEMMA ExtremaFromTheLine ==
  ASSUME LineInv
  PROVE  ExtremaAreTheLines
<1>0. TypeOK /\ BendsOnlyAtStrikes /\ TailIsTheCallSlope
  BY DEF LineInv
<1>1. corners \in SUBSET Forwards /\ Low \in corners /\ High \in corners
  BY <1>0, CornersInDomain
<1>2. total \in [Forwards -> Int]
  BY <1>0 DEF TypeOK
<1>3. \A x \in (Low + 1)..(High - 1) :
        x \notin corners => total[x + 1] - total[x] = total[x] - total[x - 1]
  BY <1>0 DEF BendsOnlyAtStrikes, corners
<1>. DEFINE upside == [x \in Forwards |-> -total[x]]
<1>4. upside \in [Forwards -> Int]
  BY <1>2, SMT
<1>5. \A x \in (Low + 1)..(High - 1) :
        x \notin corners => upside[x + 1] - upside[x] = upside[x] - upside[x - 1]
  <2>1. SUFFICES ASSUME NEW x \in (Low + 1)..(High - 1), x \notin corners
                 PROVE  upside[x + 1] - upside[x] = upside[x] - upside[x - 1]
    OBVIOUS
  <2>2. x \in Forwards /\ x + 1 \in Forwards /\ x - 1 \in Forwards
    BY DomainAssumption, SMT DEF DomainAssumption, Forwards, Low
  <2>. DEFINE a == total[x + 1]
              b == total[x]
              c == total[x - 1]
  <2>3. a \in Int /\ b \in Int /\ c \in Int /\ a - b = b - c
    BY <1>2, <1>3, <2>1, <2>2
  <2>4. upside[x + 1] = -a /\ upside[x] = -b /\ upside[x - 1] = -c
    BY <2>2
  <2>. HIDE DEF a, b, c, upside
  <2>5. (-a) - (-b) = (-b) - (-c)
    BY <2>3, SMT
  <2>. QED
    BY <2>4, <2>5
<1>6. \A most \in greatest(pnlAtCorners) : \A forward \in Forwards : total[forward] <= most
  <2>1. SUFFICES ASSUME NEW most \in greatest(pnlAtCorners), NEW forward \in Forwards
                 PROVE  total[forward] <= most
    OBVIOUS
  <2>2. PICK c \in corners : total[forward] <= total[c]
    BY <1>1, <1>2, <1>3, CornerNotBelow
  <2>3. total[c] <= most /\ most \in pnlAtCorners
    BY <2>1 DEF greatest, pnlAtCorners
  <2>4. most \in Int /\ total[c] \in Int /\ total[forward] \in Int
    BY <1>1, <1>2, <2>3 DEF pnlAtCorners
  <2>. QED
    BY <2>2, <2>3, <2>4, SMT
<1>7. \A most \in least(pnlAtCorners) : \A forward \in Forwards : most <= total[forward]
  <2>1. SUFFICES ASSUME NEW most \in least(pnlAtCorners), NEW forward \in Forwards
                 PROVE  most <= total[forward]
    OBVIOUS
  <2>2. PICK c \in corners : upside[forward] <= upside[c]
    <3>. HIDE DEF upside
    <3>. QED
      BY <1>1, <1>4, <1>5, CornerNotBelow
  <2>3. most <= total[c] /\ most \in pnlAtCorners
    BY <2>1 DEF least, pnlAtCorners
  <2>4. most \in Int /\ total[c] \in Int /\ total[forward] \in Int
    BY <1>1, <1>2, <2>3 DEF pnlAtCorners
  <2>5. -total[forward] <= -total[c]
    BY <1>1, <2>2
  <2>. QED
    BY <2>3, <2>4, <2>5, SMT
<1>8. greatest(pnlAtCorners) # {}
  <2>1. PICK c \in corners : \A d \in corners : total[d] <= total[c]
    BY <1>1, <1>2, GreatestCorner
  <2>. QED
    BY <2>1 DEF greatest, pnlAtCorners
<1>9. least(pnlAtCorners) # {}
  <2>1. PICK c \in corners : \A d \in corners : upside[d] <= upside[c]
    <3>. HIDE DEF upside
    <3>. QED
      BY <1>1, <1>4, GreatestCorner
  <2>2. \A d \in corners : total[c] <= total[d]
    <3>1. SUFFICES ASSUME NEW d \in corners
                   PROVE  total[c] <= total[d]
      OBVIOUS
    <3>2. -total[d] <= -total[c] /\ total[d] \in Int /\ total[c] \in Int
      BY <1>1, <1>2, <2>1
    <3>. QED
      BY <3>2, SMT
  <2>. QED
    BY <2>2 DEF least, pnlAtCorners
<1>10. total[High] - total[High - 1] = call_slope
  <2>1. High - 1 \in Low..(High - 1) /\ High - 1 + 1 = High /\ High \in Nat
    BY DomainAssumption, SMT DEF DomainAssumption, Low
  <2>2. \A strike \in strikesOf : strike <= High - 1
    <3>1. SUFFICES ASSUME NEW i \in DOMAIN legs
                   PROVE  legs[i].strike <= High - 1
      BY DEF strikesOf
    <3>2. legs[i] \in Leg
      BY <1>0, SMT DEF TypeOK
    <3>3. legs[i].strike \in Strikes
      BY <3>2 DEF Leg
    <3>. QED
      BY <3>3, StrikeRoom
  <2>3. total[High - 1 + 1] - total[High - 1] = call_slope
    BY <1>0, <2>1, <2>2 DEF TailIsTheCallSlope
  <2>. QED
    BY <2>1, <2>3
<1>11. /\ total[High] > total[High - 1] <=> call_slope > 0
       /\ total[High] < total[High - 1] <=> call_slope < 0
  <2>1. High \in Forwards /\ High - 1 \in Forwards
    BY DomainAssumption, SMT DEF DomainAssumption, Forwards, Low
  <2>. DEFINE a == total[High]
              b == total[High - 1]
  <2>2. a \in Int /\ b \in Int /\ call_slope \in Int /\ a - b = call_slope
    BY <1>0, <1>2, <1>10, <2>1 DEF TypeOK
  <2>. HIDE DEF a, b
  <2>3. (a > b <=> call_slope > 0) /\ (a < b <=> call_slope < 0)
    BY <2>2, SMT
  <2>. QED
    BY <2>3 DEF a, b
<1>12. (max_profit = {}) <=> (total[High] > total[High - 1])
  BY <1>8, <1>11 DEF max_profit, unboundedUpside
<1>13. (max_loss = {}) <=> (total[High] < total[High - 1])
  BY <1>9, <1>11 DEF max_loss, unboundedDownside
<1>14. /\ \A most \in max_profit : most \in greatest(pnlAtCorners)
       /\ \A most \in max_loss : most \in least(pnlAtCorners)
  BY DEF max_profit, max_loss
<1>. QED
  BY <1>6, <1>7, <1>12, <1>13, <1>14 DEF ExtremaAreTheLines

\* The figures beside the chart are the line's, for every artifact, Strategy
\* and price.
THEOREM ExtremaAreAlwaysTheLines == Spec => []ExtremaAreTheLines
<1>1. Init => LineInv
  BY LineInit
<1>2. LineInv /\ [Next]_vars => LineInv'
  BY LineStep
<1>3. LineInv => ExtremaAreTheLines
  BY ExtremaFromTheLine
<1>. QED
  BY <1>1, <1>2, <1>3, PTL DEF Spec

------------------------------------------------------------------------------
(* The chart. *)

\* A strike traded is a strike of the artifact.
LEMMA TradedStrike ==
  ASSUME TypeOK, NEW strike \in strikesOf
  PROVE  strike \in Strikes
<1>1. PICK i \in DOMAIN legs : strike = legs[i].strike
  BY DEF strikesOf
<1>2. legs[i] \in Leg
  BY <1>1, SMT DEF TypeOK
<1>. QED
  BY <1>1, <1>2 DEF Leg

\* A margin below a strike is under it, a margin above is over it, and neither
\* is past twice the domain.
LEMMA Margins ==
  ASSUME NEW strike \in Strikes
  PROVE  /\ strike * (100 - WING_MARGIN) \in Nat /\ strike * (100 - WING_MARGIN) < 100 * strike
         /\ strike * (100 + WING_MARGIN) \in Nat /\ 100 * strike < strike * (100 + WING_MARGIN)
         /\ strike * (100 + WING_MARGIN) <= 200 * High
<1>1. strike \in Int /\ 0 < strike /\ strike <= High /\ High \in Nat
  BY StrikeRoom, DomainAssumption, SMT
<1>2. WING_MARGIN \in Int /\ 1 <= WING_MARGIN /\ WING_MARGIN <= 100
  BY FrameAssumption, SMT
<1>3. ASSUME NEW s \in Int, NEW w \in Int, 0 < s, 1 <= w, w <= 100
      PROVE  /\ s * w \in Int /\ 0 < s * w /\ s * w <= 100 * s
             /\ s * (100 - w) = 100 * s - s * w /\ s * (100 + w) = 100 * s + s * w
  BY <1>3, SMT
<1>. DEFINE product == strike * WING_MARGIN
<1>4. /\ product \in Int /\ 0 < product /\ product <= 100 * strike
      /\ strike * (100 - WING_MARGIN) = 100 * strike - product
      /\ strike * (100 + WING_MARGIN) = 100 * strike + product
  BY <1>1, <1>2, <1>3
<1>. HIDE DEF product
<1>. QED
  BY <1>1, <1>4, SMT

\* The two ends of the frame: no strike's margin lies outside it.
LEMMA FrameHolds ==
  ASSUME TypeOK
  PROVE  /\ frame[1] \in Int /\ frame[2] \in Int /\ frame[1] <= frame[2]
         /\ \A strike \in strikesOf : frame[1] < 100 * strike /\ 100 * strike < frame[2]
<1>. DEFINE left == {Forward * (100 - FORWARD_RANGE)} \cup {s * (100 - WING_MARGIN) : s \in strikesOf}
            right == {Forward * (100 + FORWARD_RANGE)} \cup {s * (100 + WING_MARGIN) : s \in strikesOf}
<1>1. /\ Forward * (100 - FORWARD_RANGE) \in Nat /\ Forward * (100 + FORWARD_RANGE) \in Nat
      /\ Forward * (100 - FORWARD_RANGE) <= Forward * (100 + FORWARD_RANGE)
      /\ Forward * (100 + FORWARD_RANGE) <= 200 * High
  <2>1. /\ Forward \in Nat /\ FORWARD_RANGE \in Int /\ 1 <= FORWARD_RANGE /\ FORWARD_RANGE <= 100
        /\ High \in Nat /\ Forward * (100 + FORWARD_RANGE) <= 100 * High
    BY FrameAssumption, DomainAssumption, SMT
  <2>2. ASSUME NEW f \in Nat, NEW r \in Int, 1 <= r, r <= 100
        PROVE  f * (100 - r) \in Nat /\ f * (100 + r) \in Nat /\ f * (100 - r) <= f * (100 + r)
    BY <2>2, SMT
  <2>3. /\ Forward * (100 - FORWARD_RANGE) \in Nat /\ Forward * (100 + FORWARD_RANGE) \in Nat
        /\ Forward * (100 - FORWARD_RANGE) <= Forward * (100 + FORWARD_RANGE)
    BY <2>1, <2>2
  <2>4. 100 * High <= 200 * High /\ 100 * High \in Int /\ 200 * High \in Int
    BY <2>1, SMT
  <2>. QED
    BY <2>1, <2>3, <2>4, SMT
<1>2. \A strike \in strikesOf :
        /\ strike * (100 - WING_MARGIN) \in Nat /\ strike * (100 - WING_MARGIN) < 100 * strike
        /\ strike * (100 + WING_MARGIN) \in Nat /\ 100 * strike < strike * (100 + WING_MARGIN)
        /\ strike * (100 + WING_MARGIN) <= 200 * High
        /\ 100 * strike \in Nat
  <2>1. ASSUME NEW strike \in strikesOf
        PROVE  strike \in Strikes /\ strike \in Nat /\ 100 * strike \in Nat
    <3>1. strike \in Strikes
      BY TradedStrike
    <3>2. strike \in Nat
      BY <3>1, DomainAssumption
    <3>3. 100 * strike \in Nat
      BY <3>2, SMT
    <3>. QED
      BY <3>1, <3>2, <3>3
  <2>2. ASSUME NEW strike \in strikesOf
        PROVE  /\ strike * (100 - WING_MARGIN) \in Nat
               /\ strike * (100 - WING_MARGIN) < 100 * strike
               /\ strike * (100 + WING_MARGIN) \in Nat
               /\ 100 * strike < strike * (100 + WING_MARGIN)
               /\ strike * (100 + WING_MARGIN) <= 200 * High
    <3>1. strike \in Strikes
      BY <2>1
    <3>. QED
      BY <3>1, Margins
  <2>. QED
    BY <2>1, <2>2
<1>3. left \in SUBSET Nat /\ left # {}
  BY <1>1, <1>2
<1>4. right \in SUBSET Nat /\ right # {} /\ \A edge \in right : edge <= 200 * High
  BY <1>1, <1>2
<1>5. frame[1] = CHOOSE edge \in left : \A other \in left : edge <= other
  BY DEF frame
<1>6. frame[2] = CHOOSE edge \in right : \A other \in right : other <= edge
  BY DEF frame
<1>7. frame[1] \in left /\ \A other \in left : frame[1] <= other
  <2>. HIDE DEF left
  <2>. QED
    BY <1>3, <1>5, LeastMember
<1>8. frame[2] \in right /\ \A other \in right : other <= frame[2]
  <2>1. 200 * High \in Nat
    BY DomainAssumption, SMT
  <2>. HIDE DEF right
  <2>2. \E edge \in right : \A other \in right : other <= edge
    BY <1>4, <2>1, GreatestMember
  <2>. QED
    BY <1>6, <2>2
<1>9. frame[1] \in Nat /\ frame[2] \in Nat
  BY <1>3, <1>4, <1>7, <1>8
<1>. DEFINE first == frame[1]
            final == frame[2]
<1>10. \A strike \in strikesOf : first < 100 * strike /\ 100 * strike < final
  <2>1. ASSUME NEW strike \in strikesOf
        PROVE  first < 100 * strike /\ 100 * strike < final
    <3>1. first <= strike * (100 - WING_MARGIN) /\ strike * (100 + WING_MARGIN) <= final
      BY <1>7, <1>8
    <3>. DEFINE under == strike * (100 - WING_MARGIN)
                over == strike * (100 + WING_MARGIN)
                mark == 100 * strike
    <3>2. /\ under \in Nat /\ over \in Nat /\ mark \in Nat /\ first \in Nat /\ final \in Nat
          /\ under < mark /\ mark < over /\ first <= under /\ over <= final
      BY <1>2, <1>9, <3>1
    <3>. HIDE DEF under, over, mark, first, final
    <3>3. first < mark /\ mark < final
      BY <3>2, SMT
    <3>. QED
      BY <3>3 DEF mark
  <2>. QED
    BY <2>1
<1>11. first <= final
  <2>. DEFINE lower == Forward * (100 - FORWARD_RANGE)
              upper == Forward * (100 + FORWARD_RANGE)
  <2>1. first <= lower /\ upper <= final
    BY <1>7, <1>8
  <2>2. lower \in Nat /\ upper \in Nat /\ lower <= upper /\ first \in Nat /\ final \in Nat
    BY <1>1, <1>9
  <2>. HIDE DEF lower, upper, first, final
  <2>. QED
    BY <2>1, <2>2, SMT
<1>. QED
  BY <1>9, <1>10, <1>11

\* The chart's line reaches at least as far as the frame, or to the end of the
\* domain.
LEMMA SpanHoldsTheFrame ==
  ASSUME TypeOK
  PROVE  /\ curveSpan[1] \in Int /\ curveSpan[2] \in Int
         /\ curveSpan[1] <= 2 * frame[1] \/ curveSpan[1] = 200 * Low
         /\ curveSpan[2] >= 2 * frame[2] \/ curveSpan[2] = 200 * High
<1>. DEFINE first == frame[1]
            final == frame[2]
            middle == first + final
            reach == (final - first) * ZOOM_HEADROOM
<1>1. first \in Int /\ final \in Int /\ first <= final
  BY FrameHolds
<1>2. ZOOM_HEADROOM \in Int /\ 1 <= ZOOM_HEADROOM
  BY FrameAssumption, SMT
<1>3. /\ curveSpan[1] = IF middle - reach < 200 * Low THEN 200 * Low ELSE middle - reach
      /\ curveSpan[2] = IF middle + reach > 200 * High THEN 200 * High ELSE middle + reach
  BY DEF curveSpan
<1>. HIDE DEF first, final
<1>4. reach \in Int /\ final - first <= reach
  <2>1. \A d \in Nat, z \in Int : 1 <= z => d * z \in Int /\ d <= d * z
    BY SMT
  <2>2. final - first \in Nat
    BY <1>1, SMT
  <2>. QED
    BY <1>2, <2>1, <2>2
<1>. HIDE DEF reach
<1>5. Low \in Int /\ High \in Int
  BY DomainAssumption, SMT DEF Low
<1>6. /\ middle - reach <= 2 * first /\ middle + reach >= 2 * final
      /\ middle - reach \in Int /\ middle + reach \in Int
  BY <1>1, <1>4, SMT
<1>7. 200 * Low \in Int /\ 200 * High \in Int
  BY <1>5, SMT
<1>. HIDE DEF middle
<1>8. curveSpan[1] \in {200 * Low, middle - reach} /\ curveSpan[2] \in {200 * High, middle + reach}
  BY <1>3
<1>. QED
  BY <1>6, <1>7, <1>8 DEF first, final

\* No capped loss is drawn as one that runs on: every strike is inside the
\* frame and a point of the chart's line, and every row of the table on it
\* (strategy.py, _frame, curve).
THEOREM WingsAreAlwaysOnTheChart == Spec => []WingsAreOnTheChart
<1>1. ASSUME TypeOK
      PROVE  WingsAreOnTheChart
  <2>. DEFINE first == frame[1]
              final == frame[2]
              left == curveSpan[1]
              right == curveSpan[2]
  <2>1. /\ first \in Int /\ final \in Int /\ left \in Int /\ right \in Int
        /\ left <= 2 * first \/ left = 200 * Low
        /\ right >= 2 * final \/ right = 200 * High
    BY <1>1, FrameHolds, SpanHoldsTheFrame
  <2>2. \A strike \in strikesOf : first < 100 * strike /\ 100 * strike < final
    BY <1>1, FrameHolds
  <2>3. Low = 0 /\ High \in Nat
    BY DomainAssumption DEF Low
  <2>4. \A strike \in strikesOf :
          strike \in Int /\ 0 < strike /\ strike < High /\ strike \in corners
    BY <1>1, TradedStrike, StrikeRoom DEF corners
  <2>5. \A row \in tableRows :
          /\ row \in Int /\ 0 <= row /\ row <= High
          /\ first <= 100 * row /\ 100 * row <= final
    BY ForwardsType DEF tableRows
  <2>6. \A strike \in strikesOf : strike \in curveCorners
    <3>. HIDE DEF first, final
    <3>1. \A strike \in strikesOf : left < 200 * strike /\ 200 * strike < right
      <4>. HIDE DEF left, right
      <4>. QED
        BY <2>1, <2>2, <2>3, <2>4, SMT
    <3>. QED
      BY <2>4, <3>1 DEF curveCorners
  <2>7. \A row \in tableRows : left <= 200 * row /\ 200 * row <= right
    <3>. HIDE DEF first, final, left, right
    <3>. QED
      BY <2>1, <2>3, <2>5, SMT
  <2>. QED
    BY <2>2, <2>6, <2>7 DEF WingsAreOnTheChart
<1>. QED
  BY <1>1, TypeCorrect, PTL

------------------------------------------------------------------------------
(* The Breakevens. *)

\* Floor division by what is not zero, and what is left.
LEMMA DivMod ==
  ASSUME NEW num \in Int, NEW den \in Nat \ {0}
  PROVE  /\ num \div den \in Int /\ num % den \in Int
         /\ 0 <= num % den /\ num % den < den
         /\ num = (num \div den) * den + (num % den)
BY SMT

\* A factor above zero keeps an order, and nothing else does.
LEMMA Cancel ==
  ASSUME NEW a \in Int, NEW b \in Int, NEW d \in Nat \ {0}, a * d < b * d
  PROVE  a < b
BY SMT

\* A line with no bend inside a segment is straight on it: the first Forward
\* off the straight has two before it that are on it.
LEMMA StraightBetweenBends ==
  ASSUME NEW f \in [Forwards -> Int], NEW s \in Forwards, NEW u \in Forwards, s < u,
         \A x \in (s + 1)..(u - 1) : f[x + 1] - f[x] = f[x] - f[x - 1]
  PROVE  \A x \in s..u : f[x] = f[s] + (x - s) * (f[s + 1] - f[s])
<1>. DEFINE t == f[s]
            k == f[s + 1] - f[s]
            Off == {x \in s..u : f[x] # t + (x - s) * k}
<1>1. /\ High \in Nat /\ Forwards = 0..High /\ s \in Nat /\ u \in Nat /\ u <= High
  BY DomainAssumption, SMT DEF DomainAssumption, Forwards, Low
<1>2. s..u \subseteq Forwards /\ s + 1 \in s..u /\ s \in s..u
  BY <1>1, SMT
<1>3. t \in Int /\ k \in Int /\ \A x \in s..u : f[x] \in Int
  BY <1>2
<1>4. SUFFICES ASSUME Off # {}
               PROVE  FALSE
  OBVIOUS
<1>5. PICK x \in Off : \A y \in Off : x <= y
  <2>1. Off \in SUBSET Nat
    BY <1>1, SMT
  <2>. HIDE DEF Off
  <2>. QED
    BY <1>4, <2>1, LeastMember
<1>6. x \in s..u /\ x \in Nat /\ f[x] # t + (x - s) * k
  BY <1>1, <1>5, SMT
<1>7. x # s
  <2>1. f[s] = t /\ t + (s - s) * k = t
    <3>1. t + (s - s) * k = t
      <4>. HIDE DEF t, k
      <4>. QED
        BY <1>1, <1>3, SMT
    <3>. QED
      BY <3>1
  <2>. QED
    BY <1>6, <2>1
<1>8. x # s + 1
  <2>1. f[s + 1] = t + k
    <3>1. \A a, b \in Int : b = a + (b - a)
      BY SMT
    <3>. QED
      BY <1>2, <1>3, <3>1
  <2>2. t + ((s + 1) - s) * k = t + k
    <3>. HIDE DEF t, k
    <3>. QED
      BY <1>1, <1>3, SMT
  <2>. QED
    BY <1>6, <2>1, <2>2
<1>9. /\ x - 1 \in s..u /\ x - 1 - 1 \in s..u /\ x - 1 \in (s + 1)..(u - 1)
      /\ x - 1 + 1 = x /\ x - 1 \notin Off /\ x - 1 - 1 \notin Off
  <2>1. /\ x - 1 \in s..u /\ x - 1 - 1 \in s..u /\ x - 1 \in (s + 1)..(u - 1)
        /\ x - 1 + 1 = x /\ ~(x <= x - 1) /\ ~(x <= x - 1 - 1)
    BY <1>1, <1>6, <1>7, <1>8, SMT
  <2>. HIDE DEF Off
  <2>. QED
    BY <1>5, <2>1
<1>. DEFINE a == f[x]
            b == f[x - 1]
            c == f[x - 1 - 1]
<1>10. b = t + (x - 1 - s) * k /\ c = t + (x - 1 - 1 - s) * k
  BY <1>9
<1>11. a - b = b - c
  BY <1>9
<1>12. a \in Int /\ b \in Int /\ c \in Int /\ a # t + (x - s) * k
  BY <1>3, <1>6, <1>9
<1>. HIDE DEF a, b, c, t, k, Off
<1>. QED
  BY <1>1, <1>3, <1>6, <1>10, <1>11, <1>12, SMT

\* A segment is a stretch of the domain on which the line is straight.
LEMMA SegmentIsStraight ==
  ASSUME LineInv, NEW segment \in Segments
  PROVE  /\ segment[1] \in Forwards /\ segment[2] \in Forwards /\ segment[1] < segment[2]
         /\ segment[1] \in corners /\ segment[2] \in corners
         /\ \A x \in segment[1]..segment[2] :
              total[x] = total[segment[1]]
                           + (x - segment[1]) * (total[segment[1] + 1] - total[segment[1]])
<1>. DEFINE s == segment[1]
            u == segment[2]
<1>1. /\ s \in corners /\ u \in corners /\ s < u
      /\ ~\E corner \in corners : s < corner /\ corner < u
  BY DEF Segments
<1>2. TypeOK /\ BendsOnlyAtStrikes
  BY DEF LineInv
<1>3. s \in Forwards /\ u \in Forwards /\ total \in [Forwards -> Int]
  BY <1>1, <1>2, CornersInDomain DEF TypeOK
<1>4. High \in Nat /\ Low = 0 /\ s \in Nat /\ u \in Nat /\ u <= High
  BY <1>3, DomainAssumption, SMT DEF DomainAssumption, Forwards, Low
<1>5. ASSUME NEW x \in (s + 1)..(u - 1)
      PROVE  total[x + 1] - total[x] = total[x] - total[x - 1]
  <2>1. s < x /\ x < u /\ x \in (Low + 1)..(High - 1)
    BY <1>4, <1>5, SMT
  <2>2. x \notin strikesOf
    BY <1>1, <2>1 DEF corners
  <2>. QED
    BY <1>2, <2>1, <2>2 DEF BendsOnlyAtStrikes
<1>. HIDE DEF s, u
<1>6. \A x \in s..u : total[x] = total[s] + (x - s) * (total[s + 1] - total[s])
  BY <1>1, <1>3, <1>5, StraightBetweenBends
<1>. QED
  BY <1>1, <1>3, <1>6 DEF s, u

\* Two Forwards next to each other lie in one segment.
LEMMA InASegment ==
  ASSUME TypeOK, NEW at \in Low..(High - 1)
  PROVE  \E segment \in Segments : segment[1] <= at /\ at + 1 <= segment[2]
<1>. DEFINE Left == {c \in corners : c <= at}
            Right == {c \in corners : at + 1 <= c}
<1>1. corners \in SUBSET Forwards /\ Low \in corners /\ High \in corners
  BY CornersInDomain
<1>2. High \in Nat /\ Low = 0 /\ at \in Nat /\ at + 1 <= High /\ Forwards \subseteq Nat
  BY DomainAssumption, SMT DEF DomainAssumption, Forwards, Low
<1>3. PICK s \in Left : \A c \in Left : c <= s
  <2>1. Left \in SUBSET Nat /\ \A c \in Left : c <= at
    BY <1>1, <1>2
  <2>2. Low \in Left
    BY <1>1, <1>2, SMT
  <2>3. Left # {}
    BY <2>2
  <2>. HIDE DEF Left
  <2>. QED
    BY <1>2, <2>1, <2>3, GreatestMember
<1>4. PICK u \in Right : \A c \in Right : u <= c
  <2>1. Right \in SUBSET Nat /\ Right # {}
    BY <1>1, <1>2
  <2>. HIDE DEF Right
  <2>. QED
    BY <2>1, LeastMember
<1>5. /\ s \in corners /\ u \in corners /\ s \in Nat /\ u \in Nat
      /\ s <= at /\ at + 1 <= u
  BY <1>1, <1>2, <1>3, <1>4
<1>6. s < u
  BY <1>2, <1>5, SMT
<1>7. ASSUME NEW corner \in corners, s < corner, corner < u
      PROVE  FALSE
  <2>1. corner \in Nat
    BY <1>1, <1>2
  <2>2. corner <= at \/ at + 1 <= corner
    BY <1>2, <2>1, SMT
  <2>3. CASE corner <= at
    <3>1. corner <= s
      BY <1>3, <2>3
    <3>. QED
      BY <1>5, <1>7, <2>1, <3>1, SMT
  <2>4. CASE at + 1 <= corner
    <3>1. u <= corner
      BY <1>4, <2>4
    <3>. QED
      BY <1>5, <1>7, <2>1, <3>1, SMT
  <2>. QED
    BY <2>2, <2>3, <2>4
<1>8. <<s, u>> \in Segments
  BY <1>5, <1>6, <1>7 DEF Segments
<1>. QED
  BY <1>5, <1>8

\* Where a segment crosses zero, as the engine computes it: a fraction between
\* the segment's ends, at each Forward as far off as the line is high.
LEMMA CrossingOfASegment ==
  ASSUME LineInv, NEW segment \in Segments, total[segment[1]] * total[segment[2]] < 0
  PROVE  \E num \in Int, den \in Nat \ {0}, e \in Int :
           /\ crossing(segment) = <<num, den>>
           /\ den = e * (total[segment[1] + 1] - total[segment[1]]) /\ e # 0
           /\ e * total[segment[1]] < 0 /\ 0 < e * total[segment[2]]
           /\ \A x \in segment[1]..segment[2] : num - x * den = -(e * total[x])
<1>. DEFINE s == segment[1]
            u == segment[2]
            w == u - s
            t == total[s]
            k == total[s + 1] - total[s]
<1>1. /\ s \in Forwards /\ u \in Forwards /\ s < u
      /\ \A x \in s..u : total[x] = t + (x - s) * k
  BY SegmentIsStraight
<1>2. s \in Int /\ u \in Int /\ w \in Nat \ {0}
  BY <1>1, ForwardsType, SMT
<1>3. t \in Int /\ k \in Int /\ total[u] = t + w * k
  <2>1. s + 1 \in Forwards /\ u \in s..u
    BY <1>1, DomainAssumption, SMT DEF DomainAssumption, Forwards, Low
  <2>2. total[s] \in Int /\ total[s + 1] \in Int
    BY <1>1, <2>1 DEF LineInv, TypeOK
  <2>3. k \in Int
    BY <2>2
  <2>. QED
    BY <1>1, <2>1, <2>2, <2>3
<1>. DEFINE rise == (t + w * k) - t
            over == s * rise - t * w
<1>4. crossing(segment) = IF rise > 0 THEN <<over, rise>> ELSE <<-over, -rise>>
  BY <1>3 DEF crossing
<1>5. t * (t + w * k) < 0
  BY <1>3
<1>6. \A x \in s..u : x \in Int
  OBVIOUS
<1>. HIDE DEF s, u, w, t, k
<1>7. PICK num \in Int, den \in Nat \ {0}, e \in Int :
        /\ (IF rise > 0 THEN <<over, rise>> ELSE <<-over, -rise>>) = <<num, den>>
        /\ den = e * k /\ e # 0
        /\ e * t < 0 /\ 0 < e * (t + w * k)
        /\ \A x \in Int : num - x * den = -(e * (t + (x - s) * k))
  <2>1. \/ k > 0 /\ t < 0 /\ t + w * k > 0
        \/ k < 0 /\ t > 0 /\ t + w * k < 0
    BY <1>2, <1>3, <1>5, SMT
  <2>2. rise = w * k /\ rise \in Int /\ over \in Int /\ over = s * (w * k) - t * w
    BY <1>2, <1>3, SMT
  <2>3. \A x \in Int : (s * (w * k) - t * w) - x * (w * k) = -(w * (t + (x - s) * k))
    BY <1>2, <1>3, SMT
  <2>. HIDE DEF rise, over
  <2>4. CASE k > 0 /\ t < 0 /\ t + w * k > 0
    <3>1. /\ rise > 0 /\ rise \in Nat \ {0}
          /\ w * t < 0 /\ 0 < w * (t + w * k) /\ w # 0 /\ w \in Int
      BY <1>2, <1>3, <2>2, <2>4, SMT
    <3>2. \A x \in Int : over - x * rise = -(w * (t + (x - s) * k))
      BY <2>2, <2>3
    <3>3. (IF rise > 0 THEN <<over, rise>> ELSE <<-over, -rise>>) = <<over, rise>>
      BY <3>1
    <3>. QED
      BY <2>2, <3>1, <3>2, <3>3
  <2>5. CASE k < 0 /\ t > 0 /\ t + w * k < 0
    <3>. DEFINE e == -w
                num == -over
                den == -rise
    <3>1. /\ ~(rise > 0) /\ den \in Nat \ {0} /\ num \in Int /\ den = e * k
          /\ e * t < 0 /\ 0 < e * (t + w * k) /\ e # 0 /\ e \in Int
      BY <1>2, <1>3, <2>2, <2>5, SMT
    <3>2. \A x \in Int : num - x * den = -(e * (t + (x - s) * k))
      BY <1>2, <1>3, <2>2, <2>3, SMT
    <3>. HIDE DEF e, num, den
    <3>3. (IF rise > 0 THEN <<over, rise>> ELSE <<-over, -rise>>) = <<num, den>>
      BY <3>1 DEF num, den
    <3>. QED
      BY <3>1, <3>2, <3>3
  <2>. QED
    BY <2>1, <2>4, <2>5
<1>. HIDE DEF rise, over
<1>8. \A x \in s..u : num - x * den = -(e * total[x])
  BY <1>1, <1>6, <1>7
<1>9. 0 < e * total[u] /\ e * total[s] < 0 /\ den = e * (total[s + 1] - total[s])
  BY <1>3, <1>7 DEF t, k
<1>10. crossing(segment) = <<num, den>>
  BY <1>4, <1>7
<1>. QED
  BY <1>7, <1>8, <1>9, <1>10 DEF s, u

\* The line is zero where a segment's crossing says it is.
LEMMA CrossingIsAZero ==
  ASSUME LineInv, NEW segment \in Segments, total[segment[1]] * total[segment[2]] < 0
  PROVE  LET below == crossing(segment)[1] \div crossing(segment)[2]
             past == crossing(segment)[1] % crossing(segment)[2]
         IN  IF past = 0 THEN total[below] = 0
             ELSE total[below] * crossing(segment)[2] + (total[below + 1] - total[below]) * past = 0
<1>. DEFINE s == segment[1]
            u == segment[2]
            k == total[s + 1] - total[s]
<1>1. PICK num \in Int, den \in Nat \ {0}, e \in Int :
        /\ crossing(segment) = <<num, den>> /\ den = e * k /\ e # 0
        /\ e * total[s] < 0 /\ 0 < e * total[u]
        /\ \A x \in s..u : num - x * den = -(e * total[x])
  BY CrossingOfASegment
<1>. DEFINE below == num \div den
            past == num % den
<1>2. /\ s \in Forwards /\ u \in Forwards /\ s < u
      /\ \A x \in s..u : total[x] = total[s] + (x - s) * k
  BY SegmentIsStraight
<1>3. /\ High \in Nat /\ s \in Nat /\ u \in Nat /\ s \in s..u /\ u \in s..u /\ s + 1 \in Forwards
      /\ s..u \subseteq Forwards
  BY <1>2, DomainAssumption, SMT DEF DomainAssumption, Forwards, Low
<1>4. /\ \A x \in s..u : total[x] \in Int
      /\ total[s + 1] \in Int
  BY <1>3 DEF LineInv, TypeOK
<1>5. k \in Int
  BY <1>3, <1>4
<1>6. below \in Int /\ past \in Int /\ 0 <= past /\ past < den /\ num = below * den + past
  BY DivMod
<1>. HIDE DEF s, u, k, below, past
<1>7. s * den < num /\ num < u * den
  <2>1. num - s * den = -(e * total[s]) /\ num - u * den = -(e * total[u])
    BY <1>1, <1>3
  <2>2. total[s] \in Int /\ total[u] \in Int
    BY <1>3, <1>4
  <2>3. e * total[s] \in Int /\ e * total[u] \in Int /\ s * den \in Int /\ u * den \in Int
    BY <1>3, <2>2, SMT
  <2>. QED
    BY <1>1, <2>1, <2>3, SMT
<1>8. s < below + 1 /\ below < u
  <2>1. s * den < (below + 1) * den
    BY <1>3, <1>6, <1>7, SMT
  <2>2. below * den < u * den
    BY <1>3, <1>6, <1>7, SMT
  <2>. QED
    BY <1>3, <1>6, <2>1, <2>2, Cancel
<1>9. below \in s..u /\ below + 1 \in s..u
  BY <1>3, <1>6, <1>8, SMT
<1>. DEFINE here == total[below]
            next == total[below + 1]
<1>10. here \in Int /\ next \in Int
  BY <1>4, <1>9
<1>11. next - here = k
  <2>1. total[s] \in Int
    BY <1>3, <1>4
  <2>2. here = total[s] + (below - s) * k /\ next = total[s] + ((below + 1) - s) * k
    BY <1>2, <1>9
  <2>. HIDE DEF here, next
  <2>. QED
    BY <1>3, <1>5, <1>6, <2>1, <2>2, SMT
<1>12. past = -(e * here)
  <2>1. num - below * den = -(e * here)
    BY <1>1, <1>9
  <2>. HIDE DEF here, next
  <2>. QED
    BY <1>6, <2>1, SMT
<1>13. past = 0 => here = 0
  <2>. HIDE DEF here, next
  <2>. QED
    BY <1>1, <1>10, <1>12, SMT
<1>14. here * den + (next - here) * past = 0
  <2>1. den = e * k /\ e \in Int /\ den \in Int
    BY <1>1
  <2>. HIDE DEF here, next
  <2>2. here * den + k * past = 0
    BY <1>5, <1>6, <1>10, <1>12, <2>1, SMT
  <2>. QED
    BY <1>11, <2>2
<1>15. crossing(segment)[1] = num /\ crossing(segment)[2] = den
  BY <1>1
<1>. QED
  BY <1>13, <1>14, <1>15 DEF below, past

\* Where a straight line changes between two Forwards, it crosses zero between
\* them, or is zero at an end of its segment that is one of them.
LEMMA ZeroOfASegment ==
  ASSUME LineInv, NEW segment \in Segments, NEW at \in Forwards, at + 1 \in Forwards,
         segment[1] <= at, at + 1 <= segment[2],
         total[at] * total[at + 1] <= 0, total[at] # total[at + 1]
  PROVE  \/ /\ total[segment[1]] * total[segment[2]] < 0
            /\ at * crossing(segment)[2] <= crossing(segment)[1]
            /\ crossing(segment)[1] <= (at + 1) * crossing(segment)[2]
         \/ segment[1] = at /\ total[at] = 0
         \/ segment[2] = at + 1 /\ total[at + 1] = 0
<1>. DEFINE s == segment[1]
            u == segment[2]
            k == total[s + 1] - total[s]
            first == total[s]
            final == total[u]
            here == total[at]
            next == total[at + 1]
<1>1. /\ s \in Forwards /\ u \in Forwards /\ s < u
      /\ \A x \in s..u : total[x] = first + (x - s) * k
  BY SegmentIsStraight
<1>2. /\ s \in Nat /\ u \in Nat /\ at \in Nat /\ s + 1 \in Forwards
      /\ at \in s..u /\ at + 1 \in s..u /\ u \in s..u
  BY <1>1, DomainAssumption, SMT DEF DomainAssumption, Forwards, Low
<1>3. /\ first \in Int /\ final \in Int /\ here \in Int /\ next \in Int /\ k \in Int
      /\ here = first + (at - s) * k /\ next = first + ((at + 1) - s) * k
      /\ final = first + (u - s) * k
  <2>1. /\ total[s] \in Int /\ total[u] \in Int /\ total[at] \in Int /\ total[at + 1] \in Int
        /\ total[s + 1] \in Int
    BY <1>1, <1>2 DEF LineInv, TypeOK
  <2>2. k \in Int
    BY <2>1
  <2>. QED
    BY <1>1, <1>2, <2>1, <2>2
<1>4. here * next <= 0 /\ here # next /\ s <= at /\ at + 1 <= u
  OBVIOUS
<1>5. CASE first * final < 0
  <2>1. PICK num \in Int, den \in Nat \ {0}, e \in Int :
          /\ crossing(segment) = <<num, den>> /\ den = e * k /\ e # 0
          /\ e * first < 0 /\ 0 < e * final
          /\ \A x \in s..u : num - x * den = -(e * total[x])
    BY <1>5, CrossingOfASegment
  <2>2. num - at * den = -(e * here) /\ num - (at + 1) * den = -(e * next)
    BY <1>2, <2>1
  <2>. HIDE DEF s, u, k, first, final, here, next
  <2>3. next - here = k
    BY <1>2, <1>3, SMT
  <2>4. e * here <= 0 /\ 0 <= e * next
    <3>1. 0 < e * k
      BY <2>1, SMT
    <3>2. (e > 0 /\ k > 0) \/ (e < 0 /\ k < 0)
      BY <1>3, <2>1, <3>1, SMT
    <3>3. CASE e > 0 /\ k > 0
      <4>1. here <= 0 /\ 0 <= next
        BY <1>3, <1>4, <2>3, <3>3, SMT
      <4>. QED
        BY <1>3, <3>3, <4>1, SMT
    <3>4. CASE e < 0 /\ k < 0
      <4>1. 0 <= here /\ next <= 0
        BY <1>3, <1>4, <2>3, <3>4, SMT
      <4>. QED
        BY <1>3, <3>4, <4>1, SMT
    <3>. QED
      BY <3>2, <3>3, <3>4
  <2>5. at * den <= num /\ num <= (at + 1) * den
    <3>1. /\ at * den \in Int /\ (at + 1) * den \in Int
          /\ e * here \in Int /\ e * next \in Int
      BY <1>2, <1>3, SMT
    <3>. QED
      BY <2>2, <2>4, <3>1, SMT
  <2>6. crossing(segment)[1] = num /\ crossing(segment)[2] = den
    BY <2>1
  <2>7. first * final < 0
    BY <1>5
  <2>. QED
    BY <2>5, <2>6, <2>7 DEF first, final, s, u
<1>6. CASE ~(first * final < 0)
  <2>. HIDE DEF s, u, k, first, final, here, next
  <2>1. next - here = k
    BY <1>2, <1>3, SMT
  <2>. DEFINE before == at - s
              after == u - (at + 1)
  <2>2. before \in Nat /\ after \in Nat
    BY <1>2, <1>4, SMT
  <2>3. here = first + before * k /\ final = next + after * k
    <3>1. u - s = ((at + 1) - s) + after
      BY <1>2, SMT
    <3>. QED
      BY <1>2, <1>3, <3>1, SMT
  <2>. HIDE DEF before, after
  <2>4. \/ k > 0 /\ first <= here /\ here <= 0 /\ 0 <= next /\ next <= final
        \/ k < 0 /\ here <= first /\ 0 <= here /\ next <= 0 /\ final <= next
    <3>1. k > 0 \/ k < 0
      BY <1>3, <1>4, <2>1, SMT
    <3>2. CASE k > 0
      <4>1. here <= 0 /\ 0 <= next
        BY <1>3, <1>4, <2>1, <3>2, SMT
      <4>. DEFINE run == before * k
                  rest == after * k
      <4>2. run \in Int /\ rest \in Int /\ 0 <= run /\ 0 <= rest
        BY <1>3, <2>2, <3>2, SMT
      <4>3. here = first + run /\ final = next + rest
        BY <2>3
      <4>. HIDE DEF run, rest
      <4>. QED
        BY <1>3, <3>2, <4>1, <4>2, <4>3, SMT
    <3>3. CASE k < 0
      <4>1. 0 <= here /\ next <= 0
        BY <1>3, <1>4, <2>1, <3>3, SMT
      <4>. DEFINE run == before * k
                  rest == after * k
      <4>2. run \in Int /\ rest \in Int /\ run <= 0 /\ rest <= 0
        BY <1>3, <2>2, <3>3, SMT
      <4>3. here = first + run /\ final = next + rest
        BY <2>3
      <4>. HIDE DEF run, rest
      <4>. QED
        BY <1>3, <3>3, <4>1, <4>2, <4>3, SMT
    <3>. QED
      BY <3>1, <3>2, <3>3
  <2>5. first = 0 \/ final = 0
    <3>1. (first <= 0 /\ 0 <= final) \/ (0 <= first /\ final <= 0)
      BY <1>3, <2>4, SMT
    <3>. QED
      BY <1>3, <1>6, <3>1, SMT
  <2>6. CASE first = 0
    <3>1. here = 0 /\ before * k = 0 /\ k # 0
      BY <1>3, <2>2, <2>3, <2>4, <2>6, SMT
    <3>2. before = 0
      BY <1>3, <2>2, <3>1, SMT
    <3>3. s = at
      BY <1>2, <3>2, SMT DEF before
    <3>. QED
      BY <3>1, <3>3 DEF s, here
  <2>7. CASE final = 0
    <3>1. next = 0 /\ after * k = 0 /\ k # 0
      <4>. DEFINE rest == after * k
      <4>1. rest \in Int /\ final = next + rest
        BY <1>3, <2>2, <2>3, SMT
      <4>. HIDE DEF rest
      <4>2. next = 0 /\ rest = 0 /\ k # 0
        BY <1>3, <2>4, <2>7, <4>1, SMT
      <4>. QED
        BY <4>2 DEF rest
    <3>2. after = 0
      BY <1>3, <2>2, <3>1, SMT
    <3>3. u = at + 1
      BY <1>2, <3>2, SMT DEF after
    <3>. QED
      BY <3>1, <3>3 DEF u, next
  <2>. QED
    BY <2>5, <2>6, <2>7
<1>. QED
  BY <1>5, <1>6

\* Every Breakeven listed is a zero of the line, and every Forward at which the
\* line crosses or touches zero is listed, whatever the Legs (breakevens).
THEOREM BreakevensAreAlwaysTheZeros == Spec => []BreakevensAreTheZeros
<1>. DEFINE Zero(point) ==
       LET below == point[1] \div point[2]
           past == point[1] % point[2]
       IN  IF past = 0 THEN total[below] = 0
           ELSE total[below] * point[2] + (total[below + 1] - total[below]) * past = 0
     Between(point, at) == at * point[2] <= point[1] /\ point[1] <= (at + 1) * point[2]
<1>1. ASSUME LineInv, NEW breakeven \in breakevens
      PROVE  Zero(breakeven)
  <2>1. CASE \E corner \in corners : total[corner] = 0 /\ breakeven = <<corner, 1>>
    <3>1. PICK corner \in corners : total[corner] = 0 /\ breakeven = <<corner, 1>>
      BY <2>1
    <3>2. corner \in Int
      BY <1>1, CornersInDomain, ForwardsType DEF LineInv
    <3>3. corner \div 1 = corner /\ corner % 1 = 0
      BY <3>2, SMT
    <3>4. breakeven[1] = corner /\ breakeven[2] = 1
      BY <3>1
    <3>5. breakeven[1] % breakeven[2] = 0 /\ total[breakeven[1] \div breakeven[2]] = 0
      BY <3>1, <3>3, <3>4
    <3>. QED
      BY <3>5
  <2>2. CASE \E segment \in Segments :
               total[segment[1]] * total[segment[2]] < 0 /\ breakeven = crossing(segment)
    <3>1. PICK segment \in Segments :
            total[segment[1]] * total[segment[2]] < 0 /\ breakeven = crossing(segment)
      BY <2>2
    <3>2. Zero(crossing(segment))
      BY <1>1, <3>1, CrossingIsAZero
    <3>. QED
      BY <3>1, <3>2
  <2>. QED
    BY <1>1, <2>1, <2>2 DEF breakevens
<1>2. ASSUME LineInv, NEW at \in Low..(High - 1), total[at] * total[at + 1] <= 0,
             total[at] # total[at + 1]
      PROVE  \E b \in breakevens : Between(b, at)
  <2>1. /\ at \in Forwards /\ at + 1 \in Forwards /\ at \in Int
        /\ at * 1 <= at /\ at <= (at + 1) * 1 /\ at * 1 <= at + 1 /\ at + 1 <= (at + 1) * 1
    BY DomainAssumption, SMT DEF DomainAssumption, Forwards, Low
  <2>2. TypeOK /\ NetPremiumIsTheCost
    BY <1>2 DEF LineInv
  <2>3. legs # <<>>
    <3>1. SUFFICES ASSUME legs = <<>>
                   PROVE  FALSE
      OBVIOUS
    <3>2. DOMAIN legs = {} /\ strikesOf = {}
      BY <3>1 DEF strikesOf
    <3>3. total[at] = -net_premium /\ total[at + 1] = -net_premium
      BY <2>1, <2>2, <3>2 DEF NetPremiumIsTheCost
    <3>. QED
      BY <1>2, <3>3
  <2>4. PICK segment \in Segments : segment[1] <= at /\ at + 1 <= segment[2]
    BY <2>2, InASegment
  <2>5. segment[1] \in corners /\ segment[2] \in corners
    BY DEF Segments
  <2>6. \/ total[segment[1]] * total[segment[2]] < 0 /\ Between(crossing(segment), at)
        \/ segment[1] = at /\ total[at] = 0
        \/ segment[2] = at + 1 /\ total[at + 1] = 0
    BY <1>2, <2>1, <2>4, ZeroOfASegment
  <2>7. CASE total[segment[1]] * total[segment[2]] < 0 /\ Between(crossing(segment), at)
    <3>1. crossing(segment) \in breakevens
      BY <2>3, <2>7 DEF breakevens
    <3>. QED
      BY <2>7, <3>1
  <2>8. CASE segment[1] = at /\ total[at] = 0
    <3>1. <<at, 1>> \in breakevens
      BY <2>3, <2>5, <2>8 DEF breakevens
    <3>2. Between(<<at, 1>>, at)
      BY <2>1
    <3>. QED
      BY <3>1, <3>2
  <2>9. CASE segment[2] = at + 1 /\ total[at + 1] = 0
    <3>1. <<at + 1, 1>> \in breakevens
      BY <2>3, <2>5, <2>9 DEF breakevens
    <3>2. Between(<<at + 1, 1>>, at)
      BY <2>1
    <3>. QED
      BY <3>1, <3>2
  <2>. QED
    BY <2>6, <2>7, <2>8, <2>9
<1>3. LineInv => BreakevensAreTheZeros
  BY <1>1, <1>2 DEF BreakevensAreTheZeros
<1>4. Init => LineInv
  BY LineInit
<1>5. LineInv /\ [Next]_vars => LineInv'
  BY LineStep
<1>. HIDE DEF Zero, Between
<1>. QED
  BY <1>3, <1>4, <1>5, PTL DEF Spec

------------------------------------------------------------------------------
(* The Presets. *)

Requests == [strike : Strikes, option_type : {"CE", "PE"}, direction : {1, -1}]

\* The five strikes a Preset may trade lie inside the domain.
LEMMA PresetStrikes ==
  /\ Centre \in Strikes /\ Centre - DEFAULT_WIDTH \in Strikes /\ Centre + DEFAULT_WIDTH \in Strikes
  /\ Centre - 2 * DEFAULT_WIDTH \in Strikes /\ Centre + 2 * DEFAULT_WIDTH \in Strikes
  /\ DEFAULT_WIDTH \in Nat \ {0} /\ Centre \in Nat /\ High \in Nat
  /\ 0 < Centre - 2 * DEFAULT_WIDTH /\ Centre + 2 * DEFAULT_WIDTH < High
<1>. DEFINE W == DEFAULT_WIDTH
<1>1. /\ -2 \in -2..2 /\ -1 \in -2..2 /\ 0 \in -2..2 /\ 1 \in -2..2 /\ 2 \in -2..2
  BY SMT
<1>2. /\ Centre + (-2) * W \in Strikes /\ Centre + (-1) * W \in Strikes
      /\ Centre + 0 * W \in Strikes /\ Centre + 1 * W \in Strikes /\ Centre + 2 * W \in Strikes
  BY <1>1, PresetAssumption
<1>3. /\ Centre + (-2) * W = Centre - 2 * W /\ Centre + (-1) * W = Centre - W
      /\ Centre + 0 * W = Centre /\ Centre + 1 * W = Centre + W
  BY PresetAssumption, SMT
<1>4. Centre - 2 * W \in Strikes /\ Centre + 2 * W \in Strikes
  BY <1>2, <1>3
<1>5. 0 < Centre - 2 * W /\ Centre + 2 * W < High
  BY <1>4, StrikeRoom
<1>. QED
  BY <1>2, <1>3, <1>5, PresetAssumption, DomainAssumption

\* A Preset asks for contracts of the artifact, whichever way it is held.
LEMMA PresetsAskForStrikes ==
  ASSUME NEW name \in PRESETS, NEW direction \in {1, -1}
  PROVE  build(name, Centre, DEFAULT_WIDTH, direction) \in Seq(Requests)
<1>. DEFINE W == DEFAULT_WIDTH
<1>1. /\ Centre \in Strikes /\ Centre - W \in Strikes /\ Centre + W \in Strikes
      /\ Centre - 2 * W \in Strikes /\ Centre + 2 * W \in Strikes
  BY PresetStrikes
<1>2. \A strike \in Strikes, type \in {"CE", "PE"}, way \in {1, -1} :
        leg(strike, type, way) \in Requests
  BY DEF leg, Requests
<1>3. \A way \in {1, -1} :
        /\ straddle(Centre, W, way) \in Seq(Requests)
        /\ strangle(Centre, W, way) \in Seq(Requests)
        /\ credit_spread(Centre, W, way) \in Seq(Requests)
        /\ iron_condor(Centre, W, way) \in Seq(Requests)
        /\ iron_fly(Centre, W, way) \in Seq(Requests)
  BY <1>1, <1>2 DEF straddle, strangle, credit_spread, iron_condor, iron_fly
<1>. QED
  BY <1>3 DEF build, BUILDERS, PRESETS

\* At prices free of arbitrage each is a Leg a trader could have picked.
LEMMA EnteredIsALeg ==
  ASSUME NEW request \in Requests, NEW prices \in NoArbitrage
  PROVE  entered(request, prices) \in Leg
<1>1. request.strike \in Strikes
  BY DEF Requests
<1>2. prices \in [Strikes -> Premiums] /\ last(request.strike, "PE", prices) \in Premiums
  BY <1>1 DEF NoArbitrage
<1>3. last(request.strike, request.option_type, prices) \in Premiums
  BY <1>1, <1>2 DEF last, Requests
<1>. QED
  BY <1>3, PresetAssumption DEF entered, Leg, Requests

PendingInv == pending \in Seq(Leg)

LEMMA PendingStep ==
  ASSUME PendingInv, [PresetNext]_presetVars
  PROVE  PendingInv' /\ [Next]_vars
<1>1. CASE PickPreset
  <2>1. UNCHANGED vars
    BY <1>1 DEF PickPreset
  <2>2. PICK name \in PRESETS, direction \in {1, -1}, prices \in NoArbitrage :
          LET built == build(name, Centre, DEFAULT_WIDTH, direction)
          IN  pending' = [i \in DOMAIN built |-> entered(built[i], prices)]
    BY <1>1 DEF PickPreset
  <2>. DEFINE built == build(name, Centre, DEFAULT_WIDTH, direction)
  <2>3. built \in Seq(Requests)
    BY PresetsAskForStrikes
  <2>. HIDE DEF built
  <2>4. \A i \in DOMAIN built : entered(built[i], prices) \in Leg
    BY <2>3, EnteredIsALeg
  <2>5. [i \in DOMAIN built |-> entered(built[i], prices)] \in Seq(Leg)
    BY <2>3, <2>4
  <2>. QED
    BY <2>1, <2>2, <2>5 DEF PendingInv, built
<1>2. CASE SumPreset
  <2>1. Head(pending) \in Leg /\ Tail(pending) \in Seq(Leg)
    BY <1>2 DEF SumPreset, PendingInv
  <2>. QED
    BY <1>2, <2>1 DEF SumPreset, PendingInv, Next
<1>3. CASE PickLeg
  <2>1. PICK picked \in Picked : Sum(picked)
    BY <1>3 DEF PickLeg
  <2>2. picked \in Leg
    BY PickedAssumption
  <2>. QED
    BY <1>3, <2>1, <2>2 DEF PickLeg, PendingInv, Next
<1>4. CASE UNCHANGED presetVars
  BY <1>4 DEF presetVars, PendingInv
<1>. QED
  BY <1>1, <1>2, <1>3, <1>4 DEF PresetNext

\* A Preset adds nothing to the engine: a list of Legs of its making is summed
\* as Legs picked by hand are, and all that holds of every Strategy holds of it
\* (presets.py: "This module adds no capability to the engine").
THEOREM PresetsAreStrategies == PresetSpec => Spec
<1>1. PresetInit => Init /\ PendingInv
  BY DEF PresetInit, PendingInv
<1>2. PendingInv /\ [PresetNext]_presetVars => PendingInv' /\ [Next]_vars
  BY PendingStep
<1>. QED
  BY <1>1, <1>2, PTL DEF PresetSpec, Spec

\* What a Leg adds to each of the three sums, and the sums with it.
Added(taken, at) == taken.direction * taken.quantity * (leg_payoff(at, taken) - taken.entry_premium)
CallsOf(taken) == IF taken.option_type = "CE" THEN taken.direction * taken.quantity ELSE 0
CostOf(taken) == taken.direction * taken.quantity * taken.entry_premium

Nothing == [line |-> [at \in Forwards |-> 0], slope |-> 0, cost |-> 0]
With(sums, taken) ==
  [line |-> [at \in Forwards |-> sums.line[at] + Added(taken, at)],
   slope |-> sums.slope + CallsOf(taken), cost |-> sums.cost + CostOf(taken)]

\* The three sums are what the Legs make of nothing, one after the other.
SumsInv ==
  \E running :
    /\ DOMAIN running = 0..Len(legs)
    /\ running[0] = Nothing
    /\ \A n \in 1..Len(legs) : running[n] = With(running[n - 1], legs[n])
    /\ running[Len(legs)] = [line |-> total, slope |-> call_slope, cost |-> net_premium]

LEMMA SumsStep ==
  ASSUME TypeOK, SumsInv, [Next]_vars
  PROVE  SumsInv'
<1>1. CASE UNCHANGED vars
  BY <1>1 DEF vars, SumsInv
<1>2. CASE Next
  <2>1. PICK taken \in Leg : Sum(taken)
    BY <1>2 DEF Next
  <2>2. PICK running :
          /\ DOMAIN running = 0..Len(legs)
          /\ running[0] = Nothing
          /\ \A n \in 1..Len(legs) : running[n] = With(running[n - 1], legs[n])
          /\ running[Len(legs)] = [line |-> total, slope |-> call_slope, cost |-> net_premium]
    BY DEF SumsInv
  <2>. DEFINE count == Len(legs)
              more == [n \in 0..(count + 1) |->
                         IF n <= count THEN running[n] ELSE With(running[count], taken)]
  <2>3. /\ count \in Nat /\ Len(legs') = count + 1
        /\ \A n \in 1..count : legs'[n] = legs[n]
        /\ legs'[count + 1] = taken
    BY <2>1 DEF Sum, TypeOK
  <2>4. With(running[count], taken) = [line |-> total', slope |-> call_slope', cost |-> net_premium']
    BY <2>1, <2>2 DEF Sum, With, Added, CallsOf, CostOf
  <2>5. DOMAIN more = 0..(count + 1)
    OBVIOUS
  <2>. HIDE DEF count
  <2>6. /\ 0 \in 0..(count + 1) /\ count + 1 \in 0..(count + 1)
        /\ 0 <= count /\ ~(count + 1 <= count)
    BY <2>3, SMT
  <2>7. more[0] = Nothing
    BY <2>2, <2>6
  <2>8. more[count + 1] = [line |-> total', slope |-> call_slope', cost |-> net_premium']
    BY <2>4, <2>6
  <2>9. ASSUME NEW n \in 1..(count + 1)
        PROVE  more[n] = With(more[n - 1], legs'[n])
    <3>1. n - 1 \in 0..(count + 1) /\ n - 1 <= count /\ n \in 0..(count + 1)
      BY <2>3, SMT
    <3>2. more[n - 1] = running[n - 1]
      BY <3>1
    <3>3. CASE n = count + 1
      <4>1. more[n] = With(running[count], taken) /\ n - 1 = count
        BY <2>3, <2>6, <3>3
      <4>. HIDE DEF more
      <4>. QED
        BY <2>3, <3>2, <3>3, <4>1
    <3>4. CASE n # count + 1
      <4>1. n \in 1..count /\ n <= count
        BY <2>3, <3>4, SMT
      <4>2. more[n] = running[n] /\ legs'[n] = legs[n]
        BY <2>3, <3>1, <4>1
      <4>3. running[n] = With(running[n - 1], legs[n])
        BY <2>2, <4>1 DEF count
      <4>. HIDE DEF more
      <4>. QED
        BY <3>2, <4>2, <4>3
    <3>. QED
      BY <3>3, <3>4
  <2>. HIDE DEF more
  <2>. QED
    BY <2>3, <2>5, <2>7, <2>8, <2>9 DEF SumsInv
<1>. QED
  BY <1>1, <1>2

\* The Legs of a Preset, as they are entered at the prices picked.
Entries(name, direction) ==
  LET built == build(name, Centre, DEFAULT_WIDTH, direction)
  IN  [i \in DOMAIN built |-> entered(built[i], calls)]

\* What is summed and what is still to be summed are the Preset's Legs.
ShapeInv ==
  /\ preset \in PRESETS \cup {"none"}
  /\ preset = "none" => pending = <<>>
  /\ preset # "none" =>
       /\ calls \in NoArbitrage
       /\ \E direction \in {1, -1} : legs \o pending = Entries(preset, direction)

PresetInv == LineInv /\ PendingInv /\ SumsInv /\ ShapeInv

LEMMA PresetInitInv ==
  ASSUME PresetInit
  PROVE  PresetInv
<1>1. Init /\ preset = "none" /\ pending = <<>>
  BY DEF PresetInit
<1>2. LineInv
  BY <1>1, LineInit
<1>3. SumsInv
  <2>. DEFINE running == [n \in 0..0 |-> Nothing]
  <2>1. Len(legs) = 0 /\ 0 \in 0..0 /\ 1..0 = {}
    BY <1>1, SMT DEF Init
  <2>2. Nothing = [line |-> total, slope |-> call_slope, cost |-> net_premium]
    BY <1>1 DEF Init, Nothing
  <2>3. /\ DOMAIN running = 0..0 /\ running[0] = Nothing
        /\ \A n \in 1..0 : running[n] = With(running[n - 1], legs[n])
    BY <2>1
  <2>. HIDE DEF running
  <2>. QED
    BY <2>1, <2>2, <2>3 DEF SumsInv
<1>. QED
  BY <1>1, <1>2, <1>3 DEF PresetInv, PendingInv, ShapeInv

LEMMA ShapeStep ==
  ASSUME TypeOK, PendingInv, ShapeInv, [PresetNext]_presetVars
  PROVE  ShapeInv'
<1>1. CASE PickPreset
  <2>1. legs' = <<>>
    BY <1>1 DEF PickPreset, vars
  <2>2. PICK name \in PRESETS, direction \in {1, -1}, prices \in NoArbitrage :
          LET built == build(name, Centre, DEFAULT_WIDTH, direction)
          IN  /\ preset' = name
              /\ calls' = prices
              /\ pending' = [i \in DOMAIN built |-> entered(built[i], prices)]
    BY <1>1 DEF PickPreset
  <2>3. pending' = Entries(name, direction)'
    <3>. DEFINE built == build(name, Centre, DEFAULT_WIDTH, direction)
    <3>1. pending' = [i \in DOMAIN built |-> entered(built[i], prices)]
      BY <2>2
    <3>2. Entries(name, direction)' = [i \in DOMAIN built |-> entered(built[i], calls')]
      BY DEF Entries, entered, last, build, BUILDERS, straddle, strangle, credit_spread,
             iron_condor, iron_fly, leg
    <3>. QED
      BY <2>2, <3>1, <3>2
  <2>4. pending' \in Seq(Leg)
    BY <1>1, PendingStep DEF PendingInv
  <2>5. legs' \o pending' = pending'
    BY <2>1, <2>4
  <2>6. name # "none"
    BY DEF PRESETS
  <2>. QED
    BY <2>2, <2>3, <2>5, <2>6 DEF ShapeInv
<1>2. CASE SumPreset
  <2>1. /\ pending # <<>> /\ legs' = Append(legs, Head(pending)) /\ pending' = Tail(pending)
        /\ preset' = preset /\ calls' = calls
    BY <1>2 DEF SumPreset, Sum
  <2>2. legs' \o pending' = legs \o pending
    BY <2>1, SMT DEF TypeOK, PendingInv
  <2>. QED
    BY <2>1, <2>2 DEF ShapeInv, Entries, entered, last
<1>3. CASE PickLeg
  BY <1>3 DEF PickLeg, ShapeInv
<1>4. CASE UNCHANGED presetVars
  BY <1>4 DEF presetVars, vars, ShapeInv, Entries, entered, last
<1>. QED
  BY <1>1, <1>2, <1>3, <1>4 DEF PresetNext

LEMMA PresetStep ==
  ASSUME PresetInv, [PresetNext]_presetVars
  PROVE  PresetInv'
<1>1. TypeOK /\ LineInv /\ PendingInv /\ SumsInv /\ ShapeInv
  BY DEF PresetInv, LineInv
<1>2. PendingInv' /\ [Next]_vars
  BY <1>1, PendingStep
<1>. QED
  BY <1>1, <1>2, LineStep, SumsStep, ShapeStep DEF PresetInv

THEOREM AlwaysPresetInv == PresetSpec => []PresetInv
<1>1. PresetInit => PresetInv
  BY PresetInitInv
<1>2. PresetInv /\ [PresetNext]_presetVars => PresetInv'
  BY PresetStep
<1>. QED
  BY <1>1, <1>2, PTL DEF PresetSpec

\* What a Leg asked for is worth at a Forward, and what it costs, with the sign
\* of the side it is on.
WorthOf(request, at) ==
  request.direction * intrinsic_value(at, request.strike, request.option_type)
PriceOf(request) == request.direction * last(request.strike, request.option_type, calls)
SlopeOf(request) == IF request.option_type = "CE" THEN request.direction ELSE 0

\* A Leg entered at the prices picked adds its Payoff, its price taken off.
LEMMA EnteredAdds ==
  ASSUME calls \in NoArbitrage, NEW request \in Requests
  PROVE  LET taken == entered(request, calls)
         IN  /\ \A at \in Forwards : /\ WorthOf(request, at) \in Int
                                     /\ Added(taken, at) = WorthOf(request, at) - PriceOf(request)
             /\ CallsOf(taken) = SlopeOf(request) /\ SlopeOf(request) \in Int
             /\ CostOf(taken) = PriceOf(request) /\ PriceOf(request) \in Int
             /\ taken.strike = request.strike
<1>. DEFINE taken == entered(request, calls)
            price == last(request.strike, request.option_type, calls)
            direction == request.direction
            Value(at) == intrinsic_value(at, request.strike, request.option_type)
<1>1. taken \in Leg
  BY EnteredIsALeg
<1>2. /\ taken.strike = request.strike /\ taken.option_type = request.option_type
      /\ taken.direction = direction /\ taken.quantity = 1 /\ taken.entry_premium = price
  BY DEF entered
<1>3. direction * 1 = direction /\ direction \in Int
  <2>1. direction \in {1, -1}
    BY DEF Requests
  <2>. HIDE DEF direction
  <2>. QED
    BY <2>1, SMT
<1>4. /\ \A at \in Forwards : leg_payoff(at, taken) = Value(at) /\ Value(at) \in Int
      /\ price \in Int
  <2>. HIDE DEF taken
  <2>. QED
    BY <1>1, <1>2, PayoffIsExact, PayoffType, LegType
<1>. HIDE DEF taken, price, direction, Value
<1>5. direction * price \in Int /\ \A at \in Forwards : direction * Value(at) \in Int
  BY <1>3, <1>4, SMT
<1>6. \A at \in Forwards : Added(taken, at) = direction * Value(at) - direction * price
  <2>1. \A at \in Forwards : Added(taken, at) = direction * (Value(at) - price)
    BY <1>2, <1>3, <1>4 DEF Added
  <2>2. \A v \in Int : direction * (v - price) = direction * v - direction * price
    BY <1>3, <1>4, SMT
  <2>. QED
    BY <1>4, <2>1, <2>2
<1>7. CallsOf(taken) = IF request.option_type = "CE" THEN direction ELSE 0
  BY <1>2, <1>3 DEF CallsOf
<1>8. CostOf(taken) = direction * price
  BY <1>2, <1>3 DEF CostOf
<1>. QED
  BY <1>2, <1>3, <1>5, <1>6, <1>7, <1>8
     DEF taken, price, direction, Value, WorthOf, PriceOf, SlopeOf

\* A Preset built is the list of its Legs.
LEMMA BuiltLegs ==
  ASSUME PresetInv, NEW name \in PRESETS, Built(name)
  PROVE  calls \in NoArbitrage /\ \E direction \in {1, -1} : legs = Entries(name, direction)
<1>1. preset = name /\ pending = <<>> /\ name # "none"
  BY DEF Built, PRESETS
<1>2. legs \o pending = legs
  BY <1>1 DEF PresetInv, LineInv, TypeOK
<1>. QED
  BY <1>1, <1>2 DEF PresetInv, ShapeInv

\* What two Legs, and four, make of the line.
LEMMA TwoLegs ==
  ASSUME PresetInv, calls \in NoArbitrage,
         NEW r1 \in Requests, NEW r2 \in Requests,
         legs = <<entered(r1, calls), entered(r2, calls)>>
  PROVE  /\ net_premium = PriceOf(r1) + PriceOf(r2)
         /\ call_slope = SlopeOf(r1) + SlopeOf(r2)
         /\ strikesOf = {r1.strike, r2.strike}
         /\ \A at \in Forwards :
              total[at] = WorthOf(r1, at) + WorthOf(r2, at) - net_premium
<1>. DEFINE l1 == entered(r1, calls)
            l2 == entered(r2, calls)
<1>1. /\ \A at \in Forwards : /\ WorthOf(r1, at) \in Int
                              /\ Added(l1, at) = WorthOf(r1, at) - PriceOf(r1)
      /\ CallsOf(l1) = SlopeOf(r1) /\ SlopeOf(r1) \in Int
      /\ CostOf(l1) = PriceOf(r1) /\ PriceOf(r1) \in Int
      /\ l1.strike = r1.strike
  BY EnteredAdds
<1>2. /\ \A at \in Forwards : /\ WorthOf(r2, at) \in Int
                              /\ Added(l2, at) = WorthOf(r2, at) - PriceOf(r2)
      /\ CallsOf(l2) = SlopeOf(r2) /\ SlopeOf(r2) \in Int
      /\ CostOf(l2) = PriceOf(r2) /\ PriceOf(r2) \in Int
      /\ l2.strike = r2.strike
  BY EnteredAdds
<1>3. legs = <<l1, l2>>
  OBVIOUS
<1>. HIDE DEF l1, l2
<1>4. /\ Len(legs) = 2 /\ DOMAIN legs = {1, 2}
      /\ legs[1] = l1 /\ legs[2] = l2
  <2>1. 1..2 = {1, 2}
    BY SMT
  <2>. QED
    BY <1>3, <2>1
<1>5. PICK running :
        /\ DOMAIN running = 0..2
        /\ running[0] = Nothing
        /\ \A n \in 1..2 : running[n] = With(running[n - 1], legs[n])
        /\ running[2] = [line |-> total, slope |-> call_slope, cost |-> net_premium]
  BY <1>4 DEF PresetInv, SumsInv
<1>6. /\ running[1] = With(Nothing, l1)
      /\ running[2] = With(running[1], l2)
  <2>1. 1 \in 1..2 /\ 1 - 1 = 0 /\ 2 \in 1..2 /\ 2 - 1 = 1
    BY SMT
  <2>. QED
    BY <1>4, <1>5, <2>1
<1>7. /\ \A at \in Forwards :
           total[at] = (0 + Added(l1, at)) + Added(l2, at)
      /\ call_slope = (0 + CallsOf(l1)) + CallsOf(l2)
      /\ net_premium = (0 + CostOf(l1)) + CostOf(l2)
  <2>. DEFINE sums == With(With(Nothing, l1), l2)
  <2>1. [line |-> total, slope |-> call_slope, cost |-> net_premium] = sums
    BY <1>5, <1>6
  <2>2. total = sums.line /\ call_slope = sums.slope /\ net_premium = sums.cost
    <3>. HIDE DEF sums
    <3>. QED
      BY <2>1
  <2>. QED
    BY <2>2 DEF With, Nothing
<1>8. net_premium = PriceOf(r1) + PriceOf(r2) /\ call_slope = SlopeOf(r1) + SlopeOf(r2)
  BY <1>1, <1>2, <1>7
<1>9. strikesOf = {r1.strike, r2.strike}
  BY <1>1, <1>2, <1>4 DEF strikesOf
<1>10. \A at \in Forwards : total[at] = WorthOf(r1, at) + WorthOf(r2, at) - net_premium
  BY <1>1, <1>2, <1>7, <1>8, SMT
<1>. QED
  BY <1>8, <1>9, <1>10

LEMMA FourLegs ==
  ASSUME PresetInv, calls \in NoArbitrage,
         NEW r1 \in Requests, NEW r2 \in Requests,
         NEW r3 \in Requests, NEW r4 \in Requests,
         legs = <<entered(r1, calls), entered(r2, calls), entered(r3, calls), entered(r4, calls)>>
  PROVE  /\ net_premium = PriceOf(r1) + PriceOf(r2) + PriceOf(r3) + PriceOf(r4)
         /\ call_slope = SlopeOf(r1) + SlopeOf(r2) + SlopeOf(r3) + SlopeOf(r4)
         /\ strikesOf = {r1.strike, r2.strike, r3.strike, r4.strike}
         /\ \A at \in Forwards :
              total[at] = WorthOf(r1, at) + WorthOf(r2, at) + WorthOf(r3, at) + WorthOf(r4, at) - net_premium
<1>. DEFINE l1 == entered(r1, calls)
            l2 == entered(r2, calls)
            l3 == entered(r3, calls)
            l4 == entered(r4, calls)
<1>1. /\ \A at \in Forwards : /\ WorthOf(r1, at) \in Int
                              /\ Added(l1, at) = WorthOf(r1, at) - PriceOf(r1)
      /\ CallsOf(l1) = SlopeOf(r1) /\ SlopeOf(r1) \in Int
      /\ CostOf(l1) = PriceOf(r1) /\ PriceOf(r1) \in Int
      /\ l1.strike = r1.strike
  BY EnteredAdds
<1>2. /\ \A at \in Forwards : /\ WorthOf(r2, at) \in Int
                              /\ Added(l2, at) = WorthOf(r2, at) - PriceOf(r2)
      /\ CallsOf(l2) = SlopeOf(r2) /\ SlopeOf(r2) \in Int
      /\ CostOf(l2) = PriceOf(r2) /\ PriceOf(r2) \in Int
      /\ l2.strike = r2.strike
  BY EnteredAdds
<1>3. /\ \A at \in Forwards : /\ WorthOf(r3, at) \in Int
                              /\ Added(l3, at) = WorthOf(r3, at) - PriceOf(r3)
      /\ CallsOf(l3) = SlopeOf(r3) /\ SlopeOf(r3) \in Int
      /\ CostOf(l3) = PriceOf(r3) /\ PriceOf(r3) \in Int
      /\ l3.strike = r3.strike
  BY EnteredAdds
<1>4. /\ \A at \in Forwards : /\ WorthOf(r4, at) \in Int
                              /\ Added(l4, at) = WorthOf(r4, at) - PriceOf(r4)
      /\ CallsOf(l4) = SlopeOf(r4) /\ SlopeOf(r4) \in Int
      /\ CostOf(l4) = PriceOf(r4) /\ PriceOf(r4) \in Int
      /\ l4.strike = r4.strike
  BY EnteredAdds
<1>5. legs = <<l1, l2, l3, l4>>
  OBVIOUS
<1>. HIDE DEF l1, l2, l3, l4
<1>6. /\ Len(legs) = 4 /\ DOMAIN legs = {1, 2, 3, 4}
      /\ legs[1] = l1 /\ legs[2] = l2 /\ legs[3] = l3 /\ legs[4] = l4
  <2>1. 1..4 = {1, 2, 3, 4}
    BY SMT
  <2>. QED
    BY <1>5, <2>1
<1>7. PICK running :
        /\ DOMAIN running = 0..4
        /\ running[0] = Nothing
        /\ \A n \in 1..4 : running[n] = With(running[n - 1], legs[n])
        /\ running[4] = [line |-> total, slope |-> call_slope, cost |-> net_premium]
  BY <1>6 DEF PresetInv, SumsInv
<1>8. /\ running[1] = With(Nothing, l1)
      /\ running[2] = With(running[1], l2)
      /\ running[3] = With(running[2], l3)
      /\ running[4] = With(running[3], l4)
  <2>1. /\ 1 \in 1..4 /\ 1 - 1 = 0
        /\ 2 \in 1..4 /\ 2 - 1 = 1
        /\ 3 \in 1..4 /\ 3 - 1 = 2
        /\ 4 \in 1..4 /\ 4 - 1 = 3
    BY SMT
  <2>. QED
    BY <1>6, <1>7, <2>1
<1>9. /\ \A at \in Forwards :
           total[at] = (((0 + Added(l1, at)) + Added(l2, at)) + Added(l3, at)) + Added(l4, at)
      /\ call_slope = (((0 + CallsOf(l1)) + CallsOf(l2)) + CallsOf(l3)) + CallsOf(l4)
      /\ net_premium = (((0 + CostOf(l1)) + CostOf(l2)) + CostOf(l3)) + CostOf(l4)
  <2>. DEFINE sums == With(With(With(With(Nothing, l1), l2), l3), l4)
  <2>1. [line |-> total, slope |-> call_slope, cost |-> net_premium] = sums
    BY <1>7, <1>8
  <2>2. total = sums.line /\ call_slope = sums.slope /\ net_premium = sums.cost
    <3>. HIDE DEF sums
    <3>. QED
      BY <2>1
  <2>. QED
    BY <2>2 DEF With, Nothing
<1>10. net_premium = PriceOf(r1) + PriceOf(r2) + PriceOf(r3) + PriceOf(r4) /\ call_slope = SlopeOf(r1) + SlopeOf(r2) + SlopeOf(r3) + SlopeOf(r4)
  BY <1>1, <1>2, <1>3, <1>4, <1>9
<1>11. strikesOf = {r1.strike, r2.strike, r3.strike, r4.strike}
  BY <1>1, <1>2, <1>3, <1>4, <1>6 DEF strikesOf
<1>12. \A at \in Forwards : total[at] = WorthOf(r1, at) + WorthOf(r2, at) + WorthOf(r3, at) + WorthOf(r4, at) - net_premium
  BY <1>1, <1>2, <1>3, <1>4, <1>9, <1>10, SMT
<1>. QED
  BY <1>10, <1>11, <1>12

\* What an option is worth at a Forward, either kind.
LEMMA Worth ==
  ASSUME NEW at \in Int, NEW strike \in Int
  PROVE  /\ intrinsic_value(at, strike, "CE") = IF strike < at THEN at - strike ELSE 0
         /\ intrinsic_value(at, strike, "PE") = IF at < strike THEN strike - at ELSE 0
BY SMT DEF intrinsic_value

\* The condor, the fly and the credit spread: their Legs, and their line as the
\* width lost of it and the credit kept.
LEMMA CondorLine ==
  ASSUME PresetInv, Built("iron_condor")
  PROVE  /\ call_slope = 0 /\ net_premium \in Int
         /\ {Centre - DEFAULT_WIDTH, Centre - 2 * DEFAULT_WIDTH} \subseteq strikesOf
         /\ \A at \in Forwards : /\ total[at] <= -net_premium
                                 /\ -net_premium - DEFAULT_WIDTH <= total[at]
         /\ total[Centre - DEFAULT_WIDTH] = -net_premium
         /\ total[Centre - 2 * DEFAULT_WIDTH] = -net_premium - DEFAULT_WIDTH
<1>. DEFINE W == DEFAULT_WIDTH
            a == Centre - 2 * W
            b == Centre - W
            c == Centre + W
            d == Centre + 2 * W
<1>1. "iron_condor" \in PRESETS
  BY DEF PRESETS
<1>2. PICK direction \in {1, -1} : legs = Entries("iron_condor", direction)
  BY <1>1, BuiltLegs
<1>3. calls \in NoArbitrage
  BY <1>1, BuiltLegs
<1>4. legs = <<entered(leg(b, "PE", -1), calls), entered(leg(a, "PE", 1), calls),
               entered(leg(c, "CE", -1), calls), entered(leg(d, "CE", 1), calls)>>
  <2>1. build("iron_condor", Centre, W, direction) = iron_condor(Centre, W, direction)
    BY DEF build, BUILDERS
  <2>. QED
    BY <1>2, <2>1 DEF Entries, iron_condor
<1>5. /\ a \in Strikes /\ b \in Strikes /\ c \in Strikes /\ d \in Strikes
      /\ W \in Int /\ 0 < W /\ Centre \in Int
  BY PresetStrikes
<1>6. /\ call_slope = 0 + 0 + -1 + 1
      /\ strikesOf = {b, a, c, d}
      /\ \A at \in Forwards :
           total[at] = (-1) * intrinsic_value(at, b, "PE") + 1 * intrinsic_value(at, a, "PE")
                         + (-1) * intrinsic_value(at, c, "CE") + 1 * intrinsic_value(at, d, "CE")
                         - net_premium
  <2>. HIDE DEF a, b, c, d
  <2>. DEFINE r1 == leg(b, "PE", -1)
              r2 == leg(a, "PE", 1)
              r3 == leg(c, "CE", -1)
              r4 == leg(d, "CE", 1)
  <2>1. r1 \in Requests /\ r2 \in Requests /\ r3 \in Requests /\ r4 \in Requests
    BY <1>5 DEF Requests, leg
  <2>2. /\ r1.strike = b /\ PriceOf(r1) = (-1) * last(b, "PE", calls) /\ SlopeOf(r1) = 0
        /\ \A at \in Forwards : WorthOf(r1, at) = (-1) * intrinsic_value(at, b, "PE")
        /\ r2.strike = a /\ PriceOf(r2) = 1 * last(a, "PE", calls) /\ SlopeOf(r2) = 0
        /\ \A at \in Forwards : WorthOf(r2, at) = 1 * intrinsic_value(at, a, "PE")
        /\ r3.strike = c /\ PriceOf(r3) = (-1) * last(c, "CE", calls) /\ SlopeOf(r3) = -1
        /\ \A at \in Forwards : WorthOf(r3, at) = (-1) * intrinsic_value(at, c, "CE")
        /\ r4.strike = d /\ PriceOf(r4) = 1 * last(d, "CE", calls) /\ SlopeOf(r4) = 1
        /\ \A at \in Forwards : WorthOf(r4, at) = 1 * intrinsic_value(at, d, "CE")
    BY DEF leg, PriceOf, SlopeOf, WorthOf
  <2>3. legs = <<entered(r1, calls), entered(r2, calls), entered(r3, calls), entered(r4, calls)>>
    BY <1>4
  <2>. HIDE DEF r1, r2, r3, r4
  <2>4. /\ net_premium = PriceOf(r1) + PriceOf(r2) + PriceOf(r3) + PriceOf(r4)
        /\ call_slope = SlopeOf(r1) + SlopeOf(r2) + SlopeOf(r3) + SlopeOf(r4)
        /\ strikesOf = {r1.strike, r2.strike, r3.strike, r4.strike}
        /\ \A at \in Forwards :
             total[at] = WorthOf(r1, at) + WorthOf(r2, at) + WorthOf(r3, at) + WorthOf(r4, at) - net_premium
    BY <1>3, <2>1, <2>3, FourLegs
  <2>. QED
    BY <2>2, <2>4
<1>7. net_premium \in Int
  BY DEF PresetInv, LineInv, TypeOK
<1>8. ASSUME NEW at \in Forwards
      PROVE  /\ total[at] <= -net_premium /\ -net_premium - W <= total[at]
             /\ at = b => total[at] = -net_premium
             /\ at = a => total[at] = -net_premium - W
  <2>1. at \in Int
    BY ForwardsType
  <2>2. /\ intrinsic_value(at, b, "PE") = IF at < b THEN b - at ELSE 0
        /\ intrinsic_value(at, a, "PE") = IF at < a THEN a - at ELSE 0
        /\ intrinsic_value(at, c, "CE") = IF c < at THEN at - c ELSE 0
        /\ intrinsic_value(at, d, "CE") = IF d < at THEN at - d ELSE 0
    BY <1>5, <2>1, Worth
  <2>. DEFINE pb == intrinsic_value(at, b, "PE")
              pa == intrinsic_value(at, a, "PE")
              cc == intrinsic_value(at, c, "CE")
              cd == intrinsic_value(at, d, "CE")
  <2>3. total[at] = (-1) * pb + 1 * pa + (-1) * cc + 1 * cd - net_premium
    BY <1>6
  <2>4. pb \in Int /\ pa \in Int /\ cc \in Int /\ cd \in Int
    BY <1>5, <2>1, <2>2, SMT
  <2>. HIDE DEF pb, pa, cc, cd
  <2>5. /\ pb = IF at < b THEN b - at ELSE 0
        /\ pa = IF at < a THEN a - at ELSE 0
        /\ cc = IF c < at THEN at - c ELSE 0
        /\ cd = IF d < at THEN at - d ELSE 0
    BY <2>2 DEF pb, pa, cc, cd
  <2>. QED
    BY <1>5, <1>7, <2>1, <2>3, <2>4, <2>5, SMT
<1>9. a \in Forwards /\ b \in Forwards
  BY <1>5, StrikeRoom
<1>10. call_slope = 0
  BY <1>6, SMT
<1>. QED
  BY <1>6, <1>7, <1>8, <1>9, <1>10

LEMMA FlyLine ==
  ASSUME PresetInv, Built("iron_fly")
  PROVE  /\ call_slope = 0 /\ net_premium \in Int
         /\ {Centre, Centre - DEFAULT_WIDTH} \subseteq strikesOf
         /\ \A at \in Forwards : /\ total[at] <= -net_premium
                                 /\ -net_premium - DEFAULT_WIDTH <= total[at]
         /\ total[Centre] = -net_premium
         /\ total[Centre - DEFAULT_WIDTH] = -net_premium - DEFAULT_WIDTH
         /\ \A at \in Forwards :
              total[at] > -DEFAULT_WIDTH - net_premium =>
                Centre - DEFAULT_WIDTH < at /\ at < Centre + DEFAULT_WIDTH
         /\ net_premium = (-1) * last(Centre, "CE", calls) + (-1) * last(Centre, "PE", calls)
                            + 1 * last(Centre + DEFAULT_WIDTH, "CE", calls)
                            + 1 * last(Centre - DEFAULT_WIDTH, "PE", calls)
<1>. DEFINE W == DEFAULT_WIDTH
            k == Centre
            b == Centre - W
            c == Centre + W
<1>1. "iron_fly" \in PRESETS
  BY DEF PRESETS
<1>2. PICK direction \in {1, -1} : legs = Entries("iron_fly", direction)
  BY <1>1, BuiltLegs
<1>3. calls \in NoArbitrage
  BY <1>1, BuiltLegs
<1>4. legs = <<entered(leg(k, "CE", -1), calls), entered(leg(k, "PE", -1), calls),
               entered(leg(c, "CE", 1), calls), entered(leg(b, "PE", 1), calls)>>
  <2>1. build("iron_fly", Centre, W, direction) = iron_fly(Centre, W, direction)
    BY DEF build, BUILDERS
  <2>. QED
    BY <1>2, <2>1 DEF Entries, iron_fly
<1>5. /\ k \in Strikes /\ b \in Strikes /\ c \in Strikes
      /\ W \in Int /\ 0 < W /\ Centre \in Int
  BY PresetStrikes
<1>6. /\ net_premium = (-1) * last(k, "CE", calls) + (-1) * last(k, "PE", calls)
                         + 1 * last(c, "CE", calls) + 1 * last(b, "PE", calls)
      /\ call_slope = -1 + 0 + 1 + 0
      /\ strikesOf = {k, k, c, b}
      /\ \A at \in Forwards :
           total[at] = (-1) * intrinsic_value(at, k, "CE") + (-1) * intrinsic_value(at, k, "PE")
                         + 1 * intrinsic_value(at, c, "CE") + 1 * intrinsic_value(at, b, "PE")
                         - net_premium
  <2>. HIDE DEF k, b, c
  <2>. DEFINE r1 == leg(k, "CE", -1)
              r2 == leg(k, "PE", -1)
              r3 == leg(c, "CE", 1)
              r4 == leg(b, "PE", 1)
  <2>1. r1 \in Requests /\ r2 \in Requests /\ r3 \in Requests /\ r4 \in Requests
    BY <1>5 DEF Requests, leg
  <2>2. /\ r1.strike = k /\ PriceOf(r1) = (-1) * last(k, "CE", calls) /\ SlopeOf(r1) = -1
        /\ \A at \in Forwards : WorthOf(r1, at) = (-1) * intrinsic_value(at, k, "CE")
        /\ r2.strike = k /\ PriceOf(r2) = (-1) * last(k, "PE", calls) /\ SlopeOf(r2) = 0
        /\ \A at \in Forwards : WorthOf(r2, at) = (-1) * intrinsic_value(at, k, "PE")
        /\ r3.strike = c /\ PriceOf(r3) = 1 * last(c, "CE", calls) /\ SlopeOf(r3) = 1
        /\ \A at \in Forwards : WorthOf(r3, at) = 1 * intrinsic_value(at, c, "CE")
        /\ r4.strike = b /\ PriceOf(r4) = 1 * last(b, "PE", calls) /\ SlopeOf(r4) = 0
        /\ \A at \in Forwards : WorthOf(r4, at) = 1 * intrinsic_value(at, b, "PE")
    BY DEF leg, PriceOf, SlopeOf, WorthOf
  <2>3. legs = <<entered(r1, calls), entered(r2, calls), entered(r3, calls), entered(r4, calls)>>
    BY <1>4
  <2>. HIDE DEF r1, r2, r3, r4
  <2>4. /\ net_premium = PriceOf(r1) + PriceOf(r2) + PriceOf(r3) + PriceOf(r4)
        /\ call_slope = SlopeOf(r1) + SlopeOf(r2) + SlopeOf(r3) + SlopeOf(r4)
        /\ strikesOf = {r1.strike, r2.strike, r3.strike, r4.strike}
        /\ \A at \in Forwards :
             total[at] = WorthOf(r1, at) + WorthOf(r2, at) + WorthOf(r3, at) + WorthOf(r4, at) - net_premium
    BY <1>3, <2>1, <2>3, FourLegs
  <2>. QED
    BY <2>2, <2>4
<1>7. net_premium \in Int
  BY DEF PresetInv, LineInv, TypeOK
<1>8. ASSUME NEW at \in Forwards
      PROVE  /\ total[at] <= -net_premium /\ -net_premium - W <= total[at]
             /\ at = k => total[at] = -net_premium
             /\ at = b => total[at] = -net_premium - W
             /\ total[at] > -W - net_premium => b < at /\ at < c
  <2>1. at \in Int
    BY ForwardsType
  <2>. DEFINE kc == intrinsic_value(at, k, "CE")
              kp == intrinsic_value(at, k, "PE")
              cc == intrinsic_value(at, c, "CE")
              bp == intrinsic_value(at, b, "PE")
  <2>2. /\ kc = IF k < at THEN at - k ELSE 0
        /\ kp = IF at < k THEN k - at ELSE 0
        /\ cc = IF c < at THEN at - c ELSE 0
        /\ bp = IF at < b THEN b - at ELSE 0
    BY <1>5, <2>1, Worth
  <2>3. total[at] = (-1) * kc + (-1) * kp + 1 * cc + 1 * bp - net_premium
    BY <1>6
  <2>. HIDE DEF kc, kp, cc, bp
  <2>4. kc \in Int /\ kp \in Int /\ cc \in Int /\ bp \in Int
    BY <1>5, <2>1, <2>2, SMT
  <2>. QED
    BY <1>5, <1>7, <2>1, <2>2, <2>3, <2>4, SMT
<1>9. k \in Forwards /\ b \in Forwards
  BY <1>5, StrikeRoom
<1>10. call_slope = 0
  BY <1>6, SMT
<1>. QED
  BY <1>6, <1>7, <1>8, <1>9, <1>10

LEMMA CreditSpreadLine ==
  ASSUME PresetInv, Built("credit_spread")
  PROVE  /\ call_slope = 0 /\ net_premium \in Int
         /\ strikesOf = {Centre, Centre - DEFAULT_WIDTH}
         /\ \A at \in Forwards : /\ total[at] <= -net_premium
                                 /\ -net_premium - DEFAULT_WIDTH <= total[at]
                                 /\ Centre <= at => total[at] = -net_premium
                                 /\ at <= Centre - DEFAULT_WIDTH =>
                                      total[at] = -net_premium - DEFAULT_WIDTH
<1>. DEFINE W == DEFAULT_WIDTH
            k == Centre
            b == Centre - W
<1>1. "credit_spread" \in PRESETS
  BY DEF PRESETS
<1>2. PICK direction \in {1, -1} : legs = Entries("credit_spread", direction)
  BY <1>1, BuiltLegs
<1>3. calls \in NoArbitrage
  BY <1>1, BuiltLegs
<1>4. legs = <<entered(leg(k, "PE", -1), calls), entered(leg(b, "PE", 1), calls)>>
  <2>1. build("credit_spread", Centre, W, direction) = credit_spread(Centre, W, direction)
    BY DEF build, BUILDERS
  <2>. QED
    BY <1>2, <2>1 DEF Entries, credit_spread
<1>5. k \in Strikes /\ b \in Strikes /\ W \in Int /\ 0 < W /\ Centre \in Int
  BY PresetStrikes
<1>6. /\ call_slope = 0 + 0
      /\ strikesOf = {k, b}
      /\ \A at \in Forwards :
           total[at] = (-1) * intrinsic_value(at, k, "PE") + 1 * intrinsic_value(at, b, "PE")
                         - net_premium
  <2>. HIDE DEF k, b
  <2>. DEFINE r1 == leg(k, "PE", -1)
              r2 == leg(b, "PE", 1)
  <2>1. r1 \in Requests /\ r2 \in Requests
    BY <1>5 DEF Requests, leg
  <2>2. /\ r1.strike = k /\ PriceOf(r1) = (-1) * last(k, "PE", calls) /\ SlopeOf(r1) = 0
        /\ \A at \in Forwards : WorthOf(r1, at) = (-1) * intrinsic_value(at, k, "PE")
        /\ r2.strike = b /\ PriceOf(r2) = 1 * last(b, "PE", calls) /\ SlopeOf(r2) = 0
        /\ \A at \in Forwards : WorthOf(r2, at) = 1 * intrinsic_value(at, b, "PE")
    BY DEF leg, PriceOf, SlopeOf, WorthOf
  <2>3. legs = <<entered(r1, calls), entered(r2, calls)>>
    BY <1>4
  <2>. HIDE DEF r1, r2
  <2>4. /\ net_premium = PriceOf(r1) + PriceOf(r2)
        /\ call_slope = SlopeOf(r1) + SlopeOf(r2)
        /\ strikesOf = {r1.strike, r2.strike}
        /\ \A at \in Forwards :
             total[at] = WorthOf(r1, at) + WorthOf(r2, at) - net_premium
    BY <1>3, <2>1, <2>3, TwoLegs
  <2>. QED
    BY <2>2, <2>4
<1>7. net_premium \in Int
  BY DEF PresetInv, LineInv, TypeOK
<1>8. ASSUME NEW at \in Forwards
      PROVE  /\ total[at] <= -net_premium /\ -net_premium - W <= total[at]
             /\ k <= at => total[at] = -net_premium
             /\ at <= b => total[at] = -net_premium - W
  <2>1. at \in Int
    BY ForwardsType
  <2>. DEFINE kp == intrinsic_value(at, k, "PE")
              bp == intrinsic_value(at, b, "PE")
  <2>2. /\ kp = IF at < k THEN k - at ELSE 0
        /\ bp = IF at < b THEN b - at ELSE 0
    BY <1>5, <2>1, Worth
  <2>3. total[at] = (-1) * kp + 1 * bp - net_premium
    BY <1>6
  <2>. HIDE DEF kp, bp
  <2>4. kp \in Int /\ bp \in Int
    BY <1>5, <2>1, <2>2, SMT
  <2>. QED
    BY <1>5, <1>7, <2>1, <2>2, <2>3, <2>4, SMT
<1>9. call_slope = 0
  BY <1>6, SMT
<1>. QED
  BY <1>6, <1>7, <1>8, <1>9

\* A line within two heights, both of them reached at a strike, has those two
\* as its extrema when nothing runs away.
LEMMA CappedExtrema ==
  ASSUME LineInv, call_slope = 0, NEW best \in Int, NEW worst \in Int,
         \A at \in Forwards : total[at] <= best /\ worst <= total[at],
         NEW top \in strikesOf, total[top] = best,
         NEW bottom \in strikesOf, total[bottom] = worst
  PROVE  max_profit = {best} /\ max_loss = {worst}
<1>1. corners \in SUBSET Forwards /\ top \in corners /\ bottom \in corners
  BY CornersInDomain DEF LineInv, corners
<1>2. /\ best \in pnlAtCorners /\ worst \in pnlAtCorners
      /\ \A value \in pnlAtCorners : value \in Int /\ value <= best /\ worst <= value
  <2>1. \A at \in Forwards : total[at] \in Int
    BY DEF LineInv, TypeOK
  <2>. QED
    BY <1>1, <2>1 DEF pnlAtCorners
<1>3. ~(call_slope > 0) /\ ~(call_slope < 0)
  BY SMT
<1>4. greatest(pnlAtCorners) = {best}
  <2>1. best \in greatest(pnlAtCorners)
    BY <1>2 DEF greatest
  <2>2. ASSUME NEW value \in greatest(pnlAtCorners)
        PROVE  value = best
    <3>1. value \in Int /\ value <= best /\ best <= value
      BY <1>2 DEF greatest
    <3>. QED
      BY <3>1, SMT
  <2>. QED
    BY <2>1, <2>2
<1>5. least(pnlAtCorners) = {worst}
  <2>1. worst \in least(pnlAtCorners)
    BY <1>2 DEF least
  <2>2. ASSUME NEW value \in least(pnlAtCorners)
        PROVE  value = worst
    <3>1. value \in Int /\ value <= worst /\ worst <= value
      BY <1>2 DEF least
    <3>. QED
      BY <3>1, SMT
  <2>. QED
    BY <2>1, <2>2
<1>. QED
  BY <1>3, <1>4, <1>5 DEF max_profit, max_loss, unboundedUpside, unboundedDownside

\* The bought wings cap what a condor, a fly or a credit spread can lose at the
\* width of one wing less the credit, and what it gains is the credit, whichever
\* way it was asked for, at whatever prices and strikes (presets.py).
THEOREM WingsAlwaysCapTheLoss == PresetSpec => []WingsCapTheLoss
<1>. DEFINE Capped == max_profit = {-net_premium} /\ max_loss = {-net_premium - DEFAULT_WIDTH}
<1>1. ASSUME PresetInv, NEW top \in strikesOf, NEW bottom \in strikesOf,
             call_slope = 0, net_premium \in Int,
             total[top] = -net_premium, total[bottom] = -net_premium - DEFAULT_WIDTH,
             \A at \in Forwards : /\ total[at] <= -net_premium
                                  /\ -net_premium - DEFAULT_WIDTH <= total[at]
      PROVE  Capped
  <2>. DEFINE best == -net_premium
              worst == -net_premium - DEFAULT_WIDTH
  <2>1. best \in Int /\ worst \in Int
    BY <1>1, PresetStrikes, SMT
  <2>2. /\ total[top] = best /\ total[bottom] = worst
        /\ \A at \in Forwards : total[at] <= best /\ worst <= total[at]
    BY <1>1
  <2>. HIDE DEF best, worst
  <2>3. max_profit = {best} /\ max_loss = {worst}
    BY <1>1, <2>1, <2>2, CappedExtrema DEF PresetInv
  <2>. QED
    BY <2>3 DEF best, worst
<1>2. ASSUME PresetInv, Built("iron_condor")
      PROVE  Capped
  BY <1>1, <1>2, CondorLine
<1>3. ASSUME PresetInv, Built("iron_fly")
      PROVE  Capped
  BY <1>1, <1>3, FlyLine
<1>4. ASSUME PresetInv, Built("credit_spread")
      PROVE  Capped
  <2>1. /\ Centre \in Forwards /\ Centre - DEFAULT_WIDTH \in Forwards
        /\ Centre <= Centre /\ Centre - DEFAULT_WIDTH <= Centre - DEFAULT_WIDTH
    <3>1. Centre \in Forwards /\ Centre - DEFAULT_WIDTH \in Forwards
      BY PresetStrikes, StrikeRoom
    <3>. QED
      BY <3>1, ForwardsType, SMT
  <2>. QED
    BY <1>1, <1>4, <2>1, CreditSpreadLine
<1>5. PresetInv => WingsCapTheLoss
  BY <1>2, <1>3, <1>4 DEF WingsCapTheLoss
<1>. QED
  BY <1>5, AlwaysPresetInv, PTL

\* A line as high at every strike crosses zero outside all of them.
LEMMA OutsideTheStrikes ==
  ASSUME LineInv, legs # <<>>, NEW height \in Int, height # 0,
         \A strike \in strikesOf : total[strike] = height,
         NEW breakeven \in breakevens
  PROVE  \/ \A strike \in strikesOf : breakeven[1] < strike * breakeven[2]
         \/ \A strike \in strikesOf : breakeven[1] > strike * breakeven[2]
<1>1. Low = 0 /\ High \in Nat
  BY DomainAssumption DEF Low
<1>2. \A strike \in strikesOf : strike \in Int /\ 0 < strike /\ strike < High
  BY TradedStrike, StrikeRoom DEF LineInv
<1>3. CASE \E corner \in corners : total[corner] = 0 /\ breakeven = <<corner, 1>>
  <2>1. PICK corner \in corners : total[corner] = 0 /\ breakeven = <<corner, 1>>
    BY <1>3
  <2>2. corner = 0 \/ corner = High
    BY <1>1, <2>1 DEF corners
  <2>3. breakeven[1] = corner /\ breakeven[2] = 1
    BY <2>1
  <2>4. \A strike \in strikesOf : strike * 1 = strike
    BY <1>2, SMT
  <2>5. CASE corner = 0
    BY <1>2, <2>3, <2>4, <2>5
  <2>6. CASE corner = High
    BY <1>1, <1>2, <2>3, <2>4, <2>6, SMT
  <2>. QED
    BY <2>2, <2>5, <2>6
<1>4. CASE \E segment \in Segments :
             total[segment[1]] * total[segment[2]] < 0 /\ breakeven = crossing(segment)
  <2>1. PICK segment \in Segments :
          total[segment[1]] * total[segment[2]] < 0 /\ breakeven = crossing(segment)
    BY <1>4
  <2>. DEFINE s == segment[1]
              u == segment[2]
  <2>2. /\ s \in corners /\ u \in corners /\ s < u
        /\ ~\E corner \in corners : s < corner /\ corner < u
    BY DEF Segments
  <2>3. s \in Nat /\ u \in Nat /\ s <= High /\ u <= High /\ s \in s..u /\ u \in s..u
    <3>1. s \in Nat /\ u \in Nat /\ s <= High /\ u <= High
      BY SegmentIsStraight, ForwardsType
    <3>. QED
      BY <2>2, <3>1, SMT
  <2>4. PICK num \in Int, den \in Nat \ {0}, e \in Int :
          /\ crossing(segment) = <<num, den>> /\ e * total[s] < 0 /\ 0 < e * total[u]
          /\ \A x \in s..u : num - x * den = -(e * total[x])
    BY <2>1, CrossingOfASegment
  <2>5. breakeven[1] = num /\ breakeven[2] = den
    BY <2>1, <2>4
  <2>6. total[s] \in Int /\ total[u] \in Int
    BY SegmentIsStraight DEF LineInv, TypeOK
  <2>7. s * den < num /\ num < u * den
    <3>1. num - s * den = -(e * total[s]) /\ num - u * den = -(e * total[u])
      BY <2>3, <2>4
    <3>. DEFINE high == e * total[u]
                low == e * total[s]
                left == s * den
                right == u * den
    <3>2. high \in Int /\ low \in Int /\ left \in Int /\ right \in Int
      <4>1. \A x, y \in Int : x * y \in Int
        BY SMT
      <4>. QED
        BY <2>3, <2>6, <4>1
    <3>3. num - left = -low /\ num - right = -high /\ low < 0 /\ 0 < high
      BY <2>4, <3>1
    <3>. HIDE DEF high, low, left, right
    <3>4. left < num /\ num < right
      BY <3>2, <3>3, SMT
    <3>. QED
      BY <3>4 DEF left, right
  <2>8. s \notin strikesOf \/ u \notin strikesOf
    <3>1. ~(height * height < 0)
      BY SMT
    <3>. QED
      BY <2>1, <3>1
  <2>. HIDE DEF s, u
  <2>9. s = 0 \/ u = High
    <3>1. s \in strikesOf \cup {0, High} /\ u \in strikesOf \cup {0, High}
      BY <1>1, <2>2 DEF corners
    <3>. QED
      BY <1>1, <2>2, <2>3, <2>8, <3>1, SMT
  <2>10. CASE s = 0
    <3>1. ASSUME NEW strike \in strikesOf
          PROVE  num < strike * den
      <4>1. ~(strike < u) /\ strike \in Int
        BY <1>2, <2>2, <2>10 DEF corners
      <4>2. u * den <= strike * den
        BY <2>3, <4>1, SMT
      <4>3. u * den \in Int /\ strike * den \in Int
        BY <2>3, <4>1, SMT
      <4>. QED
        BY <2>7, <4>2, <4>3, SMT
    <3>. QED
      BY <2>5, <3>1
  <2>11. CASE u = High
    <3>1. ASSUME NEW strike \in strikesOf
          PROVE  num > strike * den
      <4>1. ~(s < strike) /\ strike \in Int
        BY <1>2, <2>2, <2>11 DEF corners
      <4>2. strike * den <= s * den
        BY <2>3, <4>1, SMT
      <4>3. s * den \in Int /\ strike * den \in Int
        BY <2>3, <4>1, SMT
      <4>. QED
        BY <2>7, <4>2, <4>3, SMT
    <3>. QED
      BY <2>5, <3>1
  <2>. QED
    BY <2>9, <2>10, <2>11
<1>. QED
  BY <1>3, <1>4 DEF breakevens

\* Between the strikes of a strangle, and at that of a straddle, both Legs are
\* worthless and the premium is all there is.
LEMMA StrangleAtItsStrikes ==
  ASSUME PresetInv, Built("strangle") \/ Built("straddle")
  PROVE  /\ legs # <<>> /\ net_premium \in Int
         /\ \A strike \in strikesOf : total[strike] = -net_premium
<1>. DEFINE W == DEFAULT_WIDTH
            k == Centre
            b == Centre - W
            c == Centre + W
<1>1. net_premium \in Int
  BY DEF PresetInv, LineInv, TypeOK
<1>2. /\ k \in Strikes /\ b \in Strikes /\ c \in Strikes
      /\ k \in Forwards /\ b \in Forwards /\ c \in Forwards
      /\ W \in Int /\ 0 < W /\ k \in Int
  BY PresetStrikes, StrikeRoom
<1>3. \A direction \in {1, -1} : direction * 0 = 0
  BY SMT
<1>4. 0 + 0 - net_premium = -net_premium
  BY <1>1, SMT
<1>5. CASE Built("strangle")
  <2>1. "strangle" \in PRESETS
    BY DEF PRESETS
  <2>2. PICK direction \in {1, -1} : legs = Entries("strangle", direction)
    BY <1>5, <2>1, BuiltLegs
  <2>3. calls \in NoArbitrage
    BY <1>5, <2>1, BuiltLegs
  <2>. DEFINE r1 == leg(c, "CE", direction)
              r2 == leg(b, "PE", direction)
  <2>4. legs = <<entered(r1, calls), entered(r2, calls)>>
    <3>1. build("strangle", Centre, W, direction) = strangle(Centre, W, direction)
      BY DEF build, BUILDERS
    <3>. QED
      BY <2>2, <3>1 DEF Entries, strangle
  <2>5. r1 \in Requests /\ r2 \in Requests
    BY <1>2 DEF Requests, leg
  <2>6. /\ intrinsic_value(c, c, "CE") = 0 /\ intrinsic_value(b, c, "CE") = 0
        /\ intrinsic_value(c, b, "PE") = 0 /\ intrinsic_value(b, b, "PE") = 0
    BY <1>2, SMT DEF intrinsic_value
  <2>7. /\ r1.strike = c /\ r2.strike = b
        /\ WorthOf(r1, c) = 0 /\ WorthOf(r1, b) = 0 /\ WorthOf(r2, c) = 0 /\ WorthOf(r2, b) = 0
    BY <1>3, <2>6 DEF leg, WorthOf
  <2>. HIDE DEF r1, r2, b, c
  <2>8. /\ strikesOf = {r1.strike, r2.strike}
        /\ \A at \in Forwards : total[at] = WorthOf(r1, at) + WorthOf(r2, at) - net_premium
    BY <2>3, <2>4, <2>5, TwoLegs
  <2>. QED
    BY <1>1, <1>2, <1>4, <2>4, <2>7, <2>8
<1>6. CASE Built("straddle")
  <2>1. "straddle" \in PRESETS
    BY DEF PRESETS
  <2>2. PICK direction \in {1, -1} : legs = Entries("straddle", direction)
    BY <1>6, <2>1, BuiltLegs
  <2>3. calls \in NoArbitrage
    BY <1>6, <2>1, BuiltLegs
  <2>. DEFINE r1 == leg(k, "CE", direction)
              r2 == leg(k, "PE", direction)
  <2>4. legs = <<entered(r1, calls), entered(r2, calls)>>
    <3>1. build("straddle", Centre, W, direction) = straddle(Centre, W, direction)
      BY DEF build, BUILDERS
    <3>. QED
      BY <2>2, <3>1 DEF Entries, straddle
  <2>5. r1 \in Requests /\ r2 \in Requests
    BY <1>2 DEF Requests, leg
  <2>6. intrinsic_value(k, k, "CE") = 0 /\ intrinsic_value(k, k, "PE") = 0
    BY <1>2, SMT DEF intrinsic_value
  <2>7. r1.strike = k /\ r2.strike = k /\ WorthOf(r1, k) = 0 /\ WorthOf(r2, k) = 0
    BY <1>3, <2>6 DEF leg, WorthOf
  <2>. HIDE DEF r1, r2, k
  <2>8. /\ strikesOf = {r1.strike, r2.strike}
        /\ \A at \in Forwards : total[at] = WorthOf(r1, at) + WorthOf(r2, at) - net_premium
    BY <2>3, <2>4, <2>5, TwoLegs
  <2>. QED
    BY <1>1, <1>2, <1>4, <2>4, <2>7, <2>8
<1>. QED
  BY <1>5, <1>6

\* A credit spread paid less than its width up front crosses zero once, between
\* its two strikes.
LEMMA SpreadCrossesOnce ==
  ASSUME PresetInv, Built("credit_spread"), -net_premium \in 1..(DEFAULT_WIDTH - 1)
  PROVE  \E only \in breakevens :
           /\ breakevens = {only}
           /\ (Centre - DEFAULT_WIDTH) * only[2] < only[1] /\ only[1] < Centre * only[2]
<1>. DEFINE W == DEFAULT_WIDTH
            k == Centre
            b == Centre - W
            pair == <<b, k>>
<1>1. /\ strikesOf = {k, b} /\ net_premium \in Int
      /\ \A at \in Forwards : /\ k <= at => total[at] = -net_premium
                              /\ at <= b => total[at] = -net_premium - W
  BY CreditSpreadLine
<1>2. /\ k \in Forwards /\ b \in Forwards /\ k \in Int /\ b \in Int /\ W \in Int
      /\ 0 < b /\ b < k /\ k < High /\ High \in Nat /\ Low = 0
      /\ 0 \in Forwards /\ High \in Forwards
  <2>1. k \in Strikes /\ b \in Strikes /\ W \in Nat \ {0} /\ k \in Nat
    BY PresetStrikes
  <2>2. /\ k \in Forwards /\ b \in Forwards /\ 0 < b /\ k < High
    BY <2>1, StrikeRoom
  <2>3. b < k /\ b \in Int /\ W \in Int
    BY <2>1, SMT
  <2>4. High \in Nat /\ Low = 0 /\ 0 \in Forwards /\ High \in Forwards
    BY DomainAssumption, SMT DEF Low, Forwards
  <2>. QED
    BY <2>1, <2>2, <2>3, <2>4
<1>3. corners = {0, b, k, High}
  BY <1>1, <1>2 DEF corners
<1>. HIDE DEF b, k
<1>4. /\ total[0] < 0 /\ total[b] < 0 /\ total[k] > 0 /\ total[High] > 0
      /\ total[0] \in Int /\ total[b] \in Int /\ total[k] \in Int /\ total[High] \in Int
  <2>1. 0 <= b /\ b <= b /\ k <= k /\ k <= High
    BY <1>2, SMT
  <2>2. /\ total[0] = -net_premium - W /\ total[b] = -net_premium - W
        /\ total[k] = -net_premium /\ total[High] = -net_premium
    BY <1>1, <1>2, <2>1
  <2>3. /\ -net_premium - W < 0 /\ -net_premium > 0
        /\ -net_premium - W \in Int /\ -net_premium \in Int
    BY <1>1, <1>2, SMT
  <2>. QED
    BY <2>2, <2>3
<1>5. pair \in Segments /\ total[pair[1]] * total[pair[2]] < 0
  <2>1. pair[1] = b /\ pair[2] = k /\ pair \in corners \X corners
    BY <1>3
  <2>2. ~\E corner \in corners : b < corner /\ corner < k
    BY <1>2, <1>3, SMT
  <2>3. total[b] * total[k] < 0
    <3>. DEFINE x == total[b]
                y == total[k]
    <3>1. x \in Int /\ y \in Int /\ x < 0 /\ y > 0
      BY <1>4
    <3>. HIDE DEF x, y
    <3>2. x * y < 0
      BY <3>1, SMT
    <3>. QED
      BY <3>2 DEF x, y
  <2>. QED
    BY <1>2, <2>1, <2>2, <2>3 DEF Segments
<1>6. ASSUME NEW segment \in Segments, total[segment[1]] * total[segment[2]] < 0
      PROVE  segment = pair
  <2>. DEFINE s == segment[1]
              u == segment[2]
  <2>1. /\ s \in {0, b, k, High} /\ u \in {0, b, k, High} /\ s < u /\ segment = <<s, u>>
        /\ ~\E corner \in corners : s < corner /\ corner < u
    BY <1>3 DEF Segments
  <2>2. total[s] * total[u] < 0
    BY <1>6
  <2>. HIDE DEF s, u
  <2>3. (s = 0 /\ u = b) \/ (s = b /\ u = k) \/ (s = k /\ u = High)
    <3>1. ~(s < b /\ b < u) /\ ~(s < k /\ k < u)
      BY <1>3, <2>1
    <3>. QED
      BY <1>2, <2>1, <3>1, SMT
  <2>4. \A x, y \in Int : (x < 0 /\ y < 0) \/ (x > 0 /\ y > 0) => ~(x * y < 0)
    BY SMT
  <2>5. ~(s = 0 /\ u = b) /\ ~(s = k /\ u = High)
    BY <1>4, <2>2, <2>4
  <2>. QED
    BY <2>1, <2>3, <2>5
<1>7. legs # <<>>
  <2>1. SUFFICES ASSUME legs = <<>>
                 PROVE  FALSE
    OBVIOUS
  <2>2. strikesOf = {}
    BY <2>1 DEF strikesOf
  <2>. QED
    BY <1>1, <2>2
<1>8. \A corner \in corners : total[corner] # 0
  BY <1>3, <1>4
<1>9. breakevens = {crossing(pair)}
  <2>. HIDE DEF pair
  <2>. QED
    BY <1>5, <1>6, <1>7, <1>8 DEF breakevens
<1>10. PICK num \in Int, den \in Nat \ {0}, e \in Int :
         /\ crossing(pair) = <<num, den>>
         /\ e * total[pair[1]] < 0 /\ 0 < e * total[pair[2]]
         /\ \A x \in pair[1]..pair[2] : num - x * den = -(e * total[x])
  <2>1. LineInv
    BY DEF PresetInv
  <2>. HIDE DEF pair
  <2>. QED
    BY <1>5, <2>1, CrossingOfASegment
<1>11. b * den < num /\ num < k * den
  <2>1. pair[1] = b /\ pair[2] = k /\ b \in b..k /\ k \in b..k
    BY <1>2, SMT
  <2>2. /\ e * total[b] < 0 /\ 0 < e * total[k]
        /\ num - b * den = -(e * total[b]) /\ num - k * den = -(e * total[k])
    BY <1>10, <2>1
  <2>. DEFINE x == e * total[b]
              y == e * total[k]
              left == b * den
              right == k * den
  <2>3. x \in Int /\ y \in Int /\ left \in Int /\ right \in Int
    BY <1>2, <1>4, SMT
  <2>4. x < 0 /\ 0 < y /\ num - left = -x /\ num - right = -y
    BY <2>2
  <2>. HIDE DEF x, y, left, right
  <2>5. left < num /\ num < right
    BY <2>3, <2>4, SMT
  <2>. QED
    BY <2>5 DEF left, right
<1>12. crossing(pair)[1] = num /\ crossing(pair)[2] = den
  BY <1>10
<1>. QED
  BY <1>9, <1>11, <1>12 DEF b, k

\* What four Legs asked for would be received for.
LEMMA CreditOfFour ==
  ASSUME NEW r1, NEW r2, NEW r3, NEW r4,
         PriceOf(r1) \in Int, PriceOf(r2) \in Int, PriceOf(r3) \in Int, PriceOf(r4) \in Int
  PROVE  CreditOf(<<r1, r2, r3, r4>>)
           = -(PriceOf(r1) + PriceOf(r2) + PriceOf(r3) + PriceOf(r4))
<1>. DEFINE requests == <<r1, r2, r3, r4>>
            step(f) == [n \in 0..Len(requests) |->
                          IF n = 0 THEN 0
                          ELSE f[n - 1] + requests[n].direction
                                            * entered(requests[n], calls).entry_premium]
            paid == CHOOSE f : f = step(f)
            p1 == PriceOf(r1)
            p2 == PriceOf(r2)
            p3 == PriceOf(r3)
            p4 == PriceOf(r4)
            sums == [n \in 0..4 |-> IF n = 0 THEN 0 ELSE IF n = 1 THEN p1
                                    ELSE IF n = 2 THEN p1 + p2
                                    ELSE IF n = 3 THEN p1 + p2 + p3 ELSE p1 + p2 + p3 + p4]
<1>1. /\ Len(requests) = 4 /\ requests[1] = r1 /\ requests[2] = r2
      /\ requests[3] = r3 /\ requests[4] = r4
  OBVIOUS
<1>2. \A n \in 1..4 :
        requests[n].direction * entered(requests[n], calls).entry_premium = PriceOf(requests[n])
  BY DEF entered, PriceOf
<1>3. p1 \in Int /\ p2 \in Int /\ p3 \in Int /\ p4 \in Int
  OBVIOUS
<1>4. /\ PriceOf(requests[1]) = p1 /\ PriceOf(requests[2]) = p2
      /\ PriceOf(requests[3]) = p3 /\ PriceOf(requests[4]) = p4
  OBVIOUS
<1>. HIDE DEF requests, p1, p2, p3, p4
<1>5. sums = step(sums)
  <2>1. ASSUME NEW n \in 0..4
        PROVE  sums[n] = IF n = 0 THEN 0
                         ELSE sums[n - 1] + requests[n].direction
                                              * entered(requests[n], calls).entry_premium
    <3>1. n \in {0, 1, 2, 3, 4}
      BY SMT
    <3>2. /\ sums[0] = 0 /\ sums[1] = p1 /\ sums[2] = p1 + p2 /\ sums[3] = p1 + p2 + p3
          /\ sums[4] = p1 + p2 + p3 + p4
      BY SMT
    <3>3. /\ 1 \in 1..4 /\ 2 \in 1..4 /\ 3 \in 1..4 /\ 4 \in 1..4
          /\ 1 - 1 = 0 /\ 2 - 1 = 1 /\ 3 - 1 = 2 /\ 4 - 1 = 3 /\ 0 + p1 = p1
      BY <1>3, SMT
    <3>. HIDE DEF sums
    <3>. QED
      BY <1>2, <1>4, <3>1, <3>2, <3>3
  <2>. HIDE DEF sums
  <2>2. sums = [n \in 0..4 |-> sums[n]]
    BY DEF sums
  <2>. QED
    BY <1>1, <2>1, <2>2
<1>. HIDE DEF sums
<1>6. paid = step(paid)
  <2>. HIDE DEF step
  <2>. QED
    BY <1>5, Zenon
<1>. HIDE DEF paid
<1>7. /\ paid[0] = 0 /\ paid[1] = paid[0] + p1 /\ paid[2] = paid[1] + p2
      /\ paid[3] = paid[2] + p3 /\ paid[4] = paid[3] + p4
  <2>1. /\ 0 \in 0..4 /\ 1 \in 0..4 /\ 2 \in 0..4 /\ 3 \in 0..4 /\ 4 \in 0..4
        /\ 1 \in 1..4 /\ 2 \in 1..4 /\ 3 \in 1..4 /\ 4 \in 1..4
        /\ 1 - 1 = 0 /\ 2 - 1 = 1 /\ 3 - 1 = 2 /\ 4 - 1 = 3
    BY SMT
  <2>2. \A n \in 0..4 :
          paid[n] = IF n = 0 THEN 0
                    ELSE paid[n - 1] + requests[n].direction
                                         * entered(requests[n], calls).entry_premium
    BY <1>1, <1>6
  <2>. QED
    BY <1>2, <1>4, <2>1, <2>2
<1>8. paid[4] = p1 + p2 + p3 + p4
  BY <1>3, <1>7, SMT
<1>9. CreditOf(requests) = -paid[Len(requests)]
  BY DEF CreditOf, paid
<1>. QED
  BY <1>1, <1>8, <1>9 DEF requests, p1, p2, p3, p4

\* The fly collects no less than the condor at the same width: its sold straddle
\* is dearer than the sold strangle by what two butterflies are worth, one about
\* each inner strike, and no butterfly is worth less than nothing.
LEMMA FlyCollectsMore ==
  ASSUME PresetInv, Built("iron_fly")
  PROVE  -net_premium >= CreditOf(iron_condor(Centre, DEFAULT_WIDTH, 1))
<1>. DEFINE W == DEFAULT_WIDTH
            k == Centre
            a == Centre - 2 * W
            b == Centre - W
            c == Centre + W
            d == Centre + 2 * W
<1>1. calls \in NoArbitrage
  BY BuiltLegs DEF PRESETS
<1>2. /\ a \in Strikes /\ b \in Strikes /\ k \in Strikes /\ c \in Strikes /\ d \in Strikes
      /\ W \in Int /\ 0 < W /\ k \in Int
  BY PresetStrikes
<1>3. /\ a \in Int /\ b \in Int /\ c \in Int /\ d \in Int
      /\ a < b /\ b < k /\ k < c /\ c < d
      /\ b - a = W /\ k - b = W /\ c - k = W /\ d - c = W
  BY <1>2, SMT
<1>4. /\ calls[a] \in Int /\ calls[b] \in Int /\ calls[k] \in Int /\ calls[c] \in Int
      /\ calls[d] \in Int /\ Forward \in Int
  <2>1. calls \in [Strikes -> Premiums]
    BY <1>1 DEF NoArbitrage
  <2>2. \A strike \in Strikes : calls[strike] \in Int
    BY <2>1, TradesAssumption
  <2>3. Forward \in Int
    BY FrameAssumption
  <2>. HIDE DEF a, b, c, d, k
  <2>. QED
    BY <1>2, <2>2, <2>3
<1>5. /\ last(k, "CE", calls) = calls[k] /\ last(k, "PE", calls) = calls[k] + k - Forward
      /\ last(c, "CE", calls) = calls[c] /\ last(b, "PE", calls) = calls[b] + b - Forward
      /\ last(d, "CE", calls) = calls[d] /\ last(a, "PE", calls) = calls[a] + a - Forward
  BY DEF last
<1>6. net_premium = (-1) * last(k, "CE", calls) + (-1) * last(k, "PE", calls)
                      + 1 * last(c, "CE", calls) + 1 * last(b, "PE", calls)
  BY FlyLine
<1>7. /\ (calls[b] - calls[k]) * (b - a) <= (calls[a] - calls[b]) * (k - b)
      /\ (calls[c] - calls[d]) * (c - k) <= (calls[k] - calls[c]) * (d - c)
  BY <1>1, <1>2, <1>3 DEF NoArbitrage
<1>. DEFINE r1 == leg(b, "PE", -1)
            r2 == leg(a, "PE", 1)
            r3 == leg(c, "CE", -1)
            r4 == leg(d, "CE", 1)
<1>8. /\ PriceOf(r1) = (-1) * last(b, "PE", calls) /\ PriceOf(r2) = 1 * last(a, "PE", calls)
      /\ PriceOf(r3) = (-1) * last(c, "CE", calls) /\ PriceOf(r4) = 1 * last(d, "CE", calls)
  BY DEF PriceOf, leg
<1>9. iron_condor(Centre, W, 1) = <<r1, r2, r3, r4>>
  BY DEF iron_condor
<1>. DEFINE ca == calls[a]
            cb == calls[b]
            ck == calls[k]
            cc == calls[c]
            cd == calls[d]
<1>10. /\ net_premium = (-1) * ck + (-1) * (ck + k - Forward) + 1 * cc + 1 * (cb + b - Forward)
       /\ PriceOf(r1) = (-1) * (cb + b - Forward) /\ PriceOf(r2) = 1 * (ca + a - Forward)
       /\ PriceOf(r3) = (-1) * cc /\ PriceOf(r4) = 1 * cd
       /\ (cb - ck) * W <= (ca - cb) * W /\ (cc - cd) * W <= (ck - cc) * W
       /\ ca \in Int /\ cb \in Int /\ ck \in Int /\ cc \in Int /\ cd \in Int
  BY <1>3, <1>4, <1>5, <1>6, <1>7, <1>8
<1>. HIDE DEF a, b, c, d, k, ca, cb, ck, cc, cd, r1, r2, r3, r4
<1>11. /\ PriceOf(r1) \in Int /\ PriceOf(r2) \in Int /\ PriceOf(r3) \in Int /\ PriceOf(r4) \in Int
  BY <1>3, <1>4, <1>10, SMT
<1>12. CreditOf(<<r1, r2, r3, r4>>) = -(PriceOf(r1) + PriceOf(r2) + PriceOf(r3) + PriceOf(r4))
  BY <1>11, CreditOfFour
<1>13. cb - ck <= ca - cb /\ cc - cd <= ck - cc
  <2>1. \A x, y \in Int : x * W <= y * W => x <= y
    BY <1>2, SMT
  <2>2. /\ cb - ck \in Int /\ ca - cb \in Int /\ cc - cd \in Int /\ ck - cc \in Int
    BY <1>10
  <2>. QED
    BY <1>10, <2>1, <2>2
<1>14. -net_premium >= -(PriceOf(r1) + PriceOf(r2) + PriceOf(r3) + PriceOf(r4))
  <2>. DEFINE q1 == PriceOf(r1)
              q2 == PriceOf(r2)
              q3 == PriceOf(r3)
              q4 == PriceOf(r4)
  <2>1. /\ q1 = (-1) * (cb + b - Forward) /\ q2 = 1 * (ca + a - Forward)
        /\ q3 = (-1) * cc /\ q4 = 1 * cd
    BY <1>10
  <2>. HIDE DEF q1, q2, q3, q4
  <2>2. -net_premium >= -(q1 + q2 + q3 + q4)
    BY <1>2, <1>3, <1>4, <1>10, <1>13, <2>1, SMT
  <2>. QED
    BY <2>2 DEF q1, q2, q3, q4
<1>. QED
  BY <1>9, <1>12, <1>14

\* Each Preset does what it is for, at whatever prices free of arbitrage: a
\* strangle breaks even outside its strikes, a credit spread crosses zero once,
\* between them, and the fly collects no less than the condor and keeps it over
\* the narrower range (presets.py).
THEOREM PresetsAlwaysKeepTheirShape == PresetSpec => []PresetsKeepTheirShape
<1>1. ASSUME PresetInv, Built("strangle") \/ Built("straddle"), net_premium # 0,
             NEW breakeven \in breakevens
      PROVE  \/ \A strike \in strikesOf : breakeven[1] < strike * breakeven[2]
             \/ \A strike \in strikesOf : breakeven[1] > strike * breakeven[2]
  <2>. DEFINE height == -net_premium
  <2>1. /\ legs # <<>> /\ net_premium \in Int
        /\ \A strike \in strikesOf : total[strike] = height
    BY <1>1, StrangleAtItsStrikes
  <2>2. height \in Int /\ height # 0
    BY <1>1, <2>1, SMT
  <2>. HIDE DEF height
  <2>. QED
    BY <1>1, <2>1, <2>2, OutsideTheStrikes DEF PresetInv
<1>2. ASSUME PresetInv, Built("iron_fly")
      PROVE  /\ -net_premium >= CreditOf(iron_condor(Centre, DEFAULT_WIDTH, 1))
             /\ \A forward \in Forwards :
                  total[forward] > -DEFAULT_WIDTH - net_premium =>
                    Centre - DEFAULT_WIDTH < forward /\ forward < Centre + DEFAULT_WIDTH
  BY <1>2, FlyLine, FlyCollectsMore
<1>3. PresetInv => PresetsKeepTheirShape
  BY <1>1, <1>2, SpreadCrossesOnce DEF PresetsKeepTheirShape
<1>. QED
  BY <1>3, AlwaysPresetInv, PTL
==============================================================================
