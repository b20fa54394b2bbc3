--------------------------- MODULE ImpliedVolProofs ---------------------------
(***************************************************************************)
(* What the volatility solver searches, and when it raises, for every      *)
(* number of rows, of sweeps and of halvings.                              *)
(***************************************************************************)
EXTENDS ImpliedVol, TLAPS

\* Before the bisection the bracket is whole, and a row that is stuck is still
\* where its tangent collapsed.
Untouched ==
  at \in {"sweep", "rescue"} =>
    /\ steps = 0 /\ rescue = {}
    /\ low = [r \in Rows |-> 0] /\ high = [r \in Rows |-> N]
    /\ \A r \in stuck : collapsed(rows[r], vol[r])

\* The cell in which the price is crossed.
crossing(row) == IF row.above = 0 THEN 0 ELSE row.above - 1

\* It stays in the bracket the row is halved in.
Bracketed ==
  at = "bisect" =>
    \A r \in rescue :
      /\ high[r] - low[r] = Width[BISECTION_STEPS - steps]
      /\ attainable(rows[r]) => low[r] <= crossing(rows[r]) /\ crossing(rows[r]) < high[r]

Bisecting ==
  at = "bisect" =>
    /\ rescue \subseteq stuck
    /\ \A r \in rescue : collapsed(rows[r], vol[r])
    /\ \A r \in stuck \ rescue : converged(r)

\* Out of the loop a row that is not stuck has converged, unless some price is
\* out of reach or the sweeps were used up.
Swept ==
  at \in {"rescue", "bisect", "count"} =>
    \/ \E r \in Rows : ~attainable(rows[r])
    \/ sweeps = MAX_SWEEPS
    \/ \A r \in Rows \ stuck : converged(r)

\* And one that is has converged by the time the rows are counted.
Saved == at = "count" => \A r \in stuck : attainable(rows[r]) => converged(r)

Inv ==
  /\ TypeOK /\ Untouched /\ Bisecting /\ Bracketed /\ Swept /\ Saved
  /\ RaisesForAReason

\* The bracket has cells to search.
LEMMA BracketType ==
  /\ N \in Nat \ {0}
  /\ VOL_SEED \in VOL_SEARCH_BRACKET
  /\ \A n \in 0..BISECTION_STEPS : Width[n] \in Nat
<1>1. N \in Nat /\ \A n \in 0..BISECTION_STEPS : Width[n] \in Nat
  BY WidthAssumption DEF N
<1>2. VOL_SEED \in 0..(N - 1)
  BY SeedAssumption DEF N
<1> QED BY <1>1, <1>2 DEF VOL_SEARCH_BRACKET

\* An attainable price is reproduced where it is crossed, which is in the bracket.
LEMMA CrossingReproduces ==
  ASSUME NEW row \in Row, attainable(row)
  PROVE  crossing(row) \in VOL_SEARCH_BRACKET /\ residual(row, crossing(row)) = 0
BY BracketType DEF Row, attainable, residual, crossing, VOL_SEARCH_BRACKET

\* A step of Newton's stays in the bracket.
LEMMA MovedType ==
  ASSUME NEW row \in Row, NEW cell \in VOL_SEARCH_BRACKET
  PROVE  moved(row, cell) \subseteq VOL_SEARCH_BRACKET
BY BracketType DEF Row, moved, VOL_SEARCH_BRACKET, residual, collapsed

LEMMA InitInv == Init => Inv
<1> SUFFICES ASSUME Init PROVE Inv
  OBVIOUS
<1>1. TypeOK
  BY BracketType, SweepAssumption, WidthAssumption DEF Init, TypeOK
<1> QED BY <1>1 DEF Init, Inv, Untouched, Bisecting, Bracketed, Swept, Saved,
                    RaisesForAReason

LEMMA SweepInv == ASSUME Inv, Sweep PROVE Inv'
<1> USE DEF Inv
<1>1. vol' \in [Rows -> VOL_SEARCH_BRACKET]
  <2>1. /\ vol' \in [Rows -> -1..N]
        /\ \A r \in Rows : vol'[r] \in moved(rows[r], vol[r])
    BY DEF Sweep
  <2>2. \A r \in Rows : rows[r] \in Row /\ vol[r] \in VOL_SEARCH_BRACKET
    BY DEF TypeOK
  <2>3. \A r \in Rows : vol'[r] \in VOL_SEARCH_BRACKET
    BY <2>1, <2>2, MovedType
  <2> QED BY <2>1, <2>3
<1>2. TypeOK'
  BY <1>1, SweepAssumption DEF Sweep, TypeOK, remembered
<1>3. \A r \in stuck' : collapsed(rows'[r], vol'[r])
  <2> SUFFICES ASSUME NEW r \in stuck' PROVE collapsed(rows'[r], vol'[r])
    OBVIOUS
  <2>1. r \in Rows /\ collapsed(rows[r], vol[r])
    BY DEF Sweep, remembered, Untouched, TypeOK
  <2>2. vol'[r] = vol[r]
    BY <2>1 DEF Sweep, moved
  <2> QED BY <2>1, <2>2 DEF Sweep
<1> QED BY <1>2, <1>3 DEF Sweep, Untouched, Bisecting, Bracketed, Swept, Saved,
                          RaisesForAReason

LEMMA BreakInv == ASSUME Inv, Break PROVE Inv'
<1> USE DEF Inv
<1>1. TypeOK'
  BY DEF Break, TypeOK, remembered
<1>2. \A r \in stuck' : collapsed(rows'[r], vol'[r])
  BY DEF Break, remembered, Untouched, TypeOK
<1>3. Swept'
  <2> SUFFICES ASSUME \A r \in Rows : attainable(rows[r]), NEW r \in Rows \ stuck'
               PROVE  converged(r)
    BY DEF Break, Swept, converged
  <2>1. unmoved(rows[r], vol[r]) /\ ~collapsed(rows[r], vol[r])
    BY DEF Break, remembered
  <2>2. residual(rows[r], 0) <= 0 /\ residual(rows[r], N - 1) >= 0
    BY DEF attainable
  <2> QED BY <2>1, <2>2 DEF unmoved, converged, residual
<1> QED BY <1>1, <1>2, <1>3 DEF Break, Untouched, Bisecting, Bracketed, Saved,
                                RaisesForAReason

LEMMA RescueInv == ASSUME Inv, Rescue PROVE Inv'
<1> USE DEF Inv
<1>1. TypeOK'
  BY DEF Rescue, TypeOK
<1>2. rescue' \subseteq stuck /\ \A r \in stuck \ rescue' : converged(r)
  BY DEF Rescue
<1>3. Bracketed'
  <2> SUFFICES ASSUME NEW r \in rescue'
               PROVE  /\ high'[r] - low'[r] = Width[BISECTION_STEPS - steps']
                      /\ attainable(rows'[r]) => low'[r] <= crossing(rows'[r]) /\ crossing(rows'[r]) < high'[r]
    BY DEF Bracketed
  <2>1. r \in Rows /\ rows[r] \in Row
    BY <1>2 DEF TypeOK
  <2>2. low'[r] = 0 /\ high'[r] = N /\ steps' = 0 /\ rows'[r] = rows[r]
    BY <2>1 DEF Rescue, Untouched
  <2>3. attainable(rows[r]) => crossing(rows[r]) \in VOL_SEARCH_BRACKET
    BY <2>1, CrossingReproduces
  <2> QED BY <2>1, <2>2, <2>3, BracketType, WidthAssumption DEF N, VOL_SEARCH_BRACKET
<1>4. Swept' /\ Bisecting' /\ Saved' /\ Untouched'
  BY <1>2 DEF Rescue, Swept, Bisecting, Saved, Untouched, converged
<1> QED BY <1>1, <1>3, <1>4 DEF Rescue, RaisesForAReason

LEMMA HalveInv == ASSUME Inv, Halve PROVE Inv'
<1> USE DEF Inv
<1>1. \A r \in Rows : low[r] \in 0..N /\ high[r] \in 0..N /\ middle(r) \in 0..N
  BY BracketType DEF TypeOK, middle
<1>2. TypeOK'
  <2>1. low' \in [Rows -> 0..N] /\ high' \in [Rows -> 0..N]
    BY <1>1 DEF Halve
  <2> QED BY <2>1, WidthAssumption DEF Halve, TypeOK
<1>3. Bracketed'
  <2> SUFFICES ASSUME NEW r \in rescue
               PROVE  /\ high'[r] - low'[r] = Width[BISECTION_STEPS - steps']
                      /\ attainable(rows[r]) => low'[r] <= crossing(rows[r]) /\ crossing(rows[r]) < high'[r]
    BY DEF Bracketed, Halve
  <2>1. r \in Rows /\ rows[r] \in Row /\ steps \in 0..BISECTION_STEPS /\ steps < BISECTION_STEPS
        /\ steps' = steps + 1
    BY DEF TypeOK, Halve
  <2>2. /\ high[r] - low[r] = Width[BISECTION_STEPS - steps]
        /\ attainable(rows[r]) => low[r] <= crossing(rows[r]) /\ crossing(rows[r]) < high[r]
    BY DEF Bracketed, Halve
  <2>3. Width[BISECTION_STEPS - steps] = 2 * Width[BISECTION_STEPS - steps']
        /\ Width[BISECTION_STEPS - steps'] \in Nat
    <3>1. BISECTION_STEPS - steps \in 1..BISECTION_STEPS
      BY <2>1, WidthAssumption
    <3>2. BISECTION_STEPS - steps' = (BISECTION_STEPS - steps) - 1
      BY <2>1, WidthAssumption
    <3>3. BISECTION_STEPS - steps' \in 0..BISECTION_STEPS
      BY <2>1, WidthAssumption
    <3> QED BY <3>1, <3>2, <3>3, WidthAssumption
  <2>4. middle(r) = low[r] + Width[BISECTION_STEPS - steps']
        /\ middle(r) = high[r] - Width[BISECTION_STEPS - steps']
    BY <1>1, <2>1, <2>2, <2>3 DEF middle
  <2>5. rows[r].above \in 0..N /\ crossing(rows[r]) \in Int
    BY <2>1, BracketType DEF Row, crossing
  <2>6. CASE over(r)
    <3>1. high'[r] = middle(r) /\ low'[r] = low[r]
      BY <2>1, <2>6 DEF Halve
    <3>2. attainable(rows[r]) => crossing(rows[r]) < middle(r)
      <4> SUFFICES ASSUME attainable(rows[r]) PROVE crossing(rows[r]) < middle(r)
        OBVIOUS
      <4>1. low[r] < high[r]
        BY <1>1, <2>1, <2>2, <2>5
      <4>2. middle(r) > 0
        BY <1>1, <2>1, <2>2, <2>3, <2>4, <4>1
      <4> QED BY <1>1, <2>1, <2>5, <2>6, <4>2 DEF over, crossing
    <3> QED BY <1>1, <2>1, <2>2, <2>3, <2>4, <2>5, <3>1, <3>2, BracketType
  <2>7. CASE ~over(r)
    <3>1. low'[r] = middle(r) /\ high'[r] = high[r]
      BY <2>1, <2>7 DEF Halve
    <3>2. middle(r) <= crossing(rows[r])
      BY <1>1, <2>1, <2>5, <2>7 DEF over, crossing
    <3> QED BY <1>1, <2>1, <2>2, <2>3, <2>4, <2>5, <3>1, <3>2, BracketType
  <2> QED BY <2>6, <2>7
<1> QED BY <1>2, <1>3 DEF Halve, Untouched, Bisecting, Swept, Saved, converged,
                          RaisesForAReason

LEMMA RescuedInv == ASSUME Inv, Rescued PROVE Inv'
<1> USE DEF Inv
<1>1. ASSUME NEW r \in rescue
      PROVE  /\ middle(r) \in VOL_SEARCH_BRACKET
             /\ attainable(rows[r]) => residual(rows[r], middle(r)) = 0
  <2>1. r \in Rows /\ rows[r] \in Row /\ low[r] \in 0..N /\ high[r] \in 0..N
    BY <1>1 DEF TypeOK
  <2>2. high[r] - low[r] = 1
    <3>1. BISECTION_STEPS - steps = 0
      BY WidthAssumption DEF Rescued
    <3> QED BY <1>1, <3>1, WidthAssumption DEF Rescued, Bracketed
  <2>3. middle(r) = low[r] /\ low[r] \in VOL_SEARCH_BRACKET
    BY <2>1, <2>2, BracketType DEF middle, VOL_SEARCH_BRACKET
  <2>4. attainable(rows[r]) => crossing(rows[r]) = low[r]
    <3>1. crossing(rows[r]) \in Int
      BY <2>1, BracketType DEF Row, crossing
    <3> QED BY <1>1, <2>1, <2>2, <3>1 DEF Rescued, Bracketed
  <2> QED BY <2>1, <2>3, <2>4, CrossingReproduces
<1>2. TypeOK'
  <2>1. vol' \in [Rows -> VOL_SEARCH_BRACKET]
    BY <1>1 DEF Rescued, TypeOK
  <2> QED BY <2>1 DEF Rescued, TypeOK
<1>3. \A r \in Rows : r \notin rescue => vol'[r] = vol[r]
  BY DEF Rescued
<1>4. Saved'
  <2> SUFFICES ASSUME NEW r \in stuck, attainable(rows[r])
               PROVE  residual(rows[r], vol'[r]) = 0
    BY DEF Saved, converged, Rescued
  <2>1. r \in Rows
    BY DEF TypeOK
  <2>2. CASE r \in rescue
    <3>1. vol'[r] = middle(r)
      BY <2>1, <2>2 DEF Rescued
    <3> QED BY <1>1, <2>2, <3>1
  <2>3. CASE r \notin rescue
    BY <1>3, <2>1, <2>3 DEF Rescued, Bisecting, converged
  <2> QED BY <2>2, <2>3
<1>5. Swept'
  <2>1. \A r \in Rows \ stuck : converged(r) => converged(r)'
    BY <1>3 DEF converged, Rescued, Bisecting
  <2> QED BY <2>1 DEF Swept, Rescued
<1> QED BY <1>2, <1>4, <1>5 DEF Rescued, Untouched, Bisecting, Bracketed,
                                RaisesForAReason

LEMMA CountInv == ASSUME Inv, Count PROVE Inv'
<1> USE DEF Inv
<1>1. TypeOK'
  BY DEF Count, TypeOK
<1>2. RaisesForAReason'
  <2> SUFFICES ASSUME NEW r \in Rows, ~converged(r), \A q \in Rows : attainable(rows[q])
               PROVE  sweeps = MAX_SWEEPS /\ \E q \in Rows \ stuck : ~converged(q)
    BY DEF Count, RaisesForAReason, converged
  <2>1. r \notin stuck
    BY DEF Saved, Count
  <2> QED BY <2>1 DEF Swept, Count
<1> QED BY <1>1, <1>2 DEF Count, Untouched, Bisecting, Bracketed, Swept, Saved

LEMMA NextInv == Inv /\ [Next]_vars => Inv'
<1> SUFFICES ASSUME Inv, [Next]_vars PROVE Inv'
  OBVIOUS
<1>1. CASE Return
  BY <1>1 DEF Return, Inv, TypeOK, Untouched, Bisecting, Bracketed, Swept, Saved,
              RaisesForAReason, converged
<1>2. CASE Sweep
  BY <1>2, SweepInv
<1>3. CASE Break
  BY <1>3, BreakInv
<1>4. CASE RunOut
  BY <1>4 DEF RunOut, Inv, TypeOK, Untouched, Bisecting, Bracketed, Swept, Saved,
              RaisesForAReason, converged
<1>5. CASE Rescue
  BY <1>5, RescueInv
<1>6. CASE Halve
  BY <1>6, HalveInv
<1>7. CASE Rescued
  BY <1>7, RescuedInv
<1>8. CASE Count
  BY <1>8, CountInv
<1>9. CASE UNCHANGED vars
  BY <1>9 DEF vars, Inv, TypeOK, Untouched, Bisecting, Bracketed, Swept, Saved,
              RaisesForAReason, converged
<1> QED BY <1>1, <1>2, <1>3, <1>4, <1>5, <1>6, <1>7, <1>8, <1>9 DEF Next

LEMMA SpecInv == Spec => []Inv
BY InitInv, NextInv, PTL DEF Spec

\* The solver's state stays of its type: no step leaves the search bracket.
THEOREM TypeCorrect == Spec => []TypeOK
<1>1. Inv => TypeOK
  BY DEF Inv
<1> QED BY <1>1, SpecInv, PTL

\* The halved bracket always holds a volatility that reproduces an attainable
\* price, wherever within the tolerance the halvings fall.
THEOREM BisectionIsSound == Spec => []BracketHoldsTheAnswer
<1>1. Inv => BracketHoldsTheAnswer
  <2> SUFFICES ASSUME Inv, at = "bisect", NEW r \in rescue
               PROVE  /\ high[r] - low[r] = Width[BISECTION_STEPS - steps]
                      /\ attainable(rows[r]) =>
                           \E cell \in low[r]..(high[r] - 1) : residual(rows[r], cell) = 0
    BY DEF BracketHoldsTheAnswer
  <2>1. r \in Rows /\ rows[r] \in Row /\ low[r] \in 0..N /\ high[r] \in 0..N
    BY DEF Inv, TypeOK
  <2>2. /\ high[r] - low[r] = Width[BISECTION_STEPS - steps]
        /\ attainable(rows[r]) => low[r] <= crossing(rows[r]) /\ crossing(rows[r]) < high[r]
    BY DEF Inv, Bracketed
  <2>3. ASSUME attainable(rows[r])
        PROVE  \E cell \in low[r]..(high[r] - 1) : residual(rows[r], cell) = 0
    <3>1. crossing(rows[r]) \in VOL_SEARCH_BRACKET /\ residual(rows[r], crossing(rows[r])) = 0
      BY <2>1, <2>3, CrossingReproduces
    <3>2. crossing(rows[r]) \in low[r]..(high[r] - 1)
      BY <2>1, <2>2, <2>3, <3>1, BracketType DEF VOL_SEARCH_BRACKET
    <3> QED BY <3>1, <3>2
  <2> QED BY <2>2, <2>3
<1> QED BY <1>1, SpecInv, PTL

\* Only rows Newton could not move are bisected, and an array of attainable
\* prices raises only where the sweeps ran out on a row that never collapsed.
THEOREM CollapsedRowsAreSolved == Spec => []RescuesWhatItMust
<1>1. Inv => RescuesWhatItMust
  BY DEF Inv, Bisecting, BisectedWhereSuppressed, RescuesWhatItMust
<1> QED BY <1>1, SpecInv, PTL
==============================================================================
