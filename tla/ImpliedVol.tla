------------------------------ MODULE ImpliedVol ------------------------------
(***************************************************************************)
(* The volatility solver (src/payoff/pricing.py): Newton on every row of   *)
(* an array at once, with a bisection of the rows it cannot move.          *)
(*                                                                         *)
(* The search bracket is cut into cells no two volatilities of which the   *)
(* last halving tells apart.  The price grows with volatility, so a row is *)
(* the cells `from' to `to' on which the residual is below its tolerance,  *)
(* the cells below `flat' on which the tangent has collapsed, and `above', *)
(* the first cell that starts strictly above the price asked for: Newton   *)
(* compares within the tolerance, the bisection without one.  Where the    *)
(* tangent is flat the price does not move either, so the flat cells are   *)
(* all under, all over or all within the tolerance; and the 5/2^60 a cell  *)
(* is wide moves no price by 1e-8, so the cell the price is crossed in     *)
(* reproduces it.  The size of a Newton step is left open, and that of a   *)
(* step taken from within the tolerance is left open entirely: a residual  *)
(* of 1e-8 over a vega of 1e-12 crosses the bracket.                       *)
(* Rows are alive (T > 0), as derive's `attainable' makes them.            *)
(***************************************************************************)
EXTENDS Integers

CONSTANTS
  Rows,             \* the rows of the array
  VOL_SEED,         \* the cell every row starts from
  MAX_SWEEPS, BISECTION_STEPS,
  Width             \* the bracket in cells, when so many halvings are left

ASSUME WidthAssumption ==
  /\ BISECTION_STEPS \in Nat
  /\ Width \in [0..BISECTION_STEPS -> Nat]
  /\ Width[0] = 1
  /\ \A n \in 1..BISECTION_STEPS : Width[n] = 2 * Width[n - 1]
ASSUME SeedAssumption == VOL_SEED \in 0..(Width[BISECTION_STEPS] - 1)
ASSUME SweepAssumption == MAX_SWEEPS \in Nat

N == Width[BISECTION_STEPS]
VOL_SEARCH_BRACKET == 0..(N - 1)

Row ==
  {row \in [from : 0..N, to : -1..(N - 1), flat : 0..N, above : 0..N] :
     /\ row.from <= row.to \/ (row.from = N /\ row.to = N - 1) \/ (row.from = 0 /\ row.to = -1)
     /\ \/ row.flat <= row.from
        \/ row.to = -1
        \/ row.from = 0 /\ row.flat <= row.to + 1
     /\ row.above \in row.from..(row.to + 1)
     /\ row.from < row.above \/ row.from \in {0, N}}

VARIABLES
  rows,      \* what is asked of each row
  vol, stuck,
  sweeps,    \* turns taken of the loop
  at,        \* "sweep", "rescue", "bisect", "count", "returned" or "raised"
  rescue, low, high,
  steps      \* halvings taken

vars == <<rows, vol, stuck, sweeps, at, rescue, low, high, steps>>

TypeOK ==
  /\ rows \in [Rows -> Row]
  /\ vol \in [Rows -> VOL_SEARCH_BRACKET]
  /\ stuck \in SUBSET Rows
  /\ sweeps \in 0..MAX_SWEEPS
  /\ at \in {"sweep", "rescue", "bisect", "count", "returned", "raised"}
  /\ rescue \in SUBSET Rows
  /\ low \in [Rows -> 0..N] /\ high \in [Rows -> 0..N]
  /\ steps \in 0..BISECTION_STEPS

------------------------------------------------------------------------------
\* black76_price - price, by its sign; zero within the tolerance.
residual(row, cell) ==
  IF cell < row.from THEN -1 ELSE IF cell > row.to THEN 1 ELSE 0

collapsed(row, cell) == cell < row.flat

\* derive.attainable
attainable(row) == residual(row, 0) <= 0 /\ residual(row, N - 1) >= 0

converged(r) == residual(rows[r], vol[r]) = 0

\* Where one clipped Newton step can take a row.
moved(row, cell) ==
  CASE collapsed(row, cell) -> {cell}
    [] ~collapsed(row, cell) /\ residual(row, cell) < 0 -> cell..(N - 1)
    [] ~collapsed(row, cell) /\ residual(row, cell) > 0 -> 0..cell
    [] OTHER -> VOL_SEARCH_BRACKET

\* Where no step moves a row at all: its tangent has collapsed, its residual is
\* nothing, or the clip holds it at the end of the bracket it is pushed against.
unmoved(row, cell) ==
  \/ collapsed(row, cell)
  \/ residual(row, cell) = 0
  \/ residual(row, cell) < 0 /\ cell = N - 1
  \/ residual(row, cell) > 0 /\ cell = 0

Init ==
  /\ rows \in [Rows -> Row]
  /\ vol = [r \in Rows |-> VOL_SEED]
  /\ stuck = {} /\ sweeps = 0 /\ at = "sweep"
  /\ rescue = {} /\ steps = 0
  /\ low = [r \in Rows |-> 0] /\ high = [r \in Rows |-> N]

Return ==
  /\ at = "sweep" /\ sweeps < MAX_SWEEPS
  /\ \A r \in Rows : converged(r)
  /\ at' = "returned"
  /\ UNCHANGED <<rows, vol, stuck, sweeps, rescue, low, high, steps>>

remembered == stuck \cup {r \in Rows : collapsed(rows[r], vol[r])}

\* The bug of a collapsed tangent that launches its row.
Sweep_launched ==
  /\ at = "sweep" /\ sweeps < MAX_SWEEPS
  /\ \E r \in Rows : ~converged(r)
  /\ stuck' = remembered
  /\ sweeps' = sweeps + 1
  /\ vol' \in [Rows -> VOL_SEARCH_BRACKET]
  /\ UNCHANGED <<rows, at, rescue, low, high, steps>>

Sweep ==
  /\ at = "sweep" /\ sweeps < MAX_SWEEPS
  /\ \E r \in Rows : ~converged(r)
  /\ stuck' = remembered
  /\ sweeps' = sweeps + 1
  /\ vol' \in {next \in [Rows -> -1..N] : \A r \in Rows : next[r] \in moved(rows[r], vol[r])}
  /\ UNCHANGED <<rows, at, rescue, low, high, steps>>

\* A sweep that moved nothing ends the loop.
Break ==
  /\ at = "sweep" /\ sweeps < MAX_SWEEPS
  /\ \E r \in Rows : ~converged(r)
  /\ \A r \in Rows : unmoved(rows[r], vol[r])
  /\ stuck' = remembered
  /\ at' = "rescue"
  /\ UNCHANGED <<rows, vol, sweeps, rescue, low, high, steps>>

RunOut ==
  /\ at = "sweep" /\ sweeps = MAX_SWEEPS
  /\ at' = "rescue"
  /\ UNCHANGED <<rows, vol, stuck, sweeps, rescue, low, high, steps>>

Rescue ==
  /\ at = "rescue"
  /\ rescue' = {r \in stuck : ~converged(r)}
  /\ at' = IF rescue' = {} THEN "count" ELSE "bisect"
  /\ UNCHANGED <<rows, vol, stuck, sweeps, low, high, steps>>

middle(r) == (low[r] + high[r]) \div 2

\* The comparison is strict: a volatility that reproduces the price can be over it.
over(r) == middle(r) >= rows[r].above

\* The bug of halving towards the wrong side.
Halve_swapped ==
  /\ at = "bisect" /\ steps < BISECTION_STEPS
  /\ steps' = steps + 1
  /\ low' = [r \in Rows |-> IF r \in rescue /\ over(r) THEN middle(r) ELSE low[r]]
  /\ high' = [r \in Rows |-> IF r \in rescue /\ ~over(r) THEN middle(r) ELSE high[r]]
  /\ UNCHANGED <<rows, vol, stuck, sweeps, at, rescue>>

Halve ==
  /\ at = "bisect" /\ steps < BISECTION_STEPS
  /\ steps' = steps + 1
  /\ high' = [r \in Rows |-> IF r \in rescue /\ over(r) THEN middle(r) ELSE high[r]]
  /\ low' = [r \in Rows |-> IF r \in rescue /\ ~over(r) THEN middle(r) ELSE low[r]]
  /\ UNCHANGED <<rows, vol, stuck, sweeps, at, rescue>>

Rescued ==
  /\ at = "bisect" /\ steps = BISECTION_STEPS
  /\ vol' = [r \in Rows |-> IF r \in rescue THEN middle(r) ELSE vol[r]]
  /\ at' = "count"
  /\ UNCHANGED <<rows, stuck, sweeps, rescue, low, high, steps>>

\* One row that did not solve raises for the whole array.
Count ==
  /\ at = "count"
  /\ at' = IF \A r \in Rows : converged(r) THEN "returned" ELSE "raised"
  /\ UNCHANGED <<rows, vol, stuck, sweeps, rescue, low, high, steps>>

Next == Return \/ Sweep \/ Break \/ RunOut \/ Rescue \/ Halve \/ Rescued \/ Count

Spec == Init /\ [][Next]_vars

------------------------------------------------------------------------------
\* The bracket a rescued row is halved in always holds a volatility that
\* reproduces its price, though what is halved against is the price itself and
\* not the tolerance the answer is judged by: the cell left after the last
\* halving is an answer (_bisect).
BracketHoldsTheAnswer ==
  at = "bisect" =>
    \A r \in rescue :
      /\ high[r] - low[r] = Width[BISECTION_STEPS - steps]
      /\ attainable(rows[r]) =>
           \E cell \in low[r]..(high[r] - 1) : residual(rows[r], cell) = 0

\* "The fallback is entered only where the step was suppressed, never where the
\* row merely ran out of sweeps": a row being bisected is still where its
\* tangent collapsed.
BisectedWhereSuppressed ==
  at = "bisect" => \A r \in rescue : collapsed(rows[r], vol[r])

\* An array of attainable prices raises only when some row whose tangent no
\* sweep ever found collapsed used up every sweep.
RaisesForAReason ==
  at = "raised" =>
    \/ \E r \in Rows : ~attainable(rows[r])
    \/ sweeps = MAX_SWEEPS /\ \E r \in Rows \ stuck : ~converged(r)

\* "A row that passes [attainable] and still fails to converge is a solver bug"
\* (derive.py:137): rows that Newton cannot move and rows that run out of
\* sweeps are never taken for each other, and the first are never what loses
\* a day (implied_vol, collapsed and the rescue).
RescuesWhatItMust == BisectedWhereSuppressed /\ RaisesForAReason
==============================================================================
