------------------------------ MODULE FeeCurve ------------------------------
(***************************************************************************)
(* The piecewise fee curves of the scripts: flat_fee_rate,                 *)
(* linear_fee_rate and three_segment_fee_rate of scripts/gini_3segment.py  *)
(* (generate_figures.py repeats them for its figures) and                  *)
(* progressive_fee_rate of scripts/gini_single_step.py.  Each maps an      *)
(* effective wealth w and the max_wealth M of the population to a rate.   *)
(*                                                                         *)
(* The code computes in floats; here a rate is an exact rational, kept as  *)
(* a numerator over a denominator that depends on the curve and M only:    *)
(* Num(c, w, M) / Den(c, M) basis points.  Rates at the same M compare by  *)
(* their numerators.  A curve's parameters are a record: the fractions     *)
(* w1_frac and w2_frac in percent of M, the rates in basis points.         *)
(*                                                                         *)
(* The scan is figure_fee_curves of generate_figures.py, which evaluates   *)
(* every curve at wealths rising from 0 to max_w (np.linspace).            *)
(***************************************************************************)
EXTENDS Integers

CONSTANTS
    Curves,         \* the curve configurations the scripts call
    MaxWealths,     \* the max_wealth values passed with them
    WealthBound     \* the largest effective wealth scanned

(***************************************************************************)
(* A configuration the code can be called with: rates in basis points,     *)
(* segment boundaries in percent of max_wealth with w1 below w2.          *)
(***************************************************************************)
Bps == 0..10000

FlatCurves == [kind : {"flat"}, rate : Bps]
LinearCurves == [kind : {"linear"}, rMin : Bps, rMax : Bps]
ThreeSegmentCurves ==
    {c \in [kind : {"threeSegment"}, w1Pct : 0..100, w2Pct : 0..100,
            rPoor : Bps, rMidStart : Bps, rMidEnd : Bps, rRich : Bps] :
        c.w1Pct < c.w2Pct}
ProgressiveCurves == [kind : {"progressive"}]

CurveConfigs == FlatCurves \cup LinearCurves \cup ThreeSegmentCurves \cup ProgressiveCurves

ASSUME FeeCurveConstantsAssumption ==
    /\ Curves \subseteq CurveConfigs
    /\ MaxWealths \subseteq Int
    /\ WealthBound \in Nat

\* flat_fee_rate: the rate, whatever the wealth.
FlatNum(c, w, M) == c.rate

(***************************************************************************)
(* linear_fee_rate: r_min when max_wealth <= 0, else r_min + (r_max -      *)
(* r_min) * min(1, w / max_wealth); over the denominator M.                *)
(***************************************************************************)
LinearDen(M) == IF M <= 0 THEN 1 ELSE M

LinearNum(c, w, M) ==
    IF M <= 0 THEN c.rMin
    ELSE c.rMin * M + (c.rMax - c.rMin) * (IF w < M THEN w ELSE M)

(***************************************************************************)
(* three_segment_fee_rate: r_poor when max_wealth <= 0 or w < w1; the      *)
(* linear interpolation r_mid_start + t * (r_mid_end - r_mid_start) with   *)
(* t = (w - w1) / (w2 - w1) when w < w2; r_rich above.  With w1 = M *      *)
(* w1Pct / 100 the comparisons are 100 * w against M * w1Pct, and the      *)
(* common denominator is M * (w2Pct - w1Pct).                              *)
(***************************************************************************)
ThreeSegmentDen(c, M) == IF M <= 0 THEN 1 ELSE M * (c.w2Pct - c.w1Pct)

\* ThreeSegmentNumFromW2 is a plausible bug measuring t from w2.
ThreeSegmentNumFromW2(c, w, M) ==
    LET D == ThreeSegmentDen(c, M)
    IN  IF M <= 0 THEN c.rPoor
        ELSE IF 100 * w < M * c.w1Pct THEN c.rPoor * D
        ELSE IF 100 * w < M * c.w2Pct
             THEN c.rMidStart * D + (100 * w - M * c.w2Pct) * (c.rMidEnd - c.rMidStart)
        ELSE c.rRich * D

ThreeSegmentNum(c, w, M) ==
    LET D == ThreeSegmentDen(c, M)
    IN  IF M <= 0 THEN c.rPoor
        ELSE IF 100 * w < M * c.w1Pct THEN c.rPoor * D
        ELSE IF 100 * w < M * c.w2Pct
             THEN c.rMidStart * D + (100 * w - M * c.w1Pct) * (c.rMidEnd - c.rMidStart)
        ELSE c.rRich * D

\* progressive_fee_rate: 0.01 + 0.29 * (wealth / max_wealth), unclamped;
\* its callers pass a positive max_wealth.
ProgressiveNum(c, w, M) == 100 * M + 2900 * w

\* The denominator and numerator of curve c's rate at wealth w.
Den(c, M) ==
    CASE c.kind = "flat" -> 1
      [] c.kind = "linear" -> LinearDen(M)
      [] c.kind = "threeSegment" -> ThreeSegmentDen(c, M)
      [] c.kind = "progressive" -> M

Num(c, w, M) ==
    CASE c.kind = "flat" -> FlatNum(c, w, M)
      [] c.kind = "linear" -> LinearNum(c, w, M)
      [] c.kind = "threeSegment" -> ThreeSegmentNum(c, w, M)
      [] c.kind = "progressive" -> ProgressiveNum(c, w, M)

(***************************************************************************)
(* The configurations the spec's monotonic-fee promise is about, with each *)
(* curve's rates rising from the poor end to the rich end: r_min <= r_max, *)
(* and r_poor <= r_mid_start <= r_mid_end <= r_rich.                       *)
(***************************************************************************)
OrderedCurve(c) ==
    CASE c.kind = "linear" -> c.rMin <= c.rMax
      [] c.kind = "threeSegment" ->
            c.rPoor <= c.rMidStart /\ c.rMidStart <= c.rMidEnd /\ c.rMidEnd <= c.rRich
      [] OTHER -> TRUE

-----------------------------------------------------------------------------
VARIABLES
    curve,          \* the fee function being plotted
    maxWealth,      \* max_w
    wealth          \* the point of np.linspace reached

vars == <<curve, maxWealth, wealth>>

\* figure_fee_curves: a curve, a max_w, and the scan from wealth 0.  The
\* progressive curve divides by max_wealth and raises at 0, so it is only
\* plotted with a positive one.
Init ==
    /\ curve \in Curves
    /\ maxWealth \in MaxWealths
    /\ curve.kind = "progressive" => maxWealth > 0
    /\ wealth = 0

\* The next point of the scan is any larger wealth: the grid's points.
Scan ==
    /\ wealth < WealthBound
    /\ wealth' \in (wealth + 1)..WealthBound
    /\ UNCHANGED <<curve, maxWealth>>

Next == Scan

Spec == Init /\ [][Next]_vars

-----------------------------------------------------------------------------
\* The scan's state, the fact the monotonicity proof starts from.
TypeOK ==
    /\ curve \in Curves
    /\ maxWealth \in MaxWealths
    /\ wealth \in 0..WealthBound

(***************************************************************************)
(* Monotonic fee (spec section 8): as the effective wealth grows at a      *)
(* fixed max_wealth, the rate the curve returns never falls, so for a      *)
(* fixed amount the fee of a wealthier sender is never below a poorer     *)
(* one's.  The spec promises it for any configuration with rate_max >=     *)
(* rate_min; three_segment_fee_rate's four rates are not checked.          *)
(***************************************************************************)
FeeMonotone ==
    [][Num(curve, wealth', maxWealth) >= Num(curve, wealth, maxWealth)]_vars
=============================================================================
