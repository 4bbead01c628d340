--------------------------- MODULE FeeCurve_proofs ---------------------------
(***************************************************************************)
(* Proofs about the fee curves: each curve of the scripts is monotone in   *)
(* the effective wealth whenever its rates rise from the poor end to the   *)
(* rich end, for every max_wealth, and so the scan never sees the rate     *)
(* fall.                                                                   *)
(***************************************************************************)
EXTENDS FeeCurve, TLAPS

-----------------------------------------------------------------------------
(* Arithmetic.                                                             *)

\* Multiplying both sides of an inequality by a natural keeps it.
LEMMA MulMono ==
    ASSUME NEW a, NEW b, NEW k, a \in Int, b \in Int, k \in Int, a <= b, 0 <= k
    PROVE  a * k <= b * k
OBVIOUS

\* A rate in basis points, and a percentage, are integers.
LEMMA BpsInt ==
    ASSUME NEW x, x \in Bps \/ x \in 0..100
    PROVE  x \in Int
<1>1. CASE x \in Bps
  BY <1>1 DEF Bps
<1>2. CASE x \in 0..100
  BY <1>2
<1>. QED BY <1>1, <1>2

-----------------------------------------------------------------------------
(* The curves one by one.                                                  *)

\* linear_fee_rate rises with the wealth when r_min <= r_max: the ratio
\* min(1, w / max_wealth) does, and r_max - r_min is not negative.
LEMMA LinearMonotone ==
    ASSUME NEW c, c \in LinearCurves, c.rMin <= c.rMax,
           NEW M \in Int, NEW v \in Int, NEW w \in Int, v <= w
    PROVE  LinearNum(c, v, M) <= LinearNum(c, w, M)
<1>1. c.rMin \in Int /\ c.rMax \in Int
  <2>1. c.rMin \in Bps /\ c.rMax \in Bps
    BY DEF LinearCurves
  <2>. QED BY <2>1, BpsInt
<1>2. CASE M <= 0
  BY <1>1, <1>2 DEF LinearNum
<1>3. CASE M > 0
  <2>1. (IF v < M THEN v ELSE M) <= (IF w < M THEN w ELSE M)
    OBVIOUS
  <2>2. (IF v < M THEN v ELSE M) * (c.rMax - c.rMin)
          <= (IF w < M THEN w ELSE M) * (c.rMax - c.rMin)
    BY <1>1, <2>1, MulMono
  <2>. QED BY <1>1, <1>3, <2>2 DEF LinearNum
<1>. QED BY <1>2, <1>3

(***************************************************************************)
(* three_segment_fee_rate rises with the wealth when r_poor <= r_mid_start *)
(* <= r_mid_end <= r_rich.  Over the denominator D = M * (w2 - w1) the     *)
(* middle segment runs from r_mid_start * D at w1 up to (not reaching)     *)
(* r_mid_end * D at w2, because 100 * w - M * w1 stays below D there.      *)
(***************************************************************************)
LEMMA ThreeSegmentMonotone ==
    ASSUME NEW c, c \in ThreeSegmentCurves,
           c.rPoor <= c.rMidStart, c.rMidStart <= c.rMidEnd, c.rMidEnd <= c.rRich,
           NEW M \in Int, NEW v \in Int, NEW w \in Int, v <= w
    PROVE  ThreeSegmentNum(c, v, M) <= ThreeSegmentNum(c, w, M)
<1>1. /\ c.w1Pct \in Int /\ c.w2Pct \in Int /\ c.w1Pct < c.w2Pct
      /\ c.rPoor \in Int /\ c.rMidStart \in Int /\ c.rMidEnd \in Int /\ c.rRich \in Int
  <2>1. /\ c.w1Pct \in 0..100 /\ c.w2Pct \in 0..100 /\ c.w1Pct < c.w2Pct
        /\ c.rPoor \in Bps /\ c.rMidStart \in Bps /\ c.rMidEnd \in Bps /\ c.rRich \in Bps
    BY DEF ThreeSegmentCurves
  <2>. QED BY <2>1, BpsInt
<1>2. CASE M <= 0
  BY <1>1, <1>2 DEF ThreeSegmentNum, ThreeSegmentDen
<1>3. CASE M > 0
  <2> DEFINE D == M * (c.w2Pct - c.w1Pct)
             Delta == c.rMidEnd - c.rMidStart
             Mid(x) == c.rMidStart * D + (100 * x - M * c.w1Pct) * Delta
             Poor(x) == 100 * x < M * c.w1Pct
             InMid(x) == ~Poor(x) /\ 100 * x < M * c.w2Pct
  <2>1. D \in Int /\ D > 0 /\ Delta \in Int /\ Delta >= 0
    BY <1>1, <1>3
  <2>2. \A x \in Int : ThreeSegmentNum(c, x, M) =
            IF Poor(x) THEN c.rPoor * D ELSE IF InMid(x) THEN Mid(x) ELSE c.rRich * D
    BY <1>3 DEF ThreeSegmentNum, ThreeSegmentDen
  <2>3. c.rPoor * D <= c.rMidStart * D
    BY <1>1, <2>1, MulMono
  <2>4. c.rMidEnd * D <= c.rRich * D
    BY <1>1, <2>1, MulMono
  \* A point of the middle segment lies between its two end rates.
  <2>5. ASSUME NEW x \in Int, InMid(x)
        PROVE  c.rMidStart * D <= Mid(x) /\ Mid(x) <= c.rMidEnd * D
    <3>1. 0 <= 100 * x - M * c.w1Pct /\ 100 * x - M * c.w1Pct <= D
      BY <1>1, <2>5
    <3>2. 0 <= (100 * x - M * c.w1Pct) * Delta
      BY <3>1, <2>1, <1>1
    <3>3. (100 * x - M * c.w1Pct) * Delta <= D * Delta
      BY <3>1, <2>1, <1>1
    <3>. QED BY <3>2, <3>3, <2>1, <1>1
  \* Two points of the middle segment are in the order of their wealths.
  <2>6. Mid(v) <= Mid(w)
    <3>1. (100 * v - M * c.w1Pct) * Delta <= (100 * w - M * c.w1Pct) * Delta
      BY <2>1, <1>1, MulMono
    <3>. QED BY <3>1, <2>1, <1>1
  \* The segments come in the order of the wealths.
  <2>7. /\ Poor(w) => Poor(v)
        /\ InMid(w) => Poor(v) \/ InMid(v)
    BY <1>1, <1>3
  <2>. QED BY <2>1, <2>2, <2>3, <2>4, <2>5, <2>6, <2>7, <1>1
<1>. QED BY <1>2, <1>3

\* Every curve of the scripts whose rates are ordered is monotone.
LEMMA NumMonotone ==
    ASSUME NEW c, c \in CurveConfigs, OrderedCurve(c),
           NEW M \in Int, NEW v \in Int, NEW w \in Int, v <= w
    PROVE  Num(c, v, M) <= Num(c, w, M)
<1>1. CASE c \in FlatCurves
  <2>1. c.kind = "flat" /\ c.rate \in Bps
    BY <1>1 DEF FlatCurves
  <2>2. c.rate \in Int
    BY <2>1, BpsInt
  <2>. QED BY <2>1, <2>2 DEF Num, FlatNum
<1>2. CASE c \in LinearCurves
  <2>1. c.kind = "linear" /\ c.rMin <= c.rMax
    BY <1>2 DEF LinearCurves, OrderedCurve
  <2>2. LinearNum(c, v, M) <= LinearNum(c, w, M)
    BY <1>2, <2>1, LinearMonotone
  <2>. QED BY <2>1, <2>2 DEF Num
<1>3. CASE c \in ThreeSegmentCurves
  <2>1. c.kind = "threeSegment"
    BY <1>3 DEF ThreeSegmentCurves
  <2>2. c.rPoor <= c.rMidStart /\ c.rMidStart <= c.rMidEnd /\ c.rMidEnd <= c.rRich
    BY <2>1 DEF OrderedCurve
  <2>3. ThreeSegmentNum(c, v, M) <= ThreeSegmentNum(c, w, M)
    BY <1>3, <2>2, ThreeSegmentMonotone
  <2>. QED BY <2>1, <2>3 DEF Num
<1>4. CASE c \in ProgressiveCurves
  <2>1. c.kind = "progressive"
    BY <1>4 DEF ProgressiveCurves
  <2>. QED BY <2>1 DEF Num, ProgressiveNum
<1>. QED BY <1>1, <1>2, <1>3, <1>4 DEF CurveConfigs

-----------------------------------------------------------------------------
(* The scan.                                                               *)

\* The scan keeps its type.
LEMMA TypeInvariant == Spec => []TypeOK
<1>1. Init => TypeOK
  BY FeeCurveConstantsAssumption DEF Init, TypeOK
<1>2. TypeOK /\ [Next]_vars => TypeOK'
  BY DEF TypeOK, Next, Scan, vars
<1>. QED BY <1>1, <1>2, PTL DEF Spec

(***************************************************************************)
(* Monotonic fee, for every set of configurations whose rates are ordered  *)
(* and every max_wealth: no step of the scan sees the rate of             *)
(* three_segment_fee_rate, linear_fee_rate, flat_fee_rate or              *)
(* progressive_fee_rate fall.  The hypothesis is the spec's rate_max >=    *)
(* rate_min, extended to the inner rates of the three-segment curve,       *)
(* without which the property fails (the overshoot run).                   *)
(***************************************************************************)
THEOREM FeeMonotoneHolds ==
    ASSUME \A c \in Curves : OrderedCurve(c)
    PROVE  Spec => FeeMonotone
<1>1. TypeOK /\ [Next]_vars => Num(curve, wealth', maxWealth) >= Num(curve, wealth, maxWealth)
  <2> SUFFICES ASSUME TypeOK, [Next]_vars
               PROVE  Num(curve, wealth, maxWealth) <= Num(curve, wealth', maxWealth)
    OBVIOUS
  <2>1. curve \in CurveConfigs /\ OrderedCurve(curve) /\ maxWealth \in Int /\ wealth \in Int
    BY FeeCurveConstantsAssumption DEF TypeOK
  <2>2. wealth' \in Int /\ wealth <= wealth'
    BY <2>1 DEF Next, Scan, vars
  <2>. QED BY <2>1, <2>2, NumMonotone
<1>. QED BY <1>1, TypeInvariant, PTL DEF Spec, FeeMonotone
=============================================================================
