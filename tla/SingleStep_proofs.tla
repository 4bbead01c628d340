-------------------------- MODULE SingleStep_proofs --------------------------
(***************************************************************************)
(* Conservation in the round simulation of gini_single_step.py, for every  *)
(* number of agents, every curve and every starting wealth: each payment   *)
(* moves the payment from the sender to the recipient and the fee from the *)
(* sender to total_fees, so wealths plus fees stay at the initial total.   *)
(***************************************************************************)
EXTENDS SingleStep, SumLemmas, TLAPS

\* The constants as the proofs use them.
LEMMA ConstantFacts ==
    /\ N \in Nat /\ N >= 2
    /\ InitValues \subseteq Nat
    /\ FeeFn \in Curve!CurveConfigs
    /\ Rounds \in Nat
BY SingleStepConstantsAssumption

\* The agents are a finite set.
LEMMA AgentsFinite == IsFiniteSet(Agents)
BY ConstantFacts, FS_Interval DEF Agents

(***************************************************************************)
(* The inductive invariant: the types Conservation's arithmetic needs, a   *)
(* positive max_wealth (the rate divides by it), and Conservation.         *)
(***************************************************************************)
IInv ==
    /\ wealths \in [Agents -> Int]
    /\ maxWealth \in Nat \ {0}
    /\ turn \in 0..N
    /\ round \in Nat
    /\ totalFees \in Int /\ initialTotal \in Int
    /\ Conservation

-----------------------------------------------------------------------------
(* The fee is an integer whenever max_wealth is positive.                  *)

\* A rate in basis points, and a percentage, are integers.
LEMMA BpsInt ==
    ASSUME NEW x, x \in Curve!Bps \/ x \in 0..100
    PROVE  x \in Int
<1>1. CASE x \in Curve!Bps
  BY <1>1 DEF Curve!Bps
<1>2. CASE x \in 0..100
  BY <1>2
<1>3. QED
  BY <1>1, <1>2

\* Every curve's numerator is an integer, its denominator a positive one.
LEMMA RateTypes ==
    ASSUME NEW w \in Int, NEW M \in Nat \ {0}
    PROVE  /\ Curve!Num(FeeFn, w, M) \in Int
           /\ Curve!Den(FeeFn, M) \in Nat \ {0}
<1>1. CASE FeeFn \in Curve!FlatCurves
  <2>1. FeeFn.kind = "flat" /\ FeeFn.rate \in Curve!Bps
    BY <1>1 DEF Curve!FlatCurves
  <2>2. QED
    BY <2>1, BpsInt DEF Curve!Num, Curve!Den, Curve!FlatNum
<1>2. CASE FeeFn \in Curve!LinearCurves
  <2>1. FeeFn.kind = "linear" /\ FeeFn.rMin \in Curve!Bps /\ FeeFn.rMax \in Curve!Bps
    BY <1>2 DEF Curve!LinearCurves
  <2>2. FeeFn.rMin \in Int /\ FeeFn.rMax \in Int
    BY <2>1, BpsInt
  <2>3. QED
    BY <2>1, <2>2 DEF Curve!Num, Curve!Den, Curve!LinearNum, Curve!LinearDen
<1>3. CASE FeeFn \in Curve!ThreeSegmentCurves
  <2>1. /\ FeeFn.kind = "threeSegment"
        /\ FeeFn.w1Pct \in 0..100 /\ FeeFn.w2Pct \in 0..100 /\ FeeFn.w1Pct < FeeFn.w2Pct
        /\ FeeFn.rPoor \in Curve!Bps /\ FeeFn.rMidStart \in Curve!Bps
        /\ FeeFn.rMidEnd \in Curve!Bps /\ FeeFn.rRich \in Curve!Bps
    BY <1>3 DEF Curve!ThreeSegmentCurves
  <2>2. /\ FeeFn.w1Pct \in Int /\ FeeFn.w2Pct \in Int
        /\ FeeFn.rPoor \in Int /\ FeeFn.rMidStart \in Int
        /\ FeeFn.rMidEnd \in Int /\ FeeFn.rRich \in Int
    BY <2>1, BpsInt
  <2>3. Curve!ThreeSegmentDen(FeeFn, M) \in Nat \ {0}
    <3>1. FeeFn.w2Pct - FeeFn.w1Pct \in Nat \ {0}
      BY <2>1, <2>2
    <3>2. M * (FeeFn.w2Pct - FeeFn.w1Pct) >= M * 1
      BY <3>1
    <3>3. QED
      BY <3>1, <3>2 DEF Curve!ThreeSegmentDen
  <2>4. Curve!ThreeSegmentNum(FeeFn, w, M) \in Int
    BY <2>2, <2>3 DEF Curve!ThreeSegmentNum
  <2>5. QED
    BY <2>1, <2>3, <2>4 DEF Curve!Num, Curve!Den
<1>4. CASE FeeFn \in Curve!ProgressiveCurves
  <2>1. FeeFn.kind = "progressive"
    BY <1>4 DEF Curve!ProgressiveCurves
  <2>2. QED
    BY <2>1 DEF Curve!Num, Curve!Den, Curve!ProgressiveNum
<1>5. QED
  BY <1>1, <1>2, <1>3, <1>4, ConstantFacts DEF Curve!CurveConfigs

\* The payment and the fee are integers.
LEMMA FeeInt ==
    ASSUME NEW w \in Int, NEW M \in Nat \ {0}
    PROVE  /\ Payment(w) \in Int
           /\ Fee(Payment(w), w, M) \in Int
<1>1. Payment(w) \in Int
  BY DEF Payment
<1>2. 10000 * Curve!Den(FeeFn, M) \in Nat \ {0} /\ Curve!Num(FeeFn, w, M) \in Int
  BY RateTypes
<1>3. QED
  BY <1>1, <1>2 DEF Fee
-----------------------------------------------------------------------------
(* The invariant.                                                          *)

LEMMA InitIInv == Init => IInv
<1> SUFFICES ASSUME Init PROVE IInv
  OBVIOUS
<1>1. wealths \in [Agents -> Int]
  <2>1. wealths \in [Agents -> InitValues] /\ InitValues \subseteq Int
    BY ConstantFacts DEF Init
  <2>2. \A a \in Agents : wealths[a] \in Int
    BY <2>1
  <2>3. QED
    BY <2>1, <2>2
<1>2. SumFunction(wealths) \in Int
  BY <1>1, AgentsFinite, SumFunctionIsSum, SumInt
<1>3. N \in Nat
  BY ConstantFacts
<1>4. QED
  BY <1>1, <1>2, <1>3 DEF Init, IInv, Conservation

\* StartRound reads a positive max_wealth: the largest wealth, or 1.
LEMMA StartRoundIInv == IInv /\ StartRound => IInv'
<1> SUFFICES ASSUME IInv, StartRound PROVE IInv'
  OBVIOUS
<1>1. Range(wealths) \subseteq Int /\ Range(wealths) # {}
  <2>1. 0 \in Agents
    BY ConstantFacts DEF Agents
  <2>2. QED
    BY <2>1 DEF IInv, Range
<1>2. IsFiniteSet(Range(wealths))
  BY AgentsFinite, RangeFinite DEF IInv
<1>3. Max(Range(wealths)) \in Int
  BY <1>1, <1>2, MaxIsLargest
<1>4. maxWealth' \in Nat \ {0}
  BY <1>3 DEF StartRound
<1>5. QED
  BY <1>4 DEF StartRound, IInv, Conservation

(***************************************************************************)
(* A payment: the sender loses payment + fee, the recipient gains the      *)
(* payment, total_fees gains the fee.  Two single-entry updates of the     *)
(* wealths, each changing their sum by its difference.                     *)
(***************************************************************************)
LEMMA PayIInv ==
    ASSUME NEW r \in Agents
    PROVE  IInv /\ Pay(r) => IInv'
<1> SUFFICES ASSUME IInv, Pay(r) PROVE IInv'
  OBVIOUS
<1>1. N \in Nat /\ wealths \in [Agents -> Int] /\ maxWealth \in Nat \ {0}
  BY ConstantFacts DEF IInv
<1>2. PICK i \in Agents : i = turn /\ i # r
  BY <1>1 DEF Pay, IInv, Agents
<1>3. PICK p \in Int : p = Payment(wealths[i])
  BY <1>1, <1>2, FeeInt
<1>4. PICK fee \in Int : fee = Fee(p, wealths[i], maxWealth)
  BY <1>1, <1>2, <1>3, FeeInt
<1>5. PICK v \in Int : v = wealths[i] - (p + fee)
  BY <1>1, <1>3, <1>4
<1>6. PICK u \in Int : u = wealths[r] + p
  BY <1>1, <1>3
<1>7. /\ wealths' = [[wealths EXCEPT ![i] = v] EXCEPT ![r] = u]
      /\ totalFees' = totalFees + fee
      /\ turn' = turn + 1 /\ turn < N
      /\ UNCHANGED <<maxWealth, round, initialTotal>>
  BY <1>2, <1>3, <1>4, <1>5, <1>6 DEF Pay
<1>8. PICK w1 \in [Agents -> Int] : w1 = [wealths EXCEPT ![i] = v]
  BY <1>1, <1>5
<1>9. SumFunction(w1) = SumFunction(wealths) - wealths[i] + v
  <2>1. SumFunction([wealths EXCEPT ![i] = v]) = SumFunction(wealths) - wealths[i] + v
    BY <1>1, AgentsFinite, SumFunctionExcept
  <2>2. QED
    BY <1>8, <2>1
<1>10. SumFunction(wealths') = SumFunction(w1) - w1[r] + u /\ w1[r] = wealths[r]
  BY <1>2, <1>7, <1>8, AgentsFinite, SumFunctionExcept
<1>11. SumFunction(wealths) \in Int
  BY <1>1, AgentsFinite, SumFunctionIsSum, SumInt
<1>12. SumFunction(wealths') + totalFees' = initialTotal'
  BY <1>1, <1>3, <1>4, <1>5, <1>6, <1>7, <1>9, <1>10, <1>11 DEF IInv, Conservation
<1>13. QED
  BY <1>1, <1>2, <1>6, <1>7, <1>8, <1>12 DEF IInv, Conservation

LEMMA NextIInv == IInv /\ [Next]_vars => IInv'
<1> SUFFICES ASSUME IInv, [Next]_vars PROVE IInv'
  OBVIOUS
<1>1. CASE StartRound
  BY <1>1, StartRoundIInv
<1>2. CASE \E r \in Agents : Pay(r)
  BY <1>2, PayIInv
<1>3. CASE UNCHANGED vars
  BY <1>3 DEF vars, IInv, Conservation
<1>4. QED
  BY <1>1, <1>2, <1>3 DEF Next

(***************************************************************************)
(* run_single_step and run_multiple_rounds conserve value: after every     *)
(* payment, the agents' wealths plus the fees burned equal the initial     *)
(* total, for every number of agents, curve and starting wealths.          *)
(***************************************************************************)
THEOREM ConservationHolds == Spec => []Conservation
<1>1. IInv => Conservation
  BY DEF IInv
<1>2. QED
  BY InitIInv, NextIInv, <1>1, PTL DEF Spec
=============================================================================
