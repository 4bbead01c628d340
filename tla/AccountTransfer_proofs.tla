----------------------- MODULE AccountTransfer_proofs -----------------------
(***************************************************************************)
(* Proofs about the account transfer engine, for every value of the        *)
(* constants that satisfies the module's assumptions.                      *)
(***************************************************************************)
EXTENDS AccountTransfer, TLAPS

-----------------------------------------------------------------------------
(* The assumptions on the constants, restated as the inequalities the      *)
(* arithmetic backends work with.                                          *)

\* The constants are naturals within the ranges gini_account_model.py uses:
\* a positive TAG_SCALE, a prune threshold and decay rate within it, and
\* fee rates within MAX_RATE_BPS = 10000.
LEMMA ConstantFacts ==
    /\ Scale \in Nat /\ Scale > 0
    /\ PruneThreshold \in Nat /\ 1 <= PruneThreshold /\ PruneThreshold <= Scale
    /\ DecayRate \in Nat /\ DecayRate <= Scale
    /\ RMinBps \in Nat /\ RMaxBps \in Nat
    /\ RMinBps <= RMaxBps /\ RMaxBps <= 10000
    /\ MaxInitBalance \in Nat \ {0} /\ MaxAmount \in Nat \ {0}
    /\ MaxTransfers \in Nat
<1>1. Scale \in Nat /\ Scale > 0
  BY ScaleAssumption
<1>2. PruneThreshold \in Nat /\ 1 <= PruneThreshold /\ PruneThreshold <= Scale
  BY <1>1, ThresholdAssumption
<1>3. DecayRate \in Nat /\ DecayRate <= Scale
  BY <1>1, DecayAssumption
<1>4. RMinBps \in Nat /\ RMinBps <= 10000
  BY RateAssumption
<1>5. RMaxBps \in RMinBps..10000
  BY RateAssumption
<1>6. RMaxBps \in Nat /\ RMinBps <= RMaxBps /\ RMaxBps <= 10000
  BY <1>4, <1>5
<1>. QED BY <1>1, <1>2, <1>3, <1>4, <1>6, BoundsAssumption

USE ConstantFacts

-----------------------------------------------------------------------------
(* Arithmetic facts about the fixed-point operations.                      *)

\* A floor division by k of something at most y * k is at most y.
LEMMA DivBound ==
    ASSUME NEW x \in Nat, NEW y \in Nat, NEW k \in Nat \ {0}, x <= y * k
    PROVE  x \div k \in 0..y
OBVIOUS

\* x * d // k never exceeds x when d <= k.
LEMMA ScaledDown ==
    ASSUME NEW x \in Nat, NEW d \in Nat, NEW k \in Nat \ {0}, d <= k
    PROVE  (x * d) \div k \in 0..x
<1>1. x * d <= x * k
  OBVIOUS
<1>. QED BY <1>1, DivBound

\* A pruned weight is a weight and is its own pruning.
LEMMA PruneWeight ==
    ASSUME NEW w \in Weight
    PROVE  /\ Prune(w) \in Weight
           /\ Prune(Prune(w)) = Prune(w)
BY DEF Prune, Weight

-----------------------------------------------------------------------------
(* The operators of a transfer stay within their types.                    *)

\* The fee is a natural number no larger than the amount: rate_bps never
\* exceeds MAX_RATE_BPS = 10000, so fee = amount * rate // 10000 <= amount.
LEMMA FeeWithinAmount ==
    ASSUME NEW amount \in Nat
    PROVE  FeeRange(amount) \subseteq 0..amount
<1>1. (amount * RMinBps) \div 10000 \in 0..amount
  <2>1. amount * RMinBps \in Nat /\ amount * RMinBps <= amount * 10000
    OBVIOUS
  <2>. QED BY <2>1, DivBound
<1>2. (amount * RMaxBps) \div 10000 \in 0..amount
  <2>1. amount * RMaxBps \in Nat /\ amount * RMaxBps <= amount * 10000
    OBVIOUS
  <2>. QED BY <2>1, DivBound
<1>. QED BY <1>1, <1>2 DEF FeeRange

\* apply_decay keeps a tag vector a tag vector, and every entry pruned.
LEMMA DecayType ==
    ASSUME NEW t \in TagVector, NEW d \in 0..Scale
    PROVE  /\ ApplyDecay(t, d) \in TagVector
           /\ \A c \in Clusters : ApplyDecay(t, d)[c] = Prune(ApplyDecay(t, d)[c])
<1>1. ASSUME NEW c \in Clusters
      PROVE  t[c] - (t[c] * d) \div Scale \in Weight
  <2>1. (t[c] * d) \div Scale \in 0..t[c]
    BY ScaledDown DEF TagVector, Weight
  <2>. QED BY <2>1 DEF TagVector, Weight
<1>. QED BY <1>1, PruneWeight DEF ApplyDecay, TagVector

\* apply_delta clamps at zero, so the ledger stays non-negative whatever
\* the deltas.
LEMMA DeltasNat ==
    ASSUME NEW w \in [Clusters -> Int], NEW d \in [Clusters -> Int]
    PROVE  ApplyDeltas(w, d) \in [Clusters -> Nat]
BY DEF ApplyDeltas, Clamp

\* mix_tags, the value-weighted average, keeps a tag vector a tag vector,
\* and every entry pruned.
LEMMA MixType ==
    ASSUME NEW st, NEW sv, NEW it, NEW iv,
           st \in TagVector, sv \in Nat, it \in TagVector, iv \in Nat
    PROVE  /\ MixTags(st, sv, it, iv) \in TagVector
           /\ \A c \in Clusters :
                MixTags(st, sv, it, iv)[c] = Prune(MixTags(st, sv, it, iv)[c])
<1>1. CASE sv + iv = 0
  BY <1>1, PruneWeight DEF MixTags, NoTags, TagVector, Weight, Prune
<1>2. ASSUME sv + iv # 0, NEW c \in Clusters
      PROVE  Prune((sv * st[c] + iv * it[c]) \div (sv + iv)) \in Weight
             /\ Prune(Prune((sv * st[c] + iv * it[c]) \div (sv + iv)))
                  = Prune((sv * st[c] + iv * it[c]) \div (sv + iv))
  <2>1. st[c] \in 0..Scale /\ it[c] \in 0..Scale
    BY DEF TagVector, Weight
  <2>2. sv * st[c] <= sv * Scale /\ iv * it[c] <= iv * Scale
    BY <2>1
  <2>3. sv * Scale + iv * Scale = Scale * (sv + iv)
    OBVIOUS
  <2>4. sv * st[c] + iv * it[c] <= Scale * (sv + iv)
    BY <2>1, <2>2, <2>3
  <2>5. sv * st[c] + iv * it[c] \in Nat /\ sv + iv \in Nat \ {0}
    BY <1>2, <2>1
  <2>6. (sv * st[c] + iv * it[c]) \div (sv + iv) \in Weight
    BY <2>4, <2>5, DivBound DEF Weight
  <2>. QED BY <2>6, PruneWeight
<1>3. CASE sv + iv # 0
  <2>1. MixTags(st, sv, it, iv)
          = [c \in Clusters |-> Prune((sv * st[c] + iv * it[c]) \div (sv + iv))]
    BY <1>3 DEF MixTags
  <2>2. [c \in Clusters |-> Prune((sv * st[c] + iv * it[c]) \div (sv + iv))]
          \in [Clusters -> Weight]
    BY <1>3, <1>2
  <2>. QED BY <1>3, <1>2, <2>1, <2>2 DEF TagVector
<1>. QED BY <1>1, <1>3

-----------------------------------------------------------------------------
(* Type correctness.                                                       *)

\* Every initial state of create_accounts is well typed.
LEMMA InitTypeOK == Init => TypeOK
<1> SUFFICES ASSUME Init PROVE TypeOK
  OBVIOUS
<1>1. tags \in [Accounts -> TagVector]
  BY DEF Init, SelfTags, TagVector, Weight, Accounts
<1>2. \A a \in Accounts, c \in Clusters : tags[a][c] = Prune(tags[a][c])
  BY DEF Init, SelfTags, Prune, Accounts
<1>3. clusterWealth \in [Clusters -> Nat]
  BY DEF Init, ApplyDeltas, Clamp, Accounts
<1>. QED BY <1>1, <1>2, <1>3 DEF Init, TypeOK

\* The effects of one transfer, for a fee of at most the amount and an
\* amount the sender holds, keep every variable Settle changes within its
\* type: balances and ledger entries never go negative, and the mixed tags
\* of the receiver remain pruned weights.
LEMMA SettleTypeOK ==
    ASSUME TypeOK, NEW s \in Accounts, NEW r \in Accounts,
           NEW amount \in Nat, amount <= balance[s],
           NEW fee \in 0..amount, Settle(s, r, amount, fee)
    PROVE  /\ balance' \in [Accounts -> Nat]
           /\ tags' \in [Accounts -> TagVector]
           /\ \A a \in Accounts, c \in Clusters : tags'[a][c] = Prune(tags'[a][c])
           /\ clusterWealth' \in [Clusters -> Nat]
           /\ totalFees' \in Nat
<1> DEFINE net         == NetAmount(amount, fee)
           debited     == [balance EXCEPT ![s] = @ - amount]
           transferred == ApplyDecay(tags[s], DecayRate)
           mixed       == MixTags(tags[r], debited[r], transferred, net)
           leaving     == [c \in Clusters |-> -MassLeaving(amount, tags[s][c])]
           arriving    == [c \in Clusters |-> MassArriving(net, transferred[c])]
<1>1. /\ balance' = [debited EXCEPT ![r] = @ + net]
      /\ clusterWealth' = ApplyDeltas(ApplyDeltas(clusterWealth, leaving), arriving)
      /\ tags' = [tags EXCEPT ![r] = mixed]
      /\ totalFees' = totalFees + fee
  BY DEF Settle
<1>2. debited \in [Accounts -> Nat] /\ net \in Nat
  <2>1. balance[s] - amount \in Nat
    BY DEF TypeOK
  <2>2. debited \in [Accounts -> Nat]
    BY <2>1 DEF TypeOK
  <2>3. net \in Nat
    BY DEF NetAmount
  <2>. QED BY <2>2, <2>3
<1>3. balance' \in [Accounts -> Nat]
  BY <1>1, <1>2
<1>4. tags[s] \in TagVector /\ tags[r] \in TagVector
  BY DEF TypeOK
<1>5. transferred \in TagVector
  BY <1>4, DecayType
<1>6. mixed \in TagVector /\ \A c \in Clusters : mixed[c] = Prune(mixed[c])
  <2>1. debited[r] \in Nat
    BY <1>2
  <2>2. MixTags(tags[r], debited[r], transferred, net) \in TagVector
    BY <2>1, <1>2, <1>4, <1>5, MixType
  <2>3. \A c \in Clusters : MixTags(tags[r], debited[r], transferred, net)[c]
                             = Prune(MixTags(tags[r], debited[r], transferred, net)[c])
    BY <2>1, <1>2, <1>4, <1>5, MixType
  <2>. QED BY <2>2, <2>3
<1>7. tags' \in [Accounts -> TagVector]
  <2>. HIDE DEF mixed
  <2>. QED BY <1>1, <1>6 DEF TypeOK
<1>8. \A a \in Accounts, c \in Clusters : tags'[a][c] = Prune(tags'[a][c])
  <2>. HIDE DEF mixed
  <2>. QED BY <1>1, <1>6 DEF TypeOK
<1>9. clusterWealth' \in [Clusters -> Nat]
  <2>1. \A c \in Clusters : tags[s][c] \in 0..Scale /\ transferred[c] \in 0..Scale
    BY <1>4, <1>5 DEF TagVector, Weight
  <2>2. leaving \in [Clusters -> Int] /\ arriving \in [Clusters -> Int]
    BY <1>2, <2>1 DEF MassLeaving, MassArriving
  <2>3. ApplyDeltas(clusterWealth, leaving) \in [Clusters -> Nat]
    BY <2>2, DeltasNat DEF TypeOK
  <2>. HIDE DEF leaving, arriving
  <2>. QED BY <1>1, <2>2, <2>3, DeltasNat
<1>10. totalFees' \in Nat
  BY <1>1 DEF TypeOK
<1>. QED BY <1>3, <1>7, <1>8, <1>9, <1>10

\* execute_transfer, for any fee the curve may charge, keeps the state well
\* typed; a stuttering step trivially does.
LEMMA NextTypeOK == TypeOK /\ [Next]_vars => TypeOK'
<1> SUFFICES ASSUME TypeOK, [Next]_vars PROVE TypeOK'
  OBVIOUS
<1>1. CASE UNCHANGED vars
  BY <1>1 DEF TypeOK, vars
<1>2. ASSUME NEW s \in Accounts, NEW r \in Accounts,
             NEW amount \in 1..MaxAmount, Transfer(s, r, amount)
      PROVE  TypeOK'
  <2>1. PICK fee \in FeeRange(amount) : Settle(s, r, amount, fee)
    BY <1>2 DEF Transfer
  <2>2. fee \in 0..amount /\ amount <= balance[s]
    BY <1>2, FeeWithinAmount DEF Transfer
  <2>3. initialBalance' = initialBalance /\ transfers' \in 0..MaxTransfers
    BY <1>2 DEF Transfer, TypeOK
  <2>. QED BY <2>1, <2>2, <2>3, SettleTypeOK DEF TypeOK
<1>. QED BY <1>1, <1>2 DEF Next

\* The account model's state is well typed in every reachable state; in
\* particular every tag weight stays within 0..TAG_SCALE and is pruned.
THEOREM TypeCorrect == Spec => []TypeOK
BY InitTypeOK, NextTypeOK, PTL DEF Spec
=============================================================================
