--------------------- MODULE AccountTransfer_invariants ---------------------
(***************************************************************************)
(* The safety invariants of the account transfer engine                    *)
(* (scripts/gini_account_model.py), for every set of accounts, weight      *)
(* scale, prune threshold, decay rate and fee range: supply conservation,  *)
(* the 100% bound on every tag vector, the bound on each cluster's         *)
(* attributed mass, and the bound on the ClusterWealth ledger.             *)
(***************************************************************************)
EXTENDS AccountTransfer_proofs, SumLemmas

\* The accounts, one per cluster, are a finite set.
LEMMA AccountsFinite == IsFiniteSet(Accounts) /\ IsFiniteSet(Clusters)
BY ClustersFinite DEF Accounts

(***************************************************************************)
(* The inductive invariant: the run's invariants together.  The ledger    *)
(* bound is not inductive alone: when a departing mass is clamped at zero, *)
(* the arriving mass that follows is bounded only through the sender's     *)
(* share of the cluster's attribution, which AttributionBounded bounds.    *)
(***************************************************************************)
IInv ==
    /\ TypeOK
    /\ Conservation
    /\ TagMassBounded
    /\ AttributionBounded
    /\ LedgerBounded

-----------------------------------------------------------------------------
(* The tags a transfer writes.                                             *)

\* apply_decay never raises a weight.
LEMMA DecayBelow ==
    ASSUME NEW t \in TagVector, NEW d \in 0..Scale
    PROVE  \A c \in Clusters : ApplyDecay(t, d)[c] <= t[c]
<1> SUFFICES ASSUME NEW c \in Clusters PROVE ApplyDecay(t, d)[c] <= t[c]
  OBVIOUS
<1>1. (t[c] * d) \div Scale \in 0..t[c]
  BY ConstantFacts, ScaledDown DEF TagVector, Weight
<1>2. QED
  BY <1>1 DEF ApplyDecay, Prune, TagVector, Weight

(***************************************************************************)
(* mix_tags of st (value sv) and it (value iv): each weight, times         *)
(* sv + iv, is at most sv * st[c] + iv * it[c]; the floor and the pruning  *)
(* only lower it, and {} is all zeros.                                     *)
(***************************************************************************)
LEMMA MixTagsBound ==
    ASSUME NEW st, NEW sv, NEW it, NEW iv,
           st \in TagVector, sv \in Nat, it \in TagVector, iv \in Nat
    PROVE  \A c \in Clusters :
             (sv + iv) * MixTags(st, sv, it, iv)[c] <= sv * st[c] + iv * it[c]
<1> SUFFICES ASSUME NEW c \in Clusters
             PROVE  (sv + iv) * MixTags(st, sv, it, iv)[c] <= sv * st[c] + iv * it[c]
  OBVIOUS
<1>1. st[c] \in Nat /\ it[c] \in Nat
  BY DEF TagVector, Weight
<1>2. 0 <= sv * st[c] + iv * it[c] /\ sv * st[c] + iv * it[c] \in Nat
  BY <1>1
<1>3. CASE sv + iv = 0
  BY <1>2, <1>3 DEF MixTags, NoTags
<1>4. CASE sv + iv # 0
  <2>1. PICK q \in Nat : /\ q = (sv * st[c] + iv * it[c]) \div (sv + iv)
                         /\ (sv + iv) * q <= sv * st[c] + iv * it[c]
    <3>1. PICK n \in Nat : n = sv * st[c] + iv * it[c]
      BY <1>2
    <3>2. PICK k \in Nat \ {0} : k = sv + iv
      BY <1>4
    <3>3. n \div k \in Nat /\ k * (n \div k) <= n
      BY DivFacts
    <3>4. QED
      BY <3>1, <3>2, <3>3
  <2>2. MixTags(st, sv, it, iv)[c] = Prune(q)
    BY <1>4, <2>1 DEF MixTags
  <2>3. Prune(q) = q \/ Prune(q) = 0
    BY DEF Prune
  <2>4. QED
    BY <1>2, <2>1, <2>2, <2>3
<1>5. QED
  BY <1>3, <1>4

(***************************************************************************)
(* The mix is a convex combination rounded down: when both vectors weigh   *)
(* at most 100%, so does the mix.                                          *)
(***************************************************************************)
LEMMA MixTagsMassBound ==
    ASSUME NEW st, NEW sv, NEW it, NEW iv,
           st \in TagVector, sv \in Nat, it \in TagVector, iv \in Nat,
           Sum(st, Clusters) <= Scale, Sum(it, Clusters) <= Scale
    PROVE  Sum(MixTags(st, sv, it, iv), Clusters) <= Scale
<1>1. PICK m \in TagVector :
        /\ m = MixTags(st, sv, it, iv)
        /\ \A c \in Clusters : (sv + iv) * m[c] <= sv * st[c] + iv * it[c]
  BY MixType, MixTagsBound
<1>2. /\ \A c \in Clusters : st[c] \in Nat /\ it[c] \in Nat /\ m[c] \in Nat
      /\ IsFiniteSet(Clusters) /\ Scale \in Nat
  BY <1>1, AccountsFinite, ConstantFacts DEF TagVector, Weight
<1>3. Sum(st, Clusters) \in Nat /\ Sum(it, Clusters) \in Nat /\ Sum(m, Clusters) \in Nat
  BY <1>2, SumNat
<1>4. CASE sv + iv = 0
  <2>1. m = [c \in Clusters |-> 0 * st[c]]
    BY <1>1, <1>2, <1>4 DEF MixTags, NoTags
  <2>2. Sum([c \in Clusters |-> 0 * st[c]], Clusters) = 0 * Sum(st, Clusters)
    BY <1>2, SumScale
  <2>3. QED
    BY <1>1, <1>2, <1>3, <2>1, <2>2
<1>5. CASE sv + iv # 0
  <2>1. PICK k \in Nat \ {0} : k = sv + iv
    BY <1>5
  <2>2. PICK g1 : g1 = [c \in Clusters |-> sv * st[c]]
    OBVIOUS
  <2>3. PICK g2 : g2 = [c \in Clusters |-> iv * it[c]]
    OBVIOUS
  <2>4. \A c \in Clusters : g1[c] \in Int /\ g2[c] \in Int
    BY <1>2, <2>2, <2>3
  <2>5. Sum([c \in Clusters |-> k * m[c]], Clusters)
          <= Sum([c \in Clusters |-> g1[c] + g2[c]], Clusters)
    BY <1>1, <1>2, <2>1, <2>2, <2>3, <2>4, SumMonotone
  <2>6. Sum([c \in Clusters |-> k * m[c]], Clusters) = k * Sum(m, Clusters)
    BY <1>2, SumScale
  <2>7. Sum([c \in Clusters |-> g1[c] + g2[c]], Clusters)
          = Sum(g1, Clusters) + Sum(g2, Clusters)
    BY <1>2, <2>4, SumPlus
  <2>8. Sum(g1, Clusters) = sv * Sum(st, Clusters)
        /\ Sum(g2, Clusters) = iv * Sum(it, Clusters)
    BY <1>2, <2>2, <2>3, SumScale
  <2>9. sv * Sum(st, Clusters) <= sv * Scale /\ iv * Sum(it, Clusters) <= iv * Scale
    BY <1>2, <1>3, MulLeq
  <2>10. k * Sum(m, Clusters) <= k * Scale
    BY <1>2, <1>3, <2>1, <2>5, <2>6, <2>7, <2>8, <2>9
  <2>11. QED
    BY <1>1, <1>2, <1>3, <2>1, <2>10, MulCancel
<1>6. QED
  BY <1>4, <1>5

-----------------------------------------------------------------------------
(* The invariant holds initially.                                          *)

(***************************************************************************)
(* create_accounts: every account is 100% its own cluster, so each vector  *)
(* weighs exactly 100%, cluster c's attribution is its owner's balance     *)
(* times TAG_SCALE, and the ledger holds each owner's balance.             *)
(***************************************************************************)
LEMMA InitIInv == Init => IInv
<1> SUFFICES ASSUME Init PROVE IInv
  OBVIOUS
<1>1. /\ initialBalance \in [Accounts -> Nat] /\ balance = initialBalance
      /\ IsFiniteSet(Accounts) /\ Scale \in Nat
  BY AccountsFinite, ConstantFacts DEF Init
<1>2. TypeOK
  BY InitTypeOK
<1>3. Conservation
  <2>1. SumFunction(initialBalance) = Sum(initialBalance, Accounts)
    BY <1>1, SumFunctionIsSum
  <2>2. Sum(initialBalance, Accounts) \in Int
    BY <1>1, SumInt
  <2>3. QED
    BY <1>1, <2>1, <2>2 DEF Init, Conservation
<1>4. TagMassBounded
  <2> SUFFICES ASSUME NEW a \in Accounts PROVE SumFunction(tags[a]) <= Scale
    BY DEF TagMassBounded
  <2>1. PICK t \in [Clusters -> Nat] : t = SelfTags(a) /\ t = tags[a]
    BY <1>1 DEF Init, SelfTags
  <2>2. Sum(t, Clusters) = t[a]
    BY <1>1, <2>1, AccountsFinite, SumOnePoint DEF SelfTags, Accounts
  <2>3. SumFunction(t) = Sum(t, DOMAIN t) /\ DOMAIN t = Clusters
    BY <2>1, SumFunctionIsSum
  <2>4. t[a] = Scale
    BY <2>1 DEF SelfTags, Accounts
  <2>5. QED
    BY <1>1, <2>1, <2>2, <2>3, <2>4
<1>5. AttributionBounded
  <2> SUFFICES ASSUME NEW c \in Clusters PROVE Attribution(c) <= initialBalance[c] * Scale
    BY DEF AttributionBounded
  <2>1. PICK f \in [Accounts -> Nat] : f = [a \in Accounts |-> balance[a] * tags[a][c]]
    <3>1. \A a \in Accounts : balance[a] * tags[a][c] \in Nat
      BY <1>1 DEF Init, SelfTags
    <3>2. QED
      BY <3>1
  <2>2. \A a \in Accounts \ {c} : f[a] = 0
    BY <1>1, <2>1 DEF Init, SelfTags
  <2>3. Sum(f, Accounts) = f[c]
    BY <1>1, <2>1, <2>2, SumOnePoint DEF Accounts
  <2>4. f[c] = initialBalance[c] * Scale
    BY <1>1, <2>1 DEF Init, SelfTags, Accounts
  <2>5. SumFunction(f) = Sum(f, DOMAIN f) /\ DOMAIN f = Accounts
    BY <2>1, SumFunctionIsSum
  <2>6. Attribution(c) = SumFunction(f)
    BY <2>1 DEF Attribution
  <2>7. initialBalance[c] * Scale \in Int
    BY <1>1 DEF Accounts
  <2>8. QED
    BY <2>3, <2>4, <2>5, <2>6, <2>7
<1>6. LedgerBounded
  BY <1>1 DEF Init, LedgerBounded, ApplyDeltas, Clamp, Accounts
<1>7. QED
  BY <1>2, <1>3, <1>4, <1>5, <1>6 DEF IInv

-----------------------------------------------------------------------------
(* The arithmetic of one transfer.                                         *)

(***************************************************************************)
(* A cluster's mass at the sender and the receiver.  The sender's term     *)
(* loses amount * x; the receiver's grows by at most net * z, with the     *)
(* net at most the amount and the decayed weight z at most x: the two      *)
(* terms together never grow.                                              *)
(***************************************************************************)
LEMMA AttributionTerms ==
    ASSUME NEW bs \in Nat, NEW br \in Nat, NEW amt \in Nat, NEW net \in Nat,
           NEW x \in Nat, NEW y \in Nat, NEW z \in Nat, NEW mk \in Nat,
           amt <= bs, net <= amt, z <= x,
           (br + net) * mk <= br * y + net * z
    PROVE  (bs - amt) * x + (br + net) * mk <= bs * x + br * y
<1>1. net * z <= net * x
  BY MulLeq
<1>2. net * x <= amt * x
  BY MulLeq
<1>3. (bs - amt) * x = bs * x - amt * x
  OBVIOUS
<1>4. QED
  BY <1>1, <1>2, <1>3

(***************************************************************************)
(* The two apply_delta calls of one cluster: the departing mass L is       *)
(* debited with a clamp at zero, then the arriving mass A <= L credited.   *)
(* The result is at most the old entry or L, so a bound on both bounds it. *)
(***************************************************************************)
LEMMA LedgerStep ==
    ASSUME NEW w \in Nat, NEW L \in Nat, NEW A \in Nat, NEW B \in Int,
           A <= L, w <= B, L <= B
    PROVE  Clamp(Clamp(w + -L) + A) <= B
BY DEF Clamp

\* A weight of a typed tag table is a natural.
LEMMA TagEntryNat ==
    ASSUME NEW t, t \in [Accounts -> TagVector], NEW a \in Accounts, NEW c \in Clusters
    PROVE  t[a][c] \in Nat /\ t[a][c] <= Scale
BY DEF TagVector, Weight

\* A cluster's mass, summed over any typed balances and tags, is a natural.
LEMMA MassNat ==
    ASSUME NEW b \in [Accounts -> Nat], NEW t \in [Accounts -> TagVector], NEW c \in Clusters
    PROVE  SumFunction([a \in Accounts |-> b[a] * t[a][c]]) \in Nat
<1>1. PICK f \in [Accounts -> Nat] : f = [a \in Accounts |-> b[a] * t[a][c]]
  <2>1. \A a \in Accounts : b[a] * t[a][c] \in Nat
    BY TagEntryNat
  <2>2. QED
    BY <2>1
<1>2. SumFunction(f) = Sum(f, DOMAIN f) /\ DOMAIN f = Accounts
  BY <1>1, SumFunctionIsSum
<1>3. QED
  BY <1>1, <1>2, AccountsFinite, SumNat

\* One holder's mass of a cluster is at most the cluster's attribution.
LEMMA HolderBelowAttribution ==
    ASSUME balance \in [Accounts -> Nat], tags \in [Accounts -> TagVector],
           NEW a \in Accounts, NEW c \in Clusters
    PROVE  /\ balance[a] * tags[a][c] <= Attribution(c)
           /\ Attribution(c) \in Nat
<1>1. PICK f \in [Accounts -> Nat] : f = [x \in Accounts |-> balance[x] * tags[x][c]]
  <2>1. \A x \in Accounts : balance[x] * tags[x][c] \in Nat
    BY TagEntryNat
  <2>2. QED
    BY <2>1
<1>2. Attribution(c) = Sum(f, Accounts)
  <2>1. SumFunction(f) = Sum(f, DOMAIN f) /\ DOMAIN f = Accounts
    BY <1>1, SumFunctionIsSum
  <2>2. QED
    BY <1>1, <2>1 DEF Attribution
<1>3. f[a] <= Sum(f, Accounts) /\ Sum(f, Accounts) \in Nat
  BY <1>1, AccountsFinite, TermBelowSum, SumNat
<1>4. QED
  BY <1>1, <1>2, <1>3

-----------------------------------------------------------------------------
(* The invariant is preserved by every transfer.                           *)

(***************************************************************************)
(* execute_transfer between two distinct accounts, for any fee the curve   *)
(* may charge.  Balances plus fees stay put; the receiver's new tags are a *)
(* mix of two vectors of weight at most 100%; no cluster's attributed mass *)
(* grows; and each ledger entry ends at most at its old value or at the    *)
(* mass that left, which the sender's attribution bounds.                  *)
(***************************************************************************)
LEMMA TransferIInv ==
    ASSUME NEW s \in Accounts, NEW r \in Accounts, NEW amount \in 1..MaxAmount
    PROVE  IInv /\ s # r /\ Transfer(s, r, amount) =>
               /\ IInv'
               /\ \A c \in Clusters : Attribution(c)' <= Attribution(c)
<1> SUFFICES ASSUME IInv, s # r, Transfer(s, r, amount)
             PROVE  /\ IInv'
                    /\ \A c \in Clusters : Attribution(c)' <= Attribution(c)
  OBVIOUS
<1>1. TypeOK'
  BY NextTypeOK DEF IInv, Next
<1>2. /\ balance \in [Accounts -> Nat] /\ tags \in [Accounts -> TagVector]
      /\ clusterWealth \in [Clusters -> Nat] /\ totalFees \in Nat
      /\ initialBalance \in [Accounts -> Nat]
      /\ IsFiniteSet(Accounts) /\ Accounts = Clusters
      /\ Scale \in Nat \ {0} /\ DecayRate \in 0..Scale
      /\ amount \in Nat /\ amount <= balance[s]
  BY AccountsFinite, ConstantFacts DEF IInv, TypeOK, Transfer, Accounts
<1>3. PICK fee \in FeeRange(amount) : Settle(s, r, amount, fee)
  BY DEF Transfer
<1>4. fee \in 0..amount /\ initialBalance' = initialBalance
  BY <1>2, FeeWithinAmount DEF Transfer
<1>5. PICK b0 \in Nat : b0 = balance[s]
  BY <1>2
<1>6. PICK b1 \in Nat : b1 = balance[r]
  BY <1>2
<1>7. PICK net \in 0..amount : net = amount - fee
  BY <1>2, <1>4
<1>8. PICK ts \in TagVector : ts = tags[s]
  BY <1>2
<1>9. PICK tr \in TagVector : tr = tags[r]
  BY <1>2
<1>10. PICK tin \in TagVector :
         /\ tin = ApplyDecay(ts, DecayRate)
         /\ \A c \in Clusters : tin[c] <= ts[c]
  BY <1>2, DecayType, DecayBelow
<1>11. PICK m \in TagVector :
         /\ m = MixTags(tr, b1, tin, net)
         /\ \A c \in Clusters : (b1 + net) * m[c] <= b1 * tr[c] + net * tin[c]
  BY MixType, MixTagsBound
<1>12. /\ balance' \in [Accounts -> Nat]
       /\ balance'[s] = b0 - amount /\ balance'[r] = b1 + net
       /\ \A a \in Accounts \ {s, r} : balance'[a] = balance[a]
  BY <1>1, <1>3, <1>5, <1>6, <1>7 DEF Settle, NetAmount, TypeOK
<1>13. /\ tags' \in [Accounts -> TagVector]
       /\ tags'[r] = m /\ \A a \in Accounts \ {r} : tags'[a] = tags[a]
  BY <1>1, <1>2, <1>3, <1>5, <1>6, <1>7, <1>8, <1>9, <1>10, <1>11 DEF Settle, NetAmount, TypeOK
<1>14. /\ totalFees' = totalFees + fee
       /\ \A c \in Clusters :
            clusterWealth'[c]
              = Clamp(Clamp(clusterWealth[c] + -MassLeaving(amount, ts[c]))
                      + MassArriving(net, tin[c]))
  BY <1>2, <1>3, <1>7, <1>8, <1>10 DEF Settle, NetAmount, ApplyDeltas
<1>15. Conservation'
  <2>1. \A x \in Accounts : balance[x] \in Int /\ balance'[x] \in Int
    BY <1>2, <1>12
  <2>2. Sum(balance', Accounts)
          = Sum(balance, Accounts) - b0 - b1 + (b0 - amount) + (b1 + net)
    BY <1>2, <1>5, <1>6, <1>12, <2>1, SumTwoPoints
  <2>3. Sum(balance, Accounts) \in Int
    BY <1>2, <2>1, SumInt
  <2>4. /\ SumFunction(balance') = Sum(balance', DOMAIN balance')
        /\ SumFunction(balance) = Sum(balance, DOMAIN balance)
        /\ DOMAIN balance' = Accounts /\ DOMAIN balance = Accounts
    BY <1>2, <1>12, SumFunctionIsSum
  <2>5. SumFunction(balance) + totalFees = SumFunction(initialBalance)
    BY DEF IInv, Conservation
  <2>6. SumFunction(balance') + totalFees' = SumFunction(initialBalance')
    BY <1>2, <1>4, <1>7, <1>14, <2>2, <2>3, <2>4, <2>5
  <2>7. QED
    BY <2>6 DEF Conservation
<1>16. TagMassBounded'
  <2> SUFFICES ASSUME NEW a \in Accounts PROVE SumFunction(tags'[a]) <= Scale
    BY DEF TagMassBounded
  <2>1. CASE a = r
    <3>1. Sum(tr, Clusters) <= Scale /\ Sum(ts, Clusters) <= Scale
      <4>1. SumFunction(tr) = Sum(tr, DOMAIN tr) /\ SumFunction(ts) = Sum(ts, DOMAIN ts)
        BY SumFunctionIsSum
      <4>2. DOMAIN tr = Clusters /\ DOMAIN ts = Clusters
        BY DEF TagVector
      <4>3. QED
        BY <1>8, <1>9, <4>1, <4>2 DEF IInv, TagMassBounded
    <3>2. \A c \in Clusters : tin[c] \in Int /\ ts[c] \in Int
      BY DEF TagVector, Weight
    <3>3. Sum(tin, Clusters) <= Sum(ts, Clusters)
      BY <1>2, <1>10, <3>2, SumMonotone
    <3>4. Sum(tin, Clusters) \in Int /\ Sum(ts, Clusters) \in Int
      BY <1>2, <3>2, SumInt
    <3>5. Sum(m, Clusters) <= Scale
      BY <1>2, <1>6, <1>7, <1>11, <3>1, <3>3, <3>4, MixTagsMassBound
    <3>6. SumFunction(m) = Sum(m, DOMAIN m) /\ DOMAIN m = Clusters
      BY SumFunctionIsSum DEF TagVector
    <3>7. QED
      BY <1>13, <2>1, <3>5, <3>6
  <2>2. CASE a # r
    BY <1>13, <2>2 DEF IInv, TagMassBounded
  <2>3. QED
    BY <2>1, <2>2
<1>17. \A c \in Clusters : Attribution(c)' <= Attribution(c)
  <2> SUFFICES ASSUME NEW c \in Clusters PROVE Attribution(c)' <= Attribution(c)
    OBVIOUS
  <2>1. PICK c0 \in [Accounts -> Nat] : c0 = [a \in Accounts |-> balance[a] * tags[a][c]]
    <3>1. \A a \in Accounts : balance[a] * tags[a][c] \in Nat
      BY <1>2, TagEntryNat
    <3>2. QED
      BY <3>1
  <2>2. PICK c1 \in [Accounts -> Nat] : c1 = [a \in Accounts |-> balance'[a] * tags'[a][c]]
    <3>1. \A a \in Accounts : balance'[a] * tags'[a][c] \in Nat
      BY <1>12, <1>13, TagEntryNat
    <3>2. QED
      BY <3>1
  <2>3. Attribution(c) = Sum(c0, Accounts) /\ Attribution(c)' = Sum(c1, Accounts)
    <3>1. SumFunction(c0) = Sum(c0, DOMAIN c0) /\ SumFunction(c1) = Sum(c1, DOMAIN c1)
      BY SumFunctionIsSum
    <3>2. QED
      BY <2>1, <2>2, <3>1 DEF Attribution
  <2>4. \A a \in Accounts \ {s, r} : c0[a] = c1[a]
    BY <1>12, <1>13, <2>1, <2>2
  <2>5. /\ c0[s] = b0 * ts[c] /\ c0[r] = b1 * tr[c]
        /\ c1[s] = (b0 - amount) * ts[c] /\ c1[r] = (b1 + net) * m[c]
    <3>1. c0[s] = b0 * ts[c] /\ c0[r] = b1 * tr[c]
      BY <1>5, <1>6, <1>8, <1>9, <2>1
    <3>2. tags'[s] = ts
      BY <1>8, <1>13
    <3>3. c1[s] = (b0 - amount) * ts[c]
      BY <1>12, <2>2, <3>2
    <3>4. c1[r] = (b1 + net) * m[c]
      BY <1>12, <1>13, <2>2
    <3>5. QED
      BY <3>1, <3>3, <3>4
  <2>6. Sum(c1, Accounts) = Sum(c0, Accounts) - c0[s] - c0[r] + c1[s] + c1[r]
    <3>1. \A x \in Accounts : c0[x] \in Int /\ c1[x] \in Int
      BY <2>1, <2>2
    <3>2. QED
      BY <1>2, <2>4, <3>1, SumTwoPoints
  <2>7. c1[s] + c1[r] <= c0[s] + c0[r]
    <3>1. ts[c] \in Nat /\ tr[c] \in Nat /\ tin[c] \in Nat /\ m[c] \in Nat
      BY DEF TagVector, Weight
    <3>2. amount <= b0 /\ net <= amount /\ amount \in Nat /\ net \in Nat
      BY <1>2, <1>5, <1>7
    <3>3. QED
      BY <1>10, <1>11, <2>5, <3>1, <3>2, AttributionTerms
  <2>8. Sum(c0, Accounts) \in Int
    BY <1>2, <2>1, SumInt
  <2>9. QED
    BY <2>3, <2>6, <2>7, <2>8
<1>18. AttributionBounded'
  <2> SUFFICES ASSUME NEW c \in Clusters PROVE Attribution(c)' <= initialBalance'[c] * Scale
    BY DEF AttributionBounded
  <2>1. Attribution(c) <= initialBalance[c] * Scale
    BY DEF IInv, AttributionBounded
  <2>2. Attribution(c) \in Nat /\ Attribution(c)' \in Nat
    <3>1. Attribution(c) \in Nat
      BY <1>2, HolderBelowAttribution
    <3>2. Attribution(c)' \in Nat
      BY <1>12, <1>13, MassNat DEF Attribution
    <3>3. QED
      BY <3>1, <3>2
  <2>3. initialBalance[c] * Scale \in Int
    BY <1>2
  <2>4. QED
    BY <1>4, <1>17, <2>1, <2>2, <2>3
<1>19. LedgerBounded'
  <2> SUFFICES ASSUME NEW c \in Clusters PROVE clusterWealth'[c] <= initialBalance'[c]
    BY DEF LedgerBounded
  <2>1. ts[c] \in Nat /\ tin[c] \in Nat /\ tin[c] <= ts[c] /\ c \in Accounts
    BY <1>2, <1>10 DEF TagVector, Weight
  <2>2. amount * ts[c] \in Nat /\ net * tin[c] \in Nat /\ net * tin[c] <= amount * ts[c]
    <3>1. net * tin[c] <= net * ts[c] /\ net * ts[c] <= amount * ts[c]
      BY <1>2, <1>7, <2>1, MulLeq
    <3>2. QED
      BY <1>2, <1>7, <2>1, <3>1
  <2>3. PICK L \in Nat : L = MassLeaving(amount, ts[c])
    BY <1>2, <2>2, DivFacts DEF MassLeaving
  <2>4. PICK A \in Nat : A = MassArriving(net, tin[c])
    BY <1>2, <2>2, DivFacts DEF MassArriving
  <2>5. A <= L
    BY <1>2, <2>2, <2>3, <2>4, DivMono DEF MassLeaving, MassArriving
  <2>6. amount * ts[c] <= initialBalance[c] * Scale
    <3>1. amount * ts[c] <= b0 * ts[c]
      BY <1>2, <1>5, <2>1, MulLeq
    <3>2. b0 * ts[c] <= Attribution(c) /\ Attribution(c) \in Nat
      BY <1>2, <1>5, <1>8, HolderBelowAttribution
    <3>3. Attribution(c) <= initialBalance[c] * Scale /\ initialBalance[c] * Scale \in Int
      BY <1>2, <2>1 DEF IInv, AttributionBounded
    <3>4. QED
      BY <1>5, <2>1, <2>2, <3>1, <3>2, <3>3
  <2>7. L <= initialBalance[c] /\ initialBalance[c] \in Nat
    BY <1>2, <2>1, <2>2, <2>3, <2>6, DivBelow DEF MassLeaving
  <2>8. clusterWealth[c] <= initialBalance[c] /\ clusterWealth[c] \in Nat
    BY <1>2 DEF IInv, LedgerBounded
  <2>9. clusterWealth'[c] = Clamp(Clamp(clusterWealth[c] + -L) + A)
    BY <1>14, <2>3, <2>4
  <2>10. Clamp(Clamp(clusterWealth[c] + -L) + A) <= initialBalance[c]
    BY <2>5, <2>7, <2>8, LedgerStep
  <2>11. QED
    BY <1>4, <2>9, <2>10
<1>20. QED
  BY <1>1, <1>15, <1>16, <1>17, <1>18, <1>19 DEF IInv

\* Every step of run_round is a transfer between distinct accounts, or
\* changes nothing.
LEMMA NextIInv == IInv /\ [Next]_vars => IInv'
<1> SUFFICES ASSUME IInv, [Next]_vars PROVE IInv'
  OBVIOUS
<1>1. CASE Next
  BY <1>1, TransferIInv DEF Next
<1>2. CASE UNCHANGED vars
  BY <1>2 DEF vars, IInv, TypeOK, Conservation, TagMassBounded,
                AttributionBounded, Attribution, LedgerBounded
<1>3. QED
  BY <1>1, <1>2

-----------------------------------------------------------------------------
(* The theorems.                                                           *)

(***************************************************************************)
(* execute_transfer conserves the supply for every set of accounts and     *)
(* every fee the curve may charge: the balances plus the fees burned       *)
(* always add up to what create_accounts minted.                           *)
(***************************************************************************)
THEOREM ConservationHolds == Spec => []Conservation
<1>1. IInv => Conservation
  BY DEF IInv
<1>2. QED
  BY InitIInv, NextIInv, <1>1, PTL DEF Spec

(***************************************************************************)
(* No account's explicit tags ever weigh more than 100%, so the background *)
(* weight TAG_SCALE - sum(tags) never goes negative, whatever the decay    *)
(* rate and the prune threshold.                                           *)
(***************************************************************************)
THEOREM TagMassBoundedHolds == Spec => []TagMassBounded
<1>1. IInv => TagMassBounded
  BY DEF IInv
<1>2. QED
  BY InitIInv, NextIInv, <1>1, PTL DEF Spec

(***************************************************************************)
(* No cluster is ever attributed more mass than it was minted with: the    *)
(* floors of apply_decay and mix_tags, the decay and the fee only lose     *)
(* attribution.                                                            *)
(***************************************************************************)
THEOREM AttributionBoundedHolds == Spec => []AttributionBounded
<1>1. IInv => AttributionBounded
  BY DEF IInv
<1>2. QED
  BY InitIInv, NextIInv, <1>1, PTL DEF Spec

(***************************************************************************)
(* The ClusterWealth ledger never credits a cluster with more than it was  *)
(* minted with, although apply_delta's clamp at zero can lift an entry:    *)
(* what arrives after a clamp is bounded by the sender's attribution.      *)
(***************************************************************************)
THEOREM LedgerBoundedHolds == Spec => []LedgerBounded
<1>1. IInv => LedgerBounded
  BY DEF IInv
<1>2. QED
  BY InitIInv, NextIInv, <1>1, PTL DEF Spec

(***************************************************************************)
(* No transfer of run_round raises any cluster's attributed mass.          *)
(***************************************************************************)
THEOREM AttributionNeverGrowsHolds == Spec => AttributionNeverGrows
<1>1. IInv /\ [Next]_vars => [\A c \in Clusters : Attribution(c)' <= Attribution(c)]_vars
  <2> SUFFICES ASSUME IInv, [Next]_vars
               PROVE  [\A c \in Clusters : Attribution(c)' <= Attribution(c)]_vars
    OBVIOUS
  <2>1. CASE Next
    BY <2>1, TransferIInv DEF Next
  <2>2. CASE UNCHANGED vars
    BY <2>2
  <2>3. QED
    BY <2>1, <2>2
<1>2. QED
  BY <1>1, InitIInv, NextIInv, PTL DEF Spec, AttributionNeverGrows
=============================================================================
