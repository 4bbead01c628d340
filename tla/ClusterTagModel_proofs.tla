----------------------- MODULE ClusterTagModel_proofs -----------------------
(***************************************************************************)
(* Proofs about the cluster simulation of gini_cluster_model.py, for any   *)
(* number of agents of each type, any balances and any fee bounds:         *)
(*   - value is conserved: balances plus fees equal the initial supply;    *)
(*   - no agent's tags add up to more than 1.0;                            *)
(*   - the cluster wealth run_round caches never understates the effective *)
(*     wealth a sender's fee is computed from.                             *)
(* The last rests on an inductive invariant: every cluster's cached wealth *)
(* is at least its current wealth, because a transfer never raises a       *)
(* cluster's wealth (the fee leaves the system, the decay and the floor of *)
(* the mix lose weight) and StartRound refreshes the cache.                *)
(***************************************************************************)
EXTENDS ClusterTagModel, SumLemmas, TLAPS

\* The constants as the proofs use them.
LEMMA ConstantFacts ==
    /\ IsFiniteSet(Agents)
    /\ InitValues \subseteq Nat
    /\ Scale \in Nat \ {0} /\ PruneUnits \in Nat
    /\ DecayPct \in 0..100
    /\ RMinBps \in Nat /\ RMaxBps \in Nat
    /\ MaxTransfers \in Nat /\ MaxRounds \in Nat \ {0}
<1>0. IsFiniteSet(Retail) /\ IsFiniteSet(Merchants) /\ IsFiniteSet(Whales)
  BY ClusterTagConstantsAssumption
<1>1. IsFiniteSet(Retail \cup Merchants)
  BY <1>0, FS_Union
<1>3. IsFiniteSet(Retail \cup Merchants \cup Whales)
  BY <1>0, <1>1, FS_Union
<1>2. QED
  BY <1>3, ClusterTagConstantsAssumption DEF Agents

\* The agent types are disjoint.
LEMMA TypesDisjoint ==
    Retail \cap Merchants = {} /\ Retail \cap Whales = {} /\ Merchants \cap Whales = {}
BY ClusterTagConstantsAssumption

\* A tag vector: a weight in 0..Scale per cluster.
TagVec == [Agents -> 0..Scale]

\* An entry of a table of tag vectors is a weight.
LEMMA TagEntry ==
    ASSUME NEW t, t \in [Agents -> TagVec], NEW a \in Agents, NEW k \in Agents
    PROVE  t[a][k] \in 0..Scale /\ t[a][k] \in Nat
BY ConstantFacts DEF TagVec

\* Every cached cluster wealth is at least the cluster's current wealth.
CacheCovers == \A k \in Agents : cache[k] >= ClusterWealth(k)

\* The inductive invariant.
IInv == TypeOK /\ Conservation /\ TagsSumAtMostOne /\ CacheCovers

-----------------------------------------------------------------------------
(* Arithmetic.                                                             *)


-----------------------------------------------------------------------------
(* The tags a transfer writes.                                             *)

\* The decay keeps each weight within 0..Scale and never raises it.
LEMMA IncomingBound ==
    ASSUME NEW t, t \in TagVec
    PROVE  /\ Incoming(t) \in TagVec
           /\ \A k \in Agents : Incoming(t)[k] <= t[k]
<1>1. ASSUME NEW k \in Agents
      PROVE  (t[k] * (100 - DecayPct)) \div 100 \in 0..t[k]
  <2>1. t[k] \in Nat /\ 100 - DecayPct \in 0..100
    BY ConstantFacts DEF TagVec
  <2>2. t[k] * (100 - DecayPct) <= t[k] * 100 /\ t[k] * (100 - DecayPct) \in Nat
    BY <2>1, MulLeq
  <2>3. QED
    BY <2>1, <2>2, DivBelow
<1>2. QED
  BY <1>1, ConstantFacts DEF Incoming, TagVec

(***************************************************************************)
(* The mix of the receiver's tags tr (weight old) and the incoming tags    *)
(* tin (weight amount): each weight, times old + amount, is at most        *)
(* old * tr[k] + amount * tin[k], and the mix is again a tag vector.       *)
(***************************************************************************)
LEMMA MixBound ==
    ASSUME NEW tr, NEW tin, tr \in TagVec, tin \in TagVec,
           NEW old \in Nat, NEW amount \in Nat \ {0}
    PROVE  /\ Mix(tr, tin, old, amount) \in TagVec
           /\ \A k \in Agents :
                (old + amount) * Mix(tr, tin, old, amount)[k]
                  <= old * tr[k] + amount * tin[k]
<1>1. ASSUME NEW k \in Agents
      PROVE  /\ (tr[k] * old + tin[k] * amount) \div (old + amount) \in 0..Scale
             /\ (old + amount) * ((tr[k] * old + tin[k] * amount) \div (old + amount))
                  <= old * tr[k] + amount * tin[k]
  <2>1. tr[k] \in 0..Scale /\ tin[k] \in 0..Scale /\ Scale \in Nat
    BY ConstantFacts DEF TagVec
  <2>2. tr[k] * old + tin[k] * amount \in Nat
        /\ tr[k] * old + tin[k] * amount <= Scale * (old + amount)
    <3>1. old * tr[k] <= old * Scale /\ amount * tin[k] <= amount * Scale
      BY <2>1, MulLeq
    <3>2. QED
      BY <2>1, <3>1
  <2>3. old + amount \in Nat \ {0}
    OBVIOUS
  <2>4. /\ (tr[k] * old + tin[k] * amount) \div (old + amount) \in Nat
        /\ (old + amount) * ((tr[k] * old + tin[k] * amount) \div (old + amount))
             <= tr[k] * old + tin[k] * amount
    BY <2>2, <2>3, DivFacts
  <2>5. (tr[k] * old + tin[k] * amount) \div (old + amount) <= Scale
    BY <2>1, <2>2, <2>3, DivBelow
  <2>6. tr[k] * old + tin[k] * amount = old * tr[k] + amount * tin[k]
    BY <2>1
  <2>7. QED
    BY <2>4, <2>5, <2>6
<1>2. ASSUME NEW k \in Agents
      PROVE  /\ Mix(tr, tin, old, amount)[k] \in 0..Scale
             /\ (old + amount) * Mix(tr, tin, old, amount)[k] <= old * tr[k] + amount * tin[k]
  <2>1. PICK q \in 0..Scale :
          /\ q = (tr[k] * old + tin[k] * amount) \div (old + amount)
          /\ (old + amount) * q <= old * tr[k] + amount * tin[k]
    BY <1>1
  <2>2. Mix(tr, tin, old, amount)[k] = IF q > PruneUnits THEN q ELSE 0
    BY <2>1 DEF Mix
  <2>3. 0 <= old * tr[k] + amount * tin[k] /\ Scale \in Nat
    <3>1. tr[k] \in Nat /\ tin[k] \in Nat
      BY DEF TagVec
    <3>2. old * 0 <= old * tr[k] /\ amount * 0 <= amount * tin[k]
      BY <3>1, MulLeq
    <3>3. QED
      BY <3>1, <3>2, ConstantFacts
  <2>4. CASE q > PruneUnits
    BY <2>1, <2>2, <2>4
  <2>5. CASE ~(q > PruneUnits)
    BY <2>2, <2>3, <2>5
  <2>6. QED
    BY <2>4, <2>5
<1>3. Mix(tr, tin, old, amount) \in [Agents -> 0..Scale]
  BY <1>2 DEF Mix
<1>4. QED
  BY <1>2, <1>3 DEF TagVec
(***************************************************************************)
(* The mix is a convex combination, rounded down: its weights add up to at *)
(* most 1.0 when those of both vectors mixed do.  Multiplied by old +      *)
(* amount, its sum is at most old * sum(tr) + amount * sum(tin).           *)
(***************************************************************************)
LEMMA MixSumBound ==
    ASSUME NEW tr, NEW tin, tr \in TagVec, tin \in TagVec,
           NEW old \in Nat, NEW amount \in Nat \ {0},
           Sum(tr, Agents) <= Scale, Sum(tin, Agents) <= Scale
    PROVE  Sum(Mix(tr, tin, old, amount), Agents) <= Scale
<1>1. PICK m \in TagVec :
        /\ m = Mix(tr, tin, old, amount)
        /\ \A k \in Agents : (old + amount) * m[k] <= old * tr[k] + amount * tin[k]
  BY MixBound
<1>2. PICK c \in Nat \ {0} : c = old + amount
  OBVIOUS
<1>3. PICK g1 : g1 = [j \in Agents |-> old * tr[j]]
  OBVIOUS
<1>4. PICK g2 : g2 = [j \in Agents |-> amount * tin[j]]
  OBVIOUS
<1>5. /\ \A k \in Agents : tr[k] \in Nat /\ tin[k] \in Nat /\ m[k] \in Nat
      /\ \A k \in Agents : g1[k] \in Int /\ g2[k] \in Int
      /\ IsFiniteSet(Agents) /\ Scale \in Nat
  BY <1>1, <1>3, <1>4, ConstantFacts DEF TagVec
<1>6. Sum([k \in Agents |-> c * m[k]], Agents) <= Sum([k \in Agents |-> g1[k] + g2[k]], Agents)
  BY <1>1, <1>2, <1>3, <1>4, <1>5, SumMonotone
<1>7. Sum([k \in Agents |-> c * m[k]], Agents) = c * Sum(m, Agents)
  BY <1>5, SumScale
<1>8. Sum([k \in Agents |-> g1[k] + g2[k]], Agents) = Sum(g1, Agents) + Sum(g2, Agents)
  BY <1>5, SumPlus
<1>9. Sum(g1, Agents) = old * Sum(tr, Agents) /\ Sum(g2, Agents) = amount * Sum(tin, Agents)
  BY <1>3, <1>4, <1>5, SumScale
<1>10. Sum(tr, Agents) \in Nat /\ Sum(tin, Agents) \in Nat /\ Sum(m, Agents) \in Nat
  BY <1>5, SumNat
<1>11. old * Sum(tr, Agents) + amount * Sum(tin, Agents) <= c * Scale
  <2>1. old * Sum(tr, Agents) <= old * Scale /\ amount * Sum(tin, Agents) <= amount * Scale
    BY <1>5, <1>10, MulLeq
  <2>2. QED
    BY <1>2, <1>5, <1>10, <2>1
<1>12. c * Sum(m, Agents) <= c * Scale
  BY <1>5, <1>6, <1>7, <1>8, <1>9, <1>10, <1>11
<1>13. QED
  BY <1>1, <1>5, <1>10, <1>12, MulCancel

\* The decayed tags add up to no more than the tags they came from.
LEMMA IncomingSum ==
    ASSUME NEW t, t \in TagVec
    PROVE  Sum(Incoming(t), Agents) <= Sum(t, Agents)
<1>1. Incoming(t) \in TagVec /\ \A k \in Agents : Incoming(t)[k] <= t[k]
  BY IncomingBound
<1>2. QED
  BY <1>1, ConstantFacts, SumMonotone DEF TagVec
-----------------------------------------------------------------------------
(* Cluster wealth.                                                         *)

\* A cluster's wealth, summed over the agents, is a natural.
LEMMA ClusterWealthNat ==
    ASSUME NEW b \in [Agents -> Nat], NEW t \in [Agents -> TagVec], NEW k \in Agents
    PROVE  SumFunction([a \in Agents |-> b[a] * t[a][k]]) \in Nat
<1>1. PICK f \in [Agents -> Nat] : f = [a \in Agents |-> b[a] * t[a][k]]
  <2>1. \A a \in Agents : b[a] * t[a][k] \in Nat
    BY TagEntry
  <2>2. QED
    BY <2>1
<1>2. Sum(f, Agents) \in Nat
  BY ConstantFacts, SumNat
<1>3. QED
  BY <1>1, <1>2, SumFunctionIsSum

-----------------------------------------------------------------------------
(* The invariant holds initially and after every step.                     *)

(***************************************************************************)
(* Initially every agent is 100% its own cluster: its tags sum to 1.0 and  *)
(* cluster k's wealth is its owner's balance times 1.0, which is what the  *)
(* cache holds.                                                            *)
(***************************************************************************)
LEMMA InitIInv == Init => IInv
<1> SUFFICES ASSUME Init PROVE IInv
  OBVIOUS
<1>1. PICK wealth \in [Agents -> InitValues] :
        /\ balance = wealth
        /\ tags = [a \in Agents |-> [k \in Agents |-> IF k = a THEN Scale ELSE 0]]
        /\ cache = [k \in Agents |-> wealth[k] * Scale]
        /\ totalFees = 0
        /\ initialSupply = SumFunction(wealth)
        /\ transfers = 0
        /\ rounds = 1
  BY DEF Init
<1>2. balance \in [Agents -> Nat] /\ tags \in [Agents -> TagVec]
  <2>1. wealth \in [Agents -> Nat]
    <3>1. \A a \in Agents : wealth[a] \in Nat
      BY ConstantFacts
    <3>2. QED
      BY <3>1
  <2>2. \A a \in Agents : [k \in Agents |-> IF k = a THEN Scale ELSE 0] \in TagVec
    BY ConstantFacts DEF TagVec
  <2>3. QED
    BY <1>1, <2>1, <2>2
<1>3. SumFunction(wealth) \in Nat
  BY <1>1, <1>2, ConstantFacts, SumFunctionIsSum, SumNat
<1>4. TypeOK
  BY <1>1, <1>2, <1>3, ConstantFacts DEF TypeOK, TagVec
<1>5. Conservation
  BY <1>1, <1>3 DEF Conservation
<1>6. ASSUME NEW a \in Agents PROVE SumFunction(tags[a]) <= Scale
  <2>1. PICK t \in [Agents -> Int] : t = tags[a]
    BY <1>1, ConstantFacts
  <2>2. t[a] = Scale /\ \A x \in Agents \ {a} : t[x] = 0
    BY <1>1, <2>1
  <2>3. Sum(t, Agents) = t[a]
    BY <2>1, <2>2, ConstantFacts, SumOnePoint
  <2>4. QED
    BY <2>1, <2>2, <2>3, SumFunctionIsSum
<1>7. ASSUME NEW k \in Agents PROVE cache[k] >= ClusterWealth(k)
  <2>1. PICK f \in [Agents -> Nat] : f = [a \in Agents |-> balance[a] * tags[a][k]]
    <3>1. \A a \in Agents : balance[a] * tags[a][k] \in Nat
      BY <1>2, TagEntry
    <3>2. QED
      BY <3>1
  <2>2. f[k] = wealth[k] * Scale /\ \A x \in Agents \ {k} : f[x] = 0
    <3>1. \A x \in Agents : f[x] = wealth[x] * tags[x][k] /\ wealth[x] \in Nat
      BY <1>1, <1>2, <2>1
    <3>2. tags[k][k] = Scale /\ \A x \in Agents \ {k} : tags[x][k] = 0
      BY <1>1
    <3>3. QED
      BY <3>1, <3>2
  <2>3. Sum(f, Agents) = f[k]
    BY <2>1, <2>2, ConstantFacts, SumOnePoint
  <2>4. ClusterWealth(k) = wealth[k] * Scale
    BY <2>1, <2>2, <2>3, SumFunctionIsSum DEF ClusterWealth
  <2>5. cache[k] = wealth[k] * Scale /\ wealth[k] * Scale \in Nat
    BY <1>1, <1>2, ConstantFacts
  <2>6. QED
    BY <2>4, <2>5
<1>8. QED
  BY <1>4, <1>5, <1>6, <1>7 DEF IInv, TagsSumAtMostOne, CacheCovers

(***************************************************************************)
(* StartRound refreshes the cache: each entry is then the cluster's wealth *)
(* itself, a natural.                                                      *)
(***************************************************************************)
LEMMA StartRoundIInv == IInv /\ StartRound => IInv'
<1> SUFFICES ASSUME IInv, StartRound PROVE IInv'
  OBVIOUS
<1>1. balance \in [Agents -> Nat] /\ tags \in [Agents -> TagVec]
  BY DEF IInv, TypeOK, TagVec
<1>2. \A k \in Agents : ClusterWealth(k) \in Nat
  BY <1>1, ClusterWealthNat DEF ClusterWealth
<1>3. cache' = [k \in Agents |-> ClusterWealth(k)]
  BY DEF StartRound, ClusterWealthTable
<1>4. \A k \in Agents : ClusterWealth(k)' = ClusterWealth(k)
  BY DEF StartRound, ClusterWealth
<1>5. TypeOK'
  <2>1. cache' \in [Agents -> Nat]
    BY <1>2, <1>3
  <2>2. rounds' \in 0..MaxRounds
    BY ConstantFacts DEF IInv, TypeOK, StartRound
  <2>3. UNCHANGED <<balance, tags, totalFees, initialSupply, transfers>>
    BY DEF StartRound
  <2>4. QED
    BY <2>1, <2>2, <2>3 DEF IInv, TypeOK
<1>6. CacheCovers'
  BY <1>2, <1>3, <1>4 DEF CacheCovers
<1>7. QED
  BY <1>5, <1>6 DEF IInv, StartRound, Conservation, TagsSumAtMostOne
(***************************************************************************)
(* What one transfer does to cluster k's wealth at the sender and the      *)
(* receiver.  The sender's term loses (amount + fee) * ts[k]; the          *)
(* receiver's is at most its old term plus amount * tin[k], and the        *)
(* decayed weight tin[k] is at most ts[k]: the two terms together never    *)
(* grow.                                                                   *)
(***************************************************************************)
LEMMA TransferTerms ==
    ASSUME NEW bs \in Nat, NEW br \in Nat, NEW amt \in Nat, NEW fee \in Nat,
           NEW x \in Nat, NEW y \in Nat, NEW z \in Nat, NEW mk \in Nat,
           amt + fee <= bs, z <= x,
           (br + amt) * mk <= br * y + amt * z
    PROVE  (bs - (amt + fee)) * x + (br + amt) * mk <= bs * x + br * y
<1>1. amt * z <= amt * x
  BY MulLeq
<1>2. (bs - (amt + fee)) * x = bs * x - amt * x - fee * x
  OBVIOUS
<1>3. fee * 0 <= fee * x
  BY MulLeq
<1>4. QED
  BY <1>1, <1>2, <1>3

(***************************************************************************)
(* A transfer between a sender and a different receiver.  Balances plus    *)
(* fees stay put (the sender pays amount + fee, the receiver gets the      *)
(* amount, the fee is burned); the receiver's new tags are a mix of two    *)
(* vectors of weight at most 1.0; and every cluster's wealth falls or      *)
(* stays, so the unchanged cache still covers it.                          *)
(***************************************************************************)
LEMMA TransferIInv ==
    ASSUME NEW s \in Agents, NEW r \in Agents, NEW amount \in 1..MaxAmount
    PROVE  IInv /\ Pays(s, r) /\ Transfer(s, r, amount) =>
               /\ IInv'
               /\ \A k \in Agents : ClusterWealth(k)' <= ClusterWealth(k)
<1> SUFFICES ASSUME IInv, Pays(s, r), Transfer(s, r, amount)
             PROVE  /\ IInv'
                    /\ \A k \in Agents : ClusterWealth(k)' <= ClusterWealth(k)
  OBVIOUS
<1>1. s # r
  BY TypesDisjoint DEF Pays
<1>2. /\ balance \in [Agents -> Nat] /\ tags \in [Agents -> TagVec]
      /\ cache \in [Agents -> Nat] /\ totalFees \in Nat
      /\ transfers \in 0..MaxTransfers /\ rounds \in 0..MaxRounds
      /\ IsFiniteSet(Agents) /\ amount \in Nat \ {0}
  BY ConstantFacts DEF IInv, TypeOK, TagVec
<1>3. PICK fee \in FeeRange(amount) :
        /\ amount + fee <= balance[s]
        /\ balance' = [balance EXCEPT ![s] = @ - (amount + fee),
                                      ![r] = @ + ReceiverCredit(amount, fee)]
        /\ tags' = [tags EXCEPT ![r] = Mix(tags[r], Incoming(tags[s]), balance[r], amount)]
        /\ totalFees' = totalFees + fee
  BY DEF Transfer
<1>4. fee \in Nat
  <2>1. amount * RMinBps \in Nat
    BY <1>2, ConstantFacts
  <2>2. (amount * RMinBps) \div 10000 \in Nat
    BY <2>1, DivFacts
  <2>3. QED
    BY <1>3, <2>2 DEF FeeRange
<1>5. /\ transfers < MaxTransfers /\ transfers' = transfers + 1
      /\ UNCHANGED <<cache, initialSupply, rounds>>
  BY DEF Transfer
<1>6. PICK b0 \in Nat : b0 = balance[s]
  BY <1>2
<1>7. PICK b1 \in Nat : b1 = balance[r]
  BY <1>2
<1>8. PICK ts \in TagVec : ts = tags[s]
  BY <1>2
<1>9. PICK tr \in TagVec : tr = tags[r]
  BY <1>2
<1>10. PICK tin \in TagVec : tin = Incoming(ts) /\ \A k \in Agents : tin[k] <= ts[k]
  BY IncomingBound
<1>11. PICK m \in TagVec :
         /\ m = Mix(tr, tin, b1, amount)
         /\ \A k \in Agents : (b1 + amount) * m[k] <= b1 * tr[k] + amount * tin[k]
  BY <1>2, MixBound
<1>12. /\ balance' = [balance EXCEPT ![s] = b0 - (amount + fee), ![r] = b1 + amount]
       /\ tags' = [tags EXCEPT ![r] = m]
  BY <1>3, <1>6, <1>7, <1>8, <1>9, <1>10, <1>11 DEF ReceiverCredit
<1>13. /\ balance' \in [Agents -> Nat]
       /\ balance'[s] = b0 - (amount + fee) /\ balance'[r] = b1 + amount
       /\ \A a \in Agents \ {s, r} : balance'[a] = balance[a]
  BY <1>1, <1>2, <1>3, <1>4, <1>6, <1>7, <1>12
<1>14. /\ tags' \in [Agents -> TagVec]
       /\ tags'[r] = m /\ \A a \in Agents \ {r} : tags'[a] = tags[a]
  BY <1>2, <1>11, <1>12
<1>15. TypeOK'
  <2>1. totalFees' \in Nat
    BY <1>2, <1>3, <1>4
  <2>2. transfers' \in 0..MaxTransfers
    BY <1>2, <1>5, ConstantFacts
  <2>3. cache' \in [Agents -> Nat] /\ initialSupply' \in Nat /\ rounds' \in 0..MaxRounds
    BY <1>5 DEF IInv, TypeOK
  <2>4. QED
    BY <1>13, <1>14, <2>1, <2>2, <2>3 DEF TypeOK, TagVec
<1>16. Conservation'
  <2>1. Sum(balance', Agents) = Sum(balance, Agents) - b0 - b1 + (b0 - (amount + fee)) + (b1 + amount)
    BY <1>1, <1>2, <1>6, <1>7, <1>13, SumTwoPoints
  <2>2. Sum(balance, Agents) \in Int
    BY <1>2, SumInt
  <2>3. SumFunction(balance') = Sum(balance', Agents) /\ SumFunction(balance) = Sum(balance, Agents)
    BY <1>2, <1>13, SumFunctionIsSum
  <2>4. SumFunction(balance) + totalFees = initialSupply
    BY DEF IInv, Conservation
  <2>5. /\ totalFees' = totalFees + fee /\ initialSupply' = initialSupply
        /\ totalFees \in Int /\ fee \in Int
    BY <1>2, <1>3, <1>4, <1>5
  <2>6. SumFunction(balance') + totalFees' = initialSupply'
    BY <2>1, <2>2, <2>3, <2>4, <2>5
  <2>7. QED
    BY <2>6 DEF Conservation
<1>17. TagsSumAtMostOne'
  <2>1. Sum(tr, Agents) <= Scale /\ Sum(ts, Agents) <= Scale
    BY <1>8, <1>9, SumFunctionIsSum DEF IInv, TagsSumAtMostOne, TagVec
  <2>2. Sum(tin, Agents) <= Scale
    <3>1. Sum(tin, Agents) <= Sum(ts, Agents)
      BY <1>10, IncomingSum
    <3>2. Sum(tin, Agents) \in Int /\ Sum(ts, Agents) \in Int
      BY <1>2, SumInt DEF TagVec
    <3>3. QED
      BY <2>1, <3>1, <3>2, ConstantFacts
  <2>3. Sum(m, Agents) <= Scale
    BY <1>2, <1>11, <2>1, <2>2, MixSumBound
  <2>4. SumFunction(m) = Sum(m, Agents)
    <3>1. SumFunction(m) = Sum(m, DOMAIN m)
      BY SumFunctionIsSum
    <3>2. DOMAIN m = Agents
      BY DEF TagVec
    <3>3. QED
      BY <3>1, <3>2
  <2>5. QED
    BY <1>14, <2>3, <2>4 DEF IInv, TagsSumAtMostOne
<1>18. \A k \in Agents : ClusterWealth(k)' <= ClusterWealth(k)
  <2> SUFFICES ASSUME NEW k \in Agents PROVE ClusterWealth(k)' <= ClusterWealth(k)
    OBVIOUS
  <2>1. PICK c0 \in [Agents -> Nat] : c0 = [a \in Agents |-> balance[a] * tags[a][k]]
    <3>1. \A a \in Agents : balance[a] * tags[a][k] \in Nat
      BY <1>2, TagEntry
    <3>2. QED
      BY <3>1
  <2>2. PICK c1 \in [Agents -> Nat] : c1 = [a \in Agents |-> balance'[a] * tags'[a][k]]
    <3>1. \A a \in Agents : balance'[a] * tags'[a][k] \in Nat
      BY <1>13, <1>14, TagEntry
    <3>2. QED
      BY <3>1
  <2>3. ClusterWealth(k) = Sum(c0, Agents) /\ ClusterWealth(k)' = Sum(c1, Agents)
    BY <2>1, <2>2, SumFunctionIsSum DEF ClusterWealth
  <2>4. \A a \in Agents \ {s, r} : c0[a] = c1[a]
    BY <1>13, <1>14, <2>1, <2>2
  <2>5. /\ c1[s] = (b0 - (amount + fee)) * ts[k] /\ c1[r] = (b1 + amount) * m[k]
        /\ c0[s] = b0 * ts[k] /\ c0[r] = b1 * tr[k]
    <3>1. c0[s] = b0 * ts[k] /\ c0[r] = b1 * tr[k]
      BY <1>6, <1>7, <1>8, <1>9, <2>1
    <3>2. tags'[s] = ts
      BY <1>1, <1>8, <1>14
    <3>3. c1[s] = (b0 - (amount + fee)) * ts[k]
      BY <1>13, <2>2, <3>2
    <3>4. c1[r] = (b1 + amount) * m[k]
      BY <1>13, <1>14, <2>2
    <3>5. QED
      BY <3>1, <3>3, <3>4
  <2>6. Sum(c1, Agents) = Sum(c0, Agents) - c0[s] - c0[r] + c1[s] + c1[r]
    <3>1. \A x \in Agents : c0[x] \in Int /\ c1[x] \in Int
      BY <2>1, <2>2
    <3>2. IsFiniteSet(Agents)
      BY <1>2
    <3>3. QED
      BY <1>1, <2>4, <3>1, <3>2, SumTwoPoints
  <2>7. c1[s] + c1[r] <= c0[s] + c0[r]
    <3>1. ts[k] \in Nat /\ tr[k] \in Nat /\ tin[k] \in Nat /\ m[k] \in Nat
      BY DEF TagVec
    <3>2. amount \in Nat /\ amount + fee <= b0
      BY <1>2, <1>3, <1>6
    <3>3. QED
      BY <1>4, <1>10, <1>11, <2>5, <3>1, <3>2, TransferTerms
  <2>8. Sum(c0, Agents) \in Int
    BY <1>2, <2>1, SumInt
  <2>9. QED
    BY <2>3, <2>6, <2>7, <2>8
<1>19. CacheCovers'
  <2> SUFFICES ASSUME NEW k \in Agents PROVE cache'[k] >= ClusterWealth(k)'
    BY DEF CacheCovers
  <2>1. cache'[k] = cache[k] /\ cache[k] >= ClusterWealth(k) /\ cache[k] \in Int
    BY <1>2, <1>5 DEF IInv, CacheCovers
  <2>2. ClusterWealth(k) \in Nat /\ ClusterWealth(k)' \in Nat
    BY <1>2, <1>13, <1>14, ClusterWealthNat DEF ClusterWealth
  <2>3. QED
    BY <1>18, <2>1, <2>2
<1>20. QED
  BY <1>15, <1>16, <1>17, <1>18, <1>19 DEF IInv
-----------------------------------------------------------------------------
(* The effective wealth, and the step relation.                            *)

(***************************************************************************)
(* effective_wealth is monotone in the table: a table that is at least as  *)
(* large in every cluster gives every agent at least as large a max of     *)
(* weight times cluster wealth.                                            *)
(***************************************************************************)
LEMMA EffectiveWealthMonotone ==
    ASSUME NEW a \in Agents, tags \in [Agents -> TagVec],
           NEW t1 \in [Agents -> Nat], NEW t2 \in [Agents -> Nat],
           \A k \in Agents : t2[k] <= t1[k]
    PROVE  EffectiveWealth(a, t2) <= EffectiveWealth(a, t1)
<1>1. PICK f1 \in [Agents -> Nat] : f1 = [k \in Agents |-> tags[a][k] * t1[k]]
  <2>1. \A k \in Agents : tags[a][k] * t1[k] \in Nat
    BY TagEntry
  <2>2. QED
    BY <2>1
<1>2. PICK f2 \in [Agents -> Nat] : f2 = [k \in Agents |-> tags[a][k] * t2[k]]
  <2>1. \A k \in Agents : tags[a][k] * t2[k] \in Nat
    BY TagEntry
  <2>2. QED
    BY <2>1
<1>3. PICK A : A = Range(f1) \cup {0}
  OBVIOUS
<1>4. PICK B : B = Range(f2) \cup {0}
  OBVIOUS
<1>5. /\ A = {tags[a][k] * t1[k] : k \in Agents} \cup {0}
      /\ B = {tags[a][k] * t2[k] : k \in Agents} \cup {0}
  BY <1>1, <1>2, <1>3, <1>4 DEF Range
<1>6. IsFiniteSet(A) /\ IsFiniteSet(B)
  <2>1. IsFiniteSet(Range(f1)) /\ IsFiniteSet(Range(f2))
    BY <1>1, <1>2, ConstantFacts, RangeFinite
  <2>2. QED
    BY <1>3, <1>4, <2>1, FS_AddElement
<1>7. A \subseteq Int /\ B \subseteq Int /\ A # {} /\ B # {}
  BY <1>1, <1>2, <1>3, <1>4 DEF Range
<1>8. \A b \in B : \E x \in A : b <= x
  <2> SUFFICES ASSUME NEW b \in B PROVE \E x \in A : b <= x
    OBVIOUS
  <2>1. CASE b = 0
    BY <1>3, <2>1
  <2>2. CASE b \in Range(f2)
    <3>1. PICK k \in Agents : b = f2[k]
      BY <1>2, <2>2 DEF Range
    <3>2. tags[a][k] \in Nat
      BY TagEntry
    <3>3. f2[k] <= f1[k]
      BY <1>1, <1>2, <3>2, MulLeq
    <3>4. f1[k] \in A
      BY <1>1, <1>3 DEF Range
    <3>5. QED
      BY <3>1, <3>3, <3>4
  <2>3. QED
    BY <1>4, <2>1, <2>2
<1>9. QED
  BY <1>5, <1>6, <1>7, <1>8, MaxDominated DEF EffectiveWealth
LEMMA NextIInv == IInv /\ [Next]_vars => IInv'
<1> SUFFICES ASSUME IInv, [Next]_vars PROVE IInv'
  OBVIOUS
<1>1. CASE StartRound
  BY <1>1, StartRoundIInv
<1>2. CASE \E s, r \in Agents, amount \in 1..MaxAmount : Pays(s, r) /\ Transfer(s, r, amount)
  BY <1>2, TransferIInv
<1>3. CASE UNCHANGED vars
  BY <1>3 DEF vars, IInv, TypeOK, Conservation, TagsSumAtMostOne, CacheCovers, ClusterWealth
<1>4. QED
  BY <1>1, <1>2, <1>3 DEF Next

(***************************************************************************)
(* The inductive invariant gives the cache property: the cached table is   *)
(* at least the current cluster wealths in every cluster, and              *)
(* effective_wealth is monotone in the table.                              *)
(***************************************************************************)
LEMMA IInvCache == IInv => CacheNeverUnderstates
<1> SUFFICES ASSUME IInv, NEW a \in Agents
             PROVE  EffectiveWealth(a, cache) >= EffectiveWealth(a, ClusterWealthTable)
  BY DEF CacheNeverUnderstates
<1>1. balance \in [Agents -> Nat] /\ tags \in [Agents -> TagVec] /\ cache \in [Agents -> Nat]
  BY DEF IInv, TypeOK, TagVec
<1>2. PICK tbl \in [Agents -> Nat] : tbl = ClusterWealthTable
  <2>1. \A k \in Agents : ClusterWealth(k) \in Nat
    BY <1>1, ClusterWealthNat DEF ClusterWealth
  <2>2. QED
    BY <2>1 DEF ClusterWealthTable
<1>3. \A k \in Agents : tbl[k] <= cache[k]
  BY <1>2 DEF IInv, CacheCovers, ClusterWealthTable
<1>4. EffectiveWealth(a, tbl) <= EffectiveWealth(a, cache)
  BY <1>1, <1>2, <1>3, EffectiveWealthMonotone
<1>5. QED
  BY <1>2, <1>4

(***************************************************************************)
(* The state keeps its types in every run of run_model: balances, cached   *)
(* cluster wealths and fees stay natural numbers (no sender overdraws,     *)
(* the fee included), and every weight stays in 0..Scale.                  *)
(***************************************************************************)
THEOREM TypeCorrect == Spec => []TypeOK
<1>1. IInv => TypeOK
  BY DEF IInv
<1>2. QED
  BY InitIInv, NextIInv, <1>1, PTL DEF Spec

(***************************************************************************)
(* Transfers conserve value, for every population and every fee curve:     *)
(* balances plus the fees burned equal the initial supply.                 *)
(***************************************************************************)
THEOREM ConservationHolds == Spec => []Conservation
<1>1. IInv => Conservation
  BY DEF IInv
<1>2. QED
  BY InitIInv, NextIInv, <1>1, PTL DEF Spec

(***************************************************************************)
(* No agent's tag vector ever sums to more than 1.0: the receiver's mix of *)
(* its own tags and the decayed incoming ones keeps the total weight.      *)
(***************************************************************************)
THEOREM TagsSumAtMostOneHolds == Spec => []TagsSumAtMostOne
<1>1. IInv => TagsSumAtMostOne
  BY DEF IInv
<1>2. QED
  BY InitIInv, NextIInv, <1>1, PTL DEF Spec

(***************************************************************************)
(* The cluster-wealth table run_round computes once per round never        *)
(* understates any agent's effective wealth as the round's transfers go    *)
(* on, whatever the population, the amounts and the number of transfers.   *)
(***************************************************************************)
THEOREM CacheNeverUnderstatesHolds == Spec => []CacheNeverUnderstates
<1>1. QED
  BY InitIInv, NextIInv, IInvCache, PTL DEF Spec

(***************************************************************************)
(* Within a round, no step of run_round raises any cluster's wealth, for   *)
(* every population, fee curve, decay and transfer amount: the fact that  *)
(* lets run_round compute the table once and reuse it.                     *)
(***************************************************************************)
THEOREM ClusterWealthNeverGrowsInRoundHolds == Spec => ClusterWealthNeverGrowsInRound
<1>1. IInv /\ [Next]_vars =>
        [rounds' = rounds => \A k \in Agents : ClusterWealth(k)' <= ClusterWealth(k)]_vars
  <2> SUFFICES ASSUME IInv, [Next]_vars
               PROVE  [rounds' = rounds => \A k \in Agents : ClusterWealth(k)' <= ClusterWealth(k)]_vars
    OBVIOUS
  <2>1. CASE StartRound
    <3>1. rounds \in Nat
      BY DEF IInv, TypeOK
    <3>2. rounds' # rounds
      BY <2>1, <3>1 DEF StartRound
    <3>3. QED
      BY <3>2
  <2>2. CASE \E s, r \in Agents, amount \in 1..MaxAmount : Pays(s, r) /\ Transfer(s, r, amount)
    BY <2>2, TransferIInv
  <2>3. CASE UNCHANGED vars
    BY <2>3
  <2>4. QED
    BY <2>1, <2>2, <2>3 DEF Next
<1>2. QED
  BY <1>1, InitIInv, NextIInv, PTL DEF Spec, ClusterWealthNeverGrowsInRound
=============================================================================
