------------------------ MODULE ScalarAccount_proofs ------------------------
(***************************************************************************)
(* The invariants of the scalar account scripts (gini_10yr_model.py,       *)
(* botho_fee_model.py, cadence_fee_model.py) for every population, decay,  *)
(* fee configuration and bound: the types, conservation of supply under    *)
(* the burn policy, and that no cluster_wealth exceeds its balance.        *)
(***************************************************************************)
EXTENDS ScalarAccount, SumLemmas

(***************************************************************************)
(* CadenceFeeConfig accepts any base rates and factor range: nothing caps  *)
(* base * factor at 10000 bps.  Above it the fee exceeds the amount and    *)
(* transfer credits the receiver a negative net.  The default and the      *)
(* four other configurations of the script are all within it.              *)
(***************************************************************************)
CadenceRateBounded == \A tx \in DOMAIN BaseBps : BaseBps[tx] * FactorMax <= 10000

\* The assumptions on the constants, as the facts the steps use.
LEMMA ConstantFacts ==
    /\ IsFiniteSet(Agents)
    /\ Retail \cap Merchants = {} /\ Retail \cap Whales = {} /\ Merchants \cap Whales = {}
    /\ InitValues \subseteq Nat
    /\ MaxAmount \in Nat /\ MaxTransfers \in Nat
    /\ DecayPct \in Nat /\ DecayPct <= 100
    /\ RMinBps \in Nat /\ RMaxBps \in Nat /\ RMaxBps <= 10000
    /\ FeePerByte \in Nat /\ \A tx \in DOMAIN TxSize : TxSize[tx] \in Nat
    /\ \A tx \in DOMAIN BaseBps : BaseBps[tx] \in Nat
    /\ FactorMin \in Nat /\ FactorMax \in Nat
<1>1. RMinBps \in Nat /\ RMinBps <= 10000
  BY RateAssumption
<1>2. RMaxBps \in RMinBps..10000
  BY RateAssumption
<1>3. RMaxBps \in Nat /\ RMaxBps <= 10000
  BY <1>1, <1>2
<1>4. FactorMin \in Nat
  BY FactorAssumption
<1>5. FactorMax \in FactorMin..100
  BY FactorAssumption
<1>6. FactorMax \in Nat
  BY <1>4, <1>5
<1>7. DecayPct \in Nat /\ DecayPct <= 100
  BY DecayAssumption
<1>8. /\ FeePerByte \in Nat /\ \A tx \in DOMAIN TxSize : TxSize[tx] \in Nat
      /\ \A tx \in DOMAIN BaseBps : BaseBps[tx] \in Nat
  BY BothoAssumption, CadenceAssumption
<1>9. QED
  BY <1>1, <1>3, <1>4, <1>6, <1>7, <1>8, AgentsFinite, AgentTypesAssumption,
     InitValuesAssumption, BoundsAssumption

-----------------------------------------------------------------------------
(* The fee a transfer charges.                                             *)

\* The range of fees for rates from lo to hi bps holds integers, and for
\* hi <= 10000 naturals no larger than the amount.
LEMMA FeeBetweenBound ==
    ASSUME NEW amount \in Nat, NEW lo \in Nat, NEW hi \in Nat
    PROVE  /\ FeeBetween(amount, lo, hi) \subseteq Int
           /\ hi <= 10000 => FeeBetween(amount, lo, hi) \subseteq 0..amount
<1>1. (amount * lo) \div 10000 \in Nat /\ ((amount * hi) + 9999) \div 10000 \in Nat
  BY DivFacts
<1>2. ASSUME hi <= 10000 PROVE ((amount * hi) + 9999) \div 10000 <= amount
  <2>1. amount * hi <= amount * 10000
    BY <1>2, MulLeq
  <2>2. PICK q \in Nat : q = ((amount * hi) + 9999) \div 10000
    BY <1>1
  <2>3. 10000 * q <= (amount * hi) + 9999
    BY <2>2, DivFacts
  <2>4. QED
    BY <2>1, <2>2, <2>3
<1>3. QED
  BY <1>1, <1>2 DEF FeeBetween

\* botho_fee_model's rate is capped at 1000 bps.
LEMMA BothoBpsBound ==
    ASSUME NEW tx, NEW factor, tx \in DOMAIN TxSize, factor \in Nat
    PROVE  BothoBps(tx, factor) \in 0..1000
<1>1. FeePerByte * TxSize[tx] * factor \in Nat
  BY ConstantFacts
<1>2. (FeePerByte * TxSize[tx] * factor) \div 100 \in Nat
  BY <1>1, DivFacts
<1>3. QED
  BY <1>2 DEF BothoBps

\* A share table is a natural per agent, and under the burn policy it is
\* NoShares.
LEMMA SharesNat ==
    ASSUME NEW fee \in Nat
    PROVE  /\ \A sh \in Shares(fee) \cup {NoShares} : sh \in [Agents -> Nat]
           /\ ~Redistribute => Shares(fee) = {NoShares}
BY DEF Shares, NoShares

\* run_round's pairs are of different agents: the agent types are disjoint
\* and a whale pays another whale.
LEMMA PaysDistinct ==
    ASSUME NEW s, NEW r, Pays(s, r)
    PROVE  s # r
BY ConstantFacts DEF Pays

(***************************************************************************)
(* Every step of the three run_round loops: a transfer between two         *)
(* different agents that passes transfer's guard, a fee from the script's  *)
(* range, the shares of the policy, and the settlement.                    *)
(***************************************************************************)
LEMMA NextSettles ==
    ASSUME txCount \in [TxTypes -> Nat], Next
    PROVE  \E s, r \in Agents, amount \in 1..MaxAmount, fee \in Int :
             \E shares \in Shares(fee) \cup {NoShares} :
               /\ s # r
               /\ CanSend(s, amount)
               /\ CadenceRateBounded => fee \in 0..amount
               /\ Settle(s, r, amount, fee, shares)
               /\ transfers' = transfers + 1
               /\ txCount' \in [TxTypes -> Nat]
               /\ UNCHANGED <<initialBalance, script>>
<1>1. CASE Next10yr
  <2>1. PICK s, r \in Agents, amount \in 1..MaxAmount :
          Pays(s, r) /\ Transfer10yr(s, r, amount)
    BY <1>1 DEF Next10yr
  <2>2. PICK fee \in Fee10yr(amount) : \E shares \in Shares(fee) : Settle(s, r, amount, fee, shares)
    BY <2>1 DEF Transfer10yr
  <2>3. fee \in 0..amount
    BY <2>2, ConstantFacts, FeeBetweenBound DEF Fee10yr
  <2>4. s # r
    BY <2>1, PaysDistinct
  <2>5. QED
    BY <2>1, <2>2, <2>3, <2>4, ConstantFacts DEF Transfer10yr, Next
<1>2. CASE NextBotho
  <2>1. PICK s, r \in Agents, amount \in 1..MaxAmount, tx \in DOMAIN TxSize :
          Pays(s, r) /\ TransferBotho(s, r, amount, tx)
    BY <1>2 DEF NextBotho
  <2>2. PICK fee \in FeeBotho(amount, tx) : Settle(s, r, amount, fee, NoShares)
    BY <2>1 DEF TransferBotho
  <2>3. BothoBps(tx, FactorMin) \in 0..1000 /\ BothoBps(tx, FactorMax) \in 0..1000
    <3>1. FactorMin \in Nat /\ FactorMax \in Nat
      BY ConstantFacts
    <3>2. QED
      BY <3>1, BothoBpsBound
  <2>4. fee \in 0..amount
    <3>1. PICK lo : lo = BothoBps(tx, FactorMin)
      OBVIOUS
    <3>2. PICK hi : hi = BothoBps(tx, FactorMax)
      OBVIOUS
    <3>3. lo \in Nat /\ hi \in Nat /\ hi <= 10000
      BY <2>3, <3>1, <3>2
    <3>4. fee \in FeeBetween(amount, lo, hi)
      BY <2>2, <3>1, <3>2 DEF FeeBotho
    <3>5. QED
      BY <3>3, <3>4, FeeBetweenBound
  <2>5. s # r
    BY <2>1, PaysDistinct
  <2>6. txCount' \in [TxTypes -> Nat]
    BY <2>1 DEF TransferBotho, TxTypes
  <2>7. QED
    BY <2>1, <2>2, <2>4, <2>5, <2>6, ConstantFacts DEF TransferBotho, Next
<1>3. CASE NextCadence
  <2>1. PICK s, r \in Agents, amount \in 1..MaxAmount, tx \in DOMAIN BaseBps :
          Pays(s, r) /\ TransferCadence(s, r, amount, tx)
    BY <1>3 DEF NextCadence
  <2>2. PICK fee \in FeeCadence(amount, tx) : Settle(s, r, amount, fee, NoShares)
    BY <2>1 DEF TransferCadence
  <2>3. BaseBps[tx] * FactorMin \in Nat /\ BaseBps[tx] * FactorMax \in Nat
    BY ConstantFacts
  <2>4. fee \in Int
    BY <2>2, <2>3, FeeBetweenBound DEF FeeCadence
  <2>5. CadenceRateBounded => fee \in 0..amount
    BY <2>2, <2>3, FeeBetweenBound DEF FeeCadence, CadenceRateBounded
  <2>6. s # r
    BY <2>1, PaysDistinct
  <2>7. txCount' \in [TxTypes -> Nat]
    BY <2>1 DEF TransferCadence, TxTypes
  <2>8. QED
    BY <2>1, <2>2, <2>4, <2>5, <2>6, <2>7, ConstantFacts DEF TransferCadence, Next
<1>4. QED
  BY <1>1, <1>2, <1>3 DEF Next
-----------------------------------------------------------------------------
(* The settlement.                                                         *)

\* The sender's cluster_wealth, max(0, cw - amount), stays within its
\* balance after the amount leaves.
LEMMA SenderWealthBound ==
    ASSUME NEW cw, NEW b, NEW amount,
           cw \in Nat, b \in Nat, amount \in Nat, amount <= b, cw <= b * CwScale
    PROVE  /\ SenderWealth(cw, amount) \in Nat
           /\ SenderWealth(cw, amount) <= (b - amount) * CwScale
BY DEF SenderWealth, CwScale

(***************************************************************************)
(* The receiver's cluster_wealth, cw * (1 - decay) + net * decay: the      *)
(* decayed part is within (1 - decay) of the old balance and the part that *)
(* arrives is a decay share of the net, so it stays within the new balance. *)
(***************************************************************************)
LEMMA ReceiverWealthBound ==
    ASSUME NEW cw, NEW b, NEW net, NEW d,
           cw \in Nat, b \in Nat, net \in Nat, d \in Nat, d <= 100, cw <= b * CwScale
    PROVE  /\ (cw * (100 - d)) \div 100 + (net * d * CwScale) \div 100 \in Nat
           /\ (cw * (100 - d)) \div 100 + (net * d * CwScale) \div 100 <= (b + net) * CwScale
<1>1. (net * d * CwScale) \div 100 = net * d
  BY DEF CwScale
<1>2. cw * (100 - d) <= (b * (100 - d)) * 100
  <2>1. (100 - d) * cw <= (100 - d) * (b * 100)
    BY MulLeq DEF CwScale
  <2>2. QED
    BY <2>1
<1>3. (cw * (100 - d)) \div 100 \in Nat /\ (cw * (100 - d)) \div 100 <= b * (100 - d)
  <2>1. cw * (100 - d) \in Nat /\ b * (100 - d) \in Nat
    OBVIOUS
  <2>2. QED
    BY <1>2, <2>1, DivFacts, DivBelow
<1>4. net * d <= net * 100 /\ b * (100 - d) <= b * 100
  BY MulLeq
<1>5. QED
  BY <1>1, <1>3, <1>4 DEF CwScale
(***************************************************************************)
(* One settlement between two different agents that passes transfer's      *)
(* guard, with a fee of at most the amount and shares that are naturals,   *)
(* keeps the types and keeps every cluster_wealth within its balance: the  *)
(* sender's falls with its balance, the receiver's moves towards the net,  *)
(* and the shares only add to a balance.                                   *)
(***************************************************************************)
LEMMA SettleStep ==
    ASSUME balance \in [Agents -> Nat], clusterWealth \in [Agents -> Nat], totalFees \in Nat,
           \A a \in Agents : clusterWealth[a] <= balance[a] * CwScale,
           NEW s, NEW r, s \in Agents, r \in Agents, s # r,
           NEW amount, amount \in Nat, amount <= balance[s],
           NEW fee, fee \in 0..amount, NEW shares, shares \in [Agents -> Nat],
           Settle(s, r, amount, fee, shares)
    PROVE  /\ balance' \in [Agents -> Nat]
           /\ clusterWealth' \in [Agents -> Nat]
           /\ totalFees' \in Nat
           /\ \A a \in Agents : clusterWealth'[a] <= balance'[a] * CwScale
<1>1. PICK net \in 0..amount : net = Net(amount, fee)
  BY DEF Net
<1>2. balance' = [a \in Agents |->
                    IF a = s THEN balance[s] - amount + shares[s]
                    ELSE IF a = r THEN balance[r] + net + shares[r]
                    ELSE balance[a] + shares[a]]
  BY <1>1 DEF Settle
<1>3. PICK ws : ws = SenderWealth(clusterWealth[s], amount)
  OBVIOUS
<1>4. PICK wr : wr = (clusterWealth[r] * (100 - DecayPct)) \div 100
                     + (net * DecayPct * CwScale) \div 100
  OBVIOUS
<1>5. clusterWealth' = [clusterWealth EXCEPT ![s] = ws, ![r] = wr]
  BY <1>1, <1>3, <1>4 DEF Settle
<1>6. ws \in Nat /\ ws <= (balance[s] - amount) * CwScale
  <2>1. clusterWealth[s] \in Nat /\ balance[s] \in Nat /\ clusterWealth[s] <= balance[s] * CwScale
    OBVIOUS
  <2>2. QED
    BY <1>3, <2>1, SenderWealthBound
<1>7. wr \in Nat /\ wr <= (balance[r] + net) * CwScale
  <2>1. DecayPct \in Nat /\ DecayPct <= 100
    BY ConstantFacts
  <2>2. clusterWealth[r] \in Nat /\ balance[r] \in Nat /\ net \in Nat
        /\ clusterWealth[r] <= balance[r] * CwScale
    BY <1>1
  <2>3. QED
    BY <1>4, <2>1, <2>2, ReceiverWealthBound
<1>8. balance' \in [Agents -> Nat]
  BY <1>1, <1>2
<1>9. clusterWealth' \in [Agents -> Nat]
  BY <1>5, <1>6, <1>7
<1>10. totalFees' \in Nat
  BY DEF Settle
<1>11. ASSUME NEW a \in Agents PROVE clusterWealth'[a] <= balance'[a] * CwScale
  <2>1. CASE a = s
    <3>1. clusterWealth'[a] = ws /\ balance'[a] = balance[s] - amount + shares[s]
      BY <1>2, <1>5, <2>1
    <3>2. (balance[s] - amount) * CwScale <= (balance[s] - amount + shares[s]) * CwScale
      BY DEF CwScale
    <3>3. QED
      BY <1>6, <3>1, <3>2 DEF CwScale
  <2>2. CASE a = r
    <3>1. clusterWealth'[a] = wr /\ balance'[a] = balance[r] + net + shares[r]
      BY <1>2, <1>5, <2>2
    <3>2. (balance[r] + net) * CwScale <= (balance[r] + net + shares[r]) * CwScale
      BY <1>1 DEF CwScale
    <3>3. QED
      BY <1>7, <3>1, <3>2 DEF CwScale
  <2>3. CASE a # s /\ a # r
    <3>1. clusterWealth'[a] = clusterWealth[a] /\ balance'[a] = balance[a] + shares[a]
      BY <1>2, <1>5, <2>3
    <3>2. clusterWealth[a] <= balance[a] * CwScale
      OBVIOUS
    <3>3. balance[a] * CwScale <= (balance[a] + shares[a]) * CwScale
      BY DEF CwScale
    <3>4. QED
      BY <3>1, <3>2, <3>3 DEF CwScale
  <2>4. QED
    BY <2>1, <2>2, <2>3
<1>12. QED
  BY <1>8, <1>9, <1>10, <1>11
-----------------------------------------------------------------------------
(***************************************************************************)
(* The types and the cluster_wealth bound together are inductive: the      *)
(* bound needs the balances and weights to be naturals, and the balances   *)
(* stay naturals only while every fee is at most its amount.               *)
(***************************************************************************)
IInv == TypeOK /\ ClusterWealthBelowBalance

\* create_lognormal_agents: cluster_wealth starts as the balance.
LEMMA InitIInv == Init => IInv
<1> SUFFICES ASSUME Init PROVE IInv
  OBVIOUS
<1>1. PICK wealth \in [Agents -> InitValues] :
        /\ balance = wealth
        /\ clusterWealth = [a \in Agents |-> wealth[a] * CwScale]
        /\ totalFees = 0
        /\ txCount = [tx \in TxTypes |-> 0]
        /\ initialBalance = wealth
        /\ transfers = 0
        /\ script \in Scripts
  BY DEF Init
<1>2. \A a \in Agents : wealth[a] \in Nat
  <2>1. InitValues \subseteq Nat
    BY ConstantFacts
  <2>2. QED
    BY <2>1
<1>3. TypeOK
  BY <1>1, <1>2, ConstantFacts DEF TypeOK, CwScale
<1>4. ClusterWealthBelowBalance
  BY <1>1, <1>2 DEF ClusterWealthBelowBalance, CwScale
<1>5. QED
  BY <1>3, <1>4 DEF IInv

\* Every step of the three scripts keeps IInv, when no cadence rate exceeds
\* 10000 bps.
LEMMA NextIInv ==
    ASSUME CadenceRateBounded, IInv, [Next]_vars
    PROVE  IInv'
<1>1. CASE Next
  <2>1. txCount \in [TxTypes -> Nat]
    BY DEF IInv, TypeOK
  <2>2. PICK s, r \in Agents, amount \in 1..MaxAmount, fee \in Int :
          \E shares \in Shares(fee) \cup {NoShares} :
            /\ s # r
            /\ CanSend(s, amount)
            /\ CadenceRateBounded => fee \in 0..amount
            /\ Settle(s, r, amount, fee, shares)
            /\ transfers' = transfers + 1
            /\ txCount' \in [TxTypes -> Nat]
            /\ UNCHANGED <<initialBalance, script>>
    BY <1>1, <2>1, NextSettles
  <2>3. fee \in 0..amount /\ fee \in Nat
    BY <2>2
  <2>4. PICK shares \in Shares(fee) \cup {NoShares} :
          /\ s # r
          /\ CanSend(s, amount)
          /\ Settle(s, r, amount, fee, shares)
          /\ transfers' = transfers + 1
          /\ txCount' \in [TxTypes -> Nat]
          /\ UNCHANGED <<initialBalance, script>>
    BY <2>2
  <2>5. shares \in [Agents -> Nat]
    BY <2>3, <2>4, SharesNat
  <2>6. amount \in Nat /\ amount <= balance[s] /\ transfers < MaxTransfers
    BY <2>4 DEF CanSend
  <2>7. /\ balance' \in [Agents -> Nat]
        /\ clusterWealth' \in [Agents -> Nat]
        /\ totalFees' \in Nat
        /\ \A a \in Agents : clusterWealth'[a] <= balance'[a] * CwScale
    <3>1. /\ balance \in [Agents -> Nat] /\ clusterWealth \in [Agents -> Nat]
          /\ totalFees \in Nat
          /\ \A a \in Agents : clusterWealth[a] <= balance[a] * CwScale
      BY DEF IInv, TypeOK, ClusterWealthBelowBalance
    <3>2. QED
      BY <2>3, <2>4, <2>5, <2>6, <3>1, SettleStep
  <2>8. transfers' \in 0..MaxTransfers
    BY <2>4, <2>6, ConstantFacts DEF IInv, TypeOK
  <2>9. QED
    BY <2>4, <2>7, <2>8 DEF IInv, TypeOK, ClusterWealthBelowBalance
<1>2. CASE UNCHANGED vars
  BY <1>2 DEF vars, IInv, TypeOK, ClusterWealthBelowBalance
<1>3. QED
  BY <1>1, <1>2

\* The balances, cluster wealths, fee counters and bounds keep their types
\* in every script, when no cadence rate exceeds 10000 bps.
THEOREM TypeCorrect ==
    ASSUME CadenceRateBounded
    PROVE  Spec => []TypeOK
<1>1. IInv => TypeOK
  BY DEF IInv
<1>2. QED
  BY <1>1, InitIInv, NextIInv, PTL DEF Spec

(***************************************************************************)
(* No transfer of the three scripts ever leaves an agent's cluster_wealth  *)
(* above its balance, under the burn and the redistribute policy alike,    *)
(* when no cadence rate exceeds 10000 bps.                                 *)
(***************************************************************************)
THEOREM ClusterWealthBelowBalanceHolds ==
    ASSUME CadenceRateBounded
    PROVE  Spec => []ClusterWealthBelowBalance
<1>1. IInv => ClusterWealthBelowBalance
  BY DEF IInv
<1>2. QED
  BY <1>1, InitIInv, NextIInv, PTL DEF Spec
-----------------------------------------------------------------------------
(***************************************************************************)
(* Conservation under the burn policy.  It needs no bound on the rates:    *)
(* whatever the fee, the receiver gets the amount less the fee and the fee *)
(* is counted once, so integers suffice where the types needed naturals.   *)
(* The fee counters are carried because the step lemma reads them.         *)
(***************************************************************************)
CInv ==
    /\ balance \in [Agents -> Int]
    /\ totalFees \in Int
    /\ initialBalance \in [Agents -> Int]
    /\ txCount \in [TxTypes -> Nat]
    /\ Conservation

\* The sum of an integer table over the agents is SumFunction of it.
LEMMA AgentSum ==
    ASSUME NEW f, f \in [Agents -> Int]
    PROVE  SumFunction(f) = Sum(f, Agents) /\ Sum(f, Agents) \in Int
<1>1. DOMAIN f = Agents
  OBVIOUS
<1>2. QED
  BY <1>1, ConstantFacts, SumFunctionIsSum, SumInt

LEMMA InitCInv == Init => CInv
<1> SUFFICES ASSUME Init PROVE CInv
  OBVIOUS
<1>1. PICK wealth \in [Agents -> InitValues] :
        /\ balance = wealth /\ initialBalance = wealth
        /\ totalFees = 0 /\ txCount = [tx \in TxTypes |-> 0]
  BY DEF Init
<1>2. wealth \in [Agents -> Int]
  <2>1. InitValues \subseteq Nat
    BY ConstantFacts
  <2>2. \A a \in Agents : wealth[a] \in Nat
    BY <2>1
  <2>3. \A a \in Agents : wealth[a] \in Int
    BY <2>2
  <2>4. QED
    BY <2>3, Zenon
<1>3. SumFunction(wealth) \in Int
  BY <1>2, AgentSum
<1>4. QED
  BY <1>1, <1>2, <1>3 DEF CInv, Conservation

\* A settlement with no shares moves the amount less the fee from the sender
\* to the receiver and counts the fee: the total does not change.
LEMMA SettleConserves ==
    ASSUME balance \in [Agents -> Int], totalFees \in Int,
           NEW s, NEW r, s \in Agents, r \in Agents, s # r,
           NEW amount, amount \in Int, NEW fee, fee \in Int,
           Settle(s, r, amount, fee, NoShares)
    PROVE  /\ balance' \in [Agents -> Int]
           /\ totalFees' \in Int
           /\ SumFunction(balance') + totalFees' = SumFunction(balance) + totalFees
<1>1. balance' = [a \in Agents |->
                    IF a = s THEN balance[s] - amount
                    ELSE IF a = r THEN balance[r] + (amount - fee)
                    ELSE balance[a]]
  BY DEF Settle, Net, NoShares
<1>2. balance' \in [Agents -> Int]
  BY <1>1
<1>3. Sum(balance', Agents) = Sum(balance, Agents) - balance[s] - balance[r]
                                + balance'[s] + balance'[r]
  BY <1>1, <1>2, ConstantFacts, SumTwoPoints
<1>4. /\ SumFunction(balance') = Sum(balance', Agents) /\ Sum(balance', Agents) \in Int
      /\ SumFunction(balance) = Sum(balance, Agents) /\ Sum(balance, Agents) \in Int
  BY <1>2, AgentSum
<1>5. totalFees' = totalFees + fee
  BY DEF Settle
<1>6. QED
  BY <1>1, <1>2, <1>3, <1>4, <1>5

LEMMA NextCInv ==
    ASSUME ~Redistribute, CInv, [Next]_vars
    PROVE  CInv'
<1>1. CASE Next
  <2>1. PICK s, r \in Agents, amount \in 1..MaxAmount, fee \in Int :
          \E shares \in Shares(fee) \cup {NoShares} :
            /\ s # r
            /\ Settle(s, r, amount, fee, shares)
            /\ txCount' \in [TxTypes -> Nat]
            /\ UNCHANGED <<initialBalance, script>>
    BY <1>1, NextSettles DEF CInv
  <2>2. Shares(fee) \cup {NoShares} = {NoShares}
    BY DEF Shares
  <2>3. /\ s # r
        /\ Settle(s, r, amount, fee, NoShares)
        /\ txCount' \in [TxTypes -> Nat]
        /\ UNCHANGED initialBalance
    BY <2>1, <2>2
  <2>4. /\ balance' \in [Agents -> Int]
        /\ totalFees' \in Int
        /\ SumFunction(balance') + totalFees' = SumFunction(balance) + totalFees
    <3>1. balance \in [Agents -> Int] /\ totalFees \in Int
      BY DEF CInv
    <3>2. QED
      BY <2>3, <3>1, SettleConserves
  <2>5. QED
    BY <2>3, <2>4 DEF CInv, Conservation
<1>2. CASE UNCHANGED vars
  BY <1>2 DEF vars, CInv, Conservation
<1>3. QED
  BY <1>1, <1>2

(***************************************************************************)
(* Under the burn policy, the balances plus the fees burned always add up  *)
(* to the balances minted, in each of the three scripts, whatever the fee  *)
(* configuration.  (With redistribute the fee is counted twice: see the    *)
(* comment on Conservation.)                                               *)
(***************************************************************************)
THEOREM ConservationHolds ==
    ASSUME ~Redistribute
    PROVE  Spec => []Conservation
<1>1. CInv => Conservation
  BY DEF CInv
<1>2. QED
  BY <1>1, InitCInv, NextCInv, PTL DEF Spec
=============================================================================
