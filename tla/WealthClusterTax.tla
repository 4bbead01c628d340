-------------------------- MODULE WealthClusterTax --------------------------
(***************************************************************************)
(* The cluster-tax simulation of scripts/wealth_cluster_tax.py.  Every     *)
(* coin is a UTXO that carries one number, the cluster_wealth of the       *)
(* wealth it came from: a minted coin carries its owner's wealth, and a    *)
(* transfer gives its outputs the value-weighted cluster_wealth of the     *)
(* inputs, decayed by 5%.  Simulation.transfer selects the sender's coins  *)
(* smallest first until they cover the amount, then computes the fee from  *)
(* those coins, and gives up when they do not cover amount plus fee.       *)
(*                                                                         *)
(* Values are ints in the code and here.  cluster_wealth is a float; the   *)
(* model keeps it in units of 1 / CwScale, rounded down.  The fee rate is  *)
(* progressive_fee_rate, linear in min(1, cluster_wealth / max_wealth)     *)
(* from 1% to 30%, or a flat rate; the model lets the fee be any           *)
(* int(amount * rate) for a rate in RMinBps..RMaxBps, which is exact for   *)
(* a flat rate.                                                            *)
(***************************************************************************)
EXTENDS Naturals, FiniteSets, SequencesExt

CONSTANTS
    Agents,         \* the agents 0 .. n_agents - 1
    InitValues,     \* the wealths run_comparison may mint for an agent
    RMinBps,        \* the lowest rate fee_fn may return, in basis points
    RMaxBps,        \* the highest rate fee_fn may return, in basis points
    DecayPct,       \* transfer's decay argument, in percent
    SendThreshold,  \* run_comparison sends only from a wealth above this
    MinAmount,      \* the low end of run_comparison's randint
    AmountCap,      \* the cap of run_comparison's randint
    MaxTransfers    \* rounds of the harness, as transfers

\* cluster_wealth is kept in units of 1 / CwScale.
CwScale == 100

ASSUME WealthClusterConstantsAssumption ==
    /\ InitValues \subseteq Nat \ {0} /\ InitValues # {}
    /\ RMinBps \in 0..10000 /\ RMaxBps \in RMinBps..10000
    /\ DecayPct \in 0..100
    /\ SendThreshold \in Nat /\ MinAmount \in Nat \ {0} /\ AmountCap \in Nat
    /\ MaxTransfers \in Nat

VARIABLES
    utxos,          \* Simulation.utxos; agent_utxos is its index by owner
    utxoCounter,    \* Simulation.utxo_counter
    feesBurned,     \* Simulation.total_fees_burned
    initialTotal,   \* the total minted by run_comparison (history)
    lastCall,       \* what the last transfer call saw and returned
    transfers       \* transfers done so far, to bound the run

vars == <<utxos, utxoCounter, feesBurned, initialTotal, lastCall, transfers>>

\* The UTXO dataclass, cluster_wealth in 1 / CwScale units.
UTXO == [id : Nat, value : Nat \ {0}, clusterWealth : Nat, owner : Agents]

\* The sender's coins: [self.utxos[uid] for uid in self.agent_utxos[sender]].
OwnerUtxos(a) == {u \in utxos : u.owner = a}

\* sum(u.value for u in U): get_agent_wealth, and the selected value.
Value(U) == MapThenSumSet(LAMBDA u : u.value, U)

\* sorted(sender_utxos, key=value) is stable, and agent_utxos lists the
\* ids in the order they were created, so ties go by id.
SmallerFirst(u, v) == u.value < v.value \/ (u.value = v.value /\ u.id < v.id)

\* The first k coins of the sorted sequence seq.
Prefix(seq, k) == {seq[i] : i \in 1..k}

\* The selection loop stops at the first prefix whose value reaches the
\* amount; the fee plays no part in it.
SelectionLength(seq, amount) ==
    LET enough == {k \in 1..Len(seq) : Value(Prefix(seq, k)) >= amount}
    IN  IF enough = {} THEN Len(seq) ELSE Min(enough)

\* fee = int(amount * fee_rate), for every rate fee_fn may return.
FeeRange(amount) == ((amount * RMinBps) \div 10000)..((amount * RMaxBps) \div 10000)

(***************************************************************************)
(* weighted_cluster = sum(value * cluster_wealth) / total_input_value,     *)
(* then decayed_cluster = weighted_cluster * (1 - decay).                  *)
(* DecayedClusterByAmount is a plausible bug dividing by the amount paid   *)
(* instead of the value of the inputs.                                     *)
(***************************************************************************)
DecayedClusterByAmount(inputs, amount) ==
    (MapThenSumSet(LAMBDA u : u.value * u.clusterWealth, inputs) * (100 - DecayPct))
        \div (amount * 100)

DecayedCluster(inputs, amount) ==
    (MapThenSumSet(LAMBDA u : u.value * u.clusterWealth, inputs) * (100 - DecayPct))
        \div (Value(inputs) * 100)

\* The id of the change output.  ChangeIdSame is a plausible bug that
\* forgets the utxo_counter += 1 after the payment.
ChangeIdSame == utxoCounter

ChangeId == utxoCounter + 1

\* if change > 0: the change output is created for any positive change.
\* KeepsChangeAboveOne is a plausible bug with a dust threshold of one.
KeepsChangeAboveOne(change) == change > 1

KeepsChange(change) == change > 0

(***************************************************************************)
(* Simulation.transfer(sender, receiver, amount, fee_fn).  It returns      *)
(* False when the sender's total is below the amount, and again when the   *)
(* selected coins fall short of amount plus fee; otherwise it deletes the  *)
(* selected coins, creates the payment and, if any, the change, both with  *)
(* the decayed cluster_wealth, and adds the fee to total_fees_burned.      *)
(* lastCall records the sender's total and what the call needed of it.    *)
(***************************************************************************)
Transfer(s, r, amount) ==
    LET total == Value(OwnerUtxos(s))
        seq == SetToSortSeq(OwnerUtxos(s), SmallerFirst)
        selected == Prefix(seq, SelectionLength(seq, amount))
        spentValue == Value(selected)
        cw == DecayedCluster(selected, amount)
    IN  /\ transfers < MaxTransfers
        /\ transfers' = transfers + 1
        /\ UNCHANGED initialTotal
        /\ \/ /\ total < amount
              /\ lastCall' = [ok |-> FALSE, total |-> total, need |-> amount]
              /\ UNCHANGED <<utxos, utxoCounter, feesBurned>>
           \/ /\ total >= amount
              /\ \E fee \in FeeRange(amount) :
                    LET change == spentValue - amount - fee
                        payment == [id |-> utxoCounter, value |-> amount,
                                    clusterWealth |-> cw, owner |-> r]
                        changeOut == [id |-> ChangeId, value |-> change,
                                      clusterWealth |-> cw, owner |-> s]
                        outputs == IF KeepsChange(change) THEN {payment, changeOut}
                                   ELSE {payment}
                    IN  \/ /\ spentValue < amount + fee
                           /\ lastCall' = [ok |-> FALSE, total |-> total,
                                           need |-> amount + fee]
                           /\ UNCHANGED <<utxos, utxoCounter, feesBurned>>
                        \/ /\ spentValue >= amount + fee
                           /\ utxos' = (utxos \ selected) \cup outputs
                           /\ utxoCounter' = utxoCounter + Cardinality(outputs)
                           /\ feesBurned' = feesBurned + fee
                           /\ lastCall' = [ok |-> TRUE, total |-> total,
                                           need |-> amount + fee]

(***************************************************************************)
(* run_comparison: sim.mint(agent, wealth) for each agent in turn.  An     *)
(* agent owns nothing before its mint, so each coin's cluster_wealth is    *)
(* its own value.                                                          *)
(***************************************************************************)
Init ==
    \E wealth \in [Agents -> InitValues] :
    \E idOf \in Bijection(Agents, 0..(Cardinality(Agents) - 1)) :
        /\ utxos = {[id |-> idOf[a], value |-> wealth[a],
                     clusterWealth |-> wealth[a] * CwScale, owner |-> a] : a \in Agents}
        /\ utxoCounter = Cardinality(Agents)
        /\ feesBurned = 0
        /\ initialTotal = MapThenSumSet(LAMBDA a : wealth[a], Agents)
        /\ lastCall = [ok |-> TRUE, total |-> 0, need |-> 0]
        /\ transfers = 0

(***************************************************************************)
(* The rounds of run_comparison: a sender, a different receiver, and when  *)
(* the sender's wealth is above the threshold an amount from MinAmount to  *)
(* min(wealth // 2, cap).                                                  *)
(***************************************************************************)
HarnessRound(s, r) ==
    LET w == Value(OwnerUtxos(s))
        top == IF w \div 2 < AmountCap THEN w \div 2 ELSE AmountCap
    IN  /\ s # r
        /\ w > SendThreshold
        /\ \E amount \in MinAmount..top : Transfer(s, r, amount)

\* demonstrate_sybil_resistance and demonstrate_decay_over_time call
\* transfer directly, with amounts they fix whatever the sender holds.
DirectCall(s, r) == s # r /\ \E amount \in MinAmount..AmountCap : Transfer(s, r, amount)

Next == \E s, r \in Agents : HarnessRound(s, r) \/ DirectCall(s, r)

Spec == Init /\ [][Next]_vars

-----------------------------------------------------------------------------
(***************************************************************************)
(* Properties.                                                             *)
(***************************************************************************)

TypeOK ==
    /\ utxos \subseteq UTXO
    /\ \A u, v \in utxos : u.id = v.id => u = v
    /\ \A u \in utxos : u.id < utxoCounter
    /\ feesBurned \in Nat /\ initialTotal \in Nat
    /\ lastCall \in [ok : BOOLEAN, total : Nat, need : Nat]
    /\ transfers \in 0..MaxTransfers

(***************************************************************************)
(* Conservation (spec section 8): the coins in existence plus the fees     *)
(* burned always equal what was minted.  Unlike gini_utxo_model, transfer *)
(* keeps every positive change.                                            *)
(***************************************************************************)
Conservation == Value(utxos) + feesBurned = initialTotal

(***************************************************************************)
(* No coin ever carries a cluster_wealth above the richest mint's: the    *)
(* blend of transfer is an average of its inputs' cluster_wealth, so hops *)
(* can move the fee burden around but never raise it.                     *)
(***************************************************************************)
ClusterWealthBounded ==
    \A u \in utxos : u.clusterWealth <= Max(InitValues) * CwScale
=============================================================================
