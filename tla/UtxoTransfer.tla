---------------------------- MODULE UtxoTransfer ----------------------------
(***************************************************************************)
(* The UTXO transfer engine of scripts/gini_utxo_model.py: coins are       *)
(* unspent outputs, each with its own value, owner and tag vector.  A      *)
(* transfer selects the sender's outputs largest first, computes the fee   *)
(* from the selected inputs, blends their tags by value, decays the blend, *)
(* spends the inputs and creates a payment output to the receiver and a    *)
(* change output to the sender, both carrying the decayed tags.  Change of *)
(* at most 0.01 coins (the dust threshold) is not created.                 *)
(*                                                                         *)
(* Values are floats in the code; the model counts them in integer units,  *)
(* Dust units making 0.01 coins.  create_initial_state gives the i-th      *)
(* agent the i-th fresh cluster, so the set Clusters names the agents too. *)
(***************************************************************************)
EXTENDS Naturals, FiniteSets, SequencesExt, ProvenanceTags

CONSTANTS
    DecayRate,     \* SimState.decay_rate, parts per TAG_SCALE per hop
    RMinBps,       \* FeeConfig.r_min_bps
    RMaxBps,       \* FeeConfig.r_max_bps
    Dust,          \* the dust threshold 0.01, in value units
    InitValues,    \* the values create_initial_state may draw for an agent
    MaxAmount,     \* largest amount the harness may ask to transfer
    MaxTransfers   \* run_simulation's bounded number of rounds, as transfers

ASSUME UtxoConstantsAssumption ==
    /\ DecayRate \in 0..Scale
    /\ RMinBps \in 0..10000 /\ RMaxBps \in RMinBps..10000
    /\ Dust \in Nat \ {0}
    /\ InitValues \subseteq Nat \ {0} /\ InitValues # {}
    /\ MaxAmount \in Nat \ {0}
    /\ MaxTransfers \in Nat

Agents == Clusters

VARIABLES
    utxos,                 \* UTXOSet.utxos (by_owner is derived from it)
    nextId,                \* UTXOSet.next_id
    totalFees,             \* SimState.total_fees, the burned fees
    initialClusterWealth,  \* SimState.initial_cluster_wealth
    transfers              \* transfers done so far, to bound the run

vars == <<utxos, nextId, totalFees, initialClusterWealth, transfers>>

\* The UTXO dataclass.
UTXO == [id : Nat, value : Nat \ {0}, tags : TagVector, owner : Agents]

\* UTXOSet.get_owner_utxos.  OwnerUtxosAll is a plausible bug that reads
\* the whole set instead of the owner's index.
OwnerUtxosAll(owner) == utxos

OwnerUtxos(owner) == {u \in utxos : u.owner = owner}

\* sum(u.value for u in U): get_owner_balance, and the selected value.
Value(U) == MapThenSumSet(LAMBDA u : u.value, U)

(***************************************************************************)
(* UTXOSet.compute_cluster_wealth: the value attributed to each cluster,   *)
(* sum of value * weight.  The model keeps the product in Scale units      *)
(* instead of dividing it by TAG_SCALE.                                    *)
(***************************************************************************)
ClusterWealth(U) ==
    [c \in Clusters |-> MapThenSumSet(LAMBDA u : u.value * u.tags[c], U)]

(***************************************************************************)
(* blend_tags: the value-weighted average of the inputs' tags, truncated   *)
(* by int() and pruned.  The float sum of tag * (value / total) is taken   *)
(* as the exact quotient.  BlendTagsUnweighted is a plausible bug that     *)
(* forgets the value weights and averages the inputs' tags.                *)
(***************************************************************************)
BlendTagsUnweighted(inputs) ==
    [c \in Clusters |->
        Prune(MapThenSumSet(LAMBDA u : u.tags[c], inputs) \div Cardinality(inputs))]

BlendTags(inputs) ==
    LET total == Value(inputs)
    IN  IF total = 0
        THEN NoTags
        ELSE [c \in Clusters |->
                Prune(MapThenSumSet(LAMBDA u : u.value * u.tags[c], inputs) \div total)]

\* apply_decay with the simulation's decay rate.
DecayTags(tags) == ApplyDecay(tags, DecayRate)

(***************************************************************************)
(* FeeConfig.rate_bps is a sigmoid of the effective wealth of the selected *)
(* inputs, anywhere from r_min to r_max, and fee = amount * rate / 10000.  *)
(* The model lets the fee be every whole number of units in that range.    *)
(***************************************************************************)
FeeRange(amount) ==
    {f \in 0..amount : amount * RMinBps <= f * 10000 /\ f * 10000 <= amount * RMaxBps}

\* The order of sorted(sender_utxos, key=-value): largest first, and the
\* stable sort keeps the by_owner order (creation order) among equals.
LargerFirst(u, v) == u.value > v.value \/ (u.value = v.value /\ u.id < v.id)

\* The first k outputs of the sorted sequence seq.
Prefix(seq, k) == {seq[i] : i \in 1..k}

\* selected_value >= estimated_total, with the fee estimated at r_max.
CoversEstimate(v, amount) == v * 10000 >= amount * (10000 + RMaxBps)

\* The length of the prefix the first (greedy) selection loop stops at.
FirstPass(seq, amount) ==
    LET enough == {k \in 1..Len(seq) : CoversEstimate(Value(Prefix(seq, k)), amount)}
    IN  IF enough = {} THEN Len(seq) ELSE Min(enough)

\* change = selected_value - total_needed.  ChangeNoFee forgets the fee.
ChangeNoFee(selected, amount, fee) == Value(selected) - amount

Change(selected, amount, fee) == Value(selected) - (amount + fee)

\* if change > 0.01: the change output is created only above the dust
\* threshold.  KeepsChangeAll is a plausible bug that drops the threshold.
KeepsChangeAll(change) == change >= 0

KeepsChange(change) == change > Dust

(***************************************************************************)
(* The effect of a transfer once inputs and fee are fixed: spend the       *)
(* inputs, create the payment and, above the dust threshold, the change,   *)
(* both with the decayed blend, and burn the fee.                          *)
(***************************************************************************)
Settle(s, r, amount, selected, fee) ==
    LET decayed == DecayTags(BlendTags(selected))
        change == Change(selected, amount, fee)
        payment == [id |-> nextId, value |-> amount, tags |-> decayed, owner |-> r]
        changeOut == [id |-> nextId + 1, value |-> change, tags |-> decayed, owner |-> s]
        outputs == IF KeepsChange(change) THEN {payment, changeOut} ELSE {payment}
    IN  /\ utxos' = (utxos \ selected) \cup outputs
        /\ nextId' = nextId + Cardinality(outputs)
        /\ totalFees' = totalFees + fee

(***************************************************************************)
(* transfer(state, sender, receiver, amount).  The guard is the balance    *)
(* check; the first loop takes the largest outputs until they cover the    *)
(* amount plus the r_max fee estimate; the fee is computed on them; if it  *)
(* is not covered, the second loop adds the remaining outputs one at a     *)
(* time, recomputing the fee each time.  Selection k succeeds with fee if  *)
(* it covers it and every shorter prefix tried fell short with the fee     *)
(* computed for it.  When nothing covers, transfer returns False with the  *)
(* state untouched: a stutter.                                             *)
(***************************************************************************)
Transfer(s, r, amount) ==
    LET seq == SetToSortSeq(OwnerUtxos(s), LargerFirst)
        k0 == FirstPass(seq, amount)
        Covers(k, fee) == Value(Prefix(seq, k)) >= amount + fee
        FallsShort(k) == \E f \in FeeRange(amount) : ~Covers(k, f)
    IN  /\ transfers < MaxTransfers
        /\ 0 < amount /\ amount <= Value(OwnerUtxos(s))
        /\ \E k \in k0..Len(seq), fee \in FeeRange(amount) :
              /\ Covers(k, fee)
              /\ \A j \in k0..(k - 1) : FallsShort(j)
              /\ Settle(s, r, amount, Prefix(seq, k), fee)
        /\ transfers' = transfers + 1
        /\ UNCHANGED initialClusterWealth

(***************************************************************************)
(* create_initial_state: agents sorted by their lognormal wealth get ids   *)
(* 0, 1, ... in that order, and each one a single output of its whole      *)
(* wealth, 100% tagged to its own cluster.  The snapshot of the cluster    *)
(* wealth is taken at once.                                                *)
(***************************************************************************)
Init ==
    \E wealth \in [Agents -> InitValues] :
    \E idOf \in Bijection(Agents, 0..(Cardinality(Agents) - 1)) :
        /\ \A a, b \in Agents : wealth[a] < wealth[b] => idOf[a] < idOf[b]
        /\ utxos = {[id |-> idOf[a], value |-> wealth[a], tags |-> SelfTags(a),
                     owner |-> a] : a \in Agents}
        /\ nextId = Cardinality(Agents)
        /\ totalFees = 0
        /\ initialClusterWealth = ClusterWealth(utxos)
        /\ transfers = 0

(***************************************************************************)
(* run_round: retail pays merchants, whales pay merchants, retail and      *)
(* other whales, merchants pay retail; never an agent itself.  The model   *)
(* lets any two distinct agents and any amount happen.                     *)
(***************************************************************************)
Next == \E s, r \in Agents, amount \in 1..MaxAmount : s # r /\ Transfer(s, r, amount)

Spec == Init /\ [][Next]_vars

-----------------------------------------------------------------------------
(***************************************************************************)
(* Properties.                                                             *)
(***************************************************************************)

TypeOK ==
    /\ utxos \subseteq UTXO
    /\ \A u, v \in utxos : u.id = v.id => u = v
    /\ \A u \in utxos : u.id < nextId
    /\ nextId \in Nat
    /\ totalFees \in Nat
    /\ initialClusterWealth \in [Clusters -> Nat]
    /\ transfers \in 0..MaxTransfers

\* The coins in existence, and the coins create_initial_state minted.
Supply == Value(utxos)
InitialSupply == MapThenSumSet(LAMBDA c : initialClusterWealth[c], Clusters) \div Scale

(***************************************************************************)
(* What transfer really guarantees: no transfer creates value, and each    *)
(* one loses at most the dust threshold besides the fee it burns, so the   *)
(* unreported loss is bounded by Dust per transfer.                        *)
(***************************************************************************)
SupplyLeakBounded ==
    /\ Supply + totalFees <= InitialSupply
    /\ InitialSupply <= Supply + totalFees + Dust * transfers

(***************************************************************************)
(* The comment on compute_effective_wealth fears that tags spreading make  *)
(* a cluster's wealth grow.  They cannot: blending averages, decay only    *)
(* removes weight and the fee and the dust remove value, so the wealth     *)
(* compute_cluster_wealth attributes to a cluster never exceeds the        *)
(* snapshot taken at minting.                                              *)
(***************************************************************************)
AttributionBounded ==
    \A c \in Clusters : ClusterWealth(utxos)[c] <= initialClusterWealth[c]

(***************************************************************************)
(* Each transfer moves exactly what it reports, agent by agent: the        *)
(* receiver's balance grows by the amount, the sender's falls by the       *)
(* amount, the fee burned and at most the dust threshold of change not     *)
(* given back, no other agent's balance moves, and the fee is at most the  *)
(* r_max rate of the amount.  The fee is recomputed after selecting        *)
(* against the r_max estimate and the change is taken from the selected    *)
(* total, so a change or fee computed from the wrong figure, or an output  *)
(* given to the wrong owner, shows here although the supply still adds up. *)
(***************************************************************************)
TransferPaysAmountAndFee ==
    [][transfers' = transfers + 1 =>
        LET Balance(a) == Value({u \in utxos : u.owner = a})
            fee == totalFees' - totalFees
        IN  \E s, r \in Agents :
              LET paid == Balance(r)' - Balance(r)
              IN  /\ s # r
                  /\ paid \in 1..MaxAmount
                  /\ fee * 10000 <= paid * RMaxBps
                  /\ Balance(s) - Balance(s)' - paid - fee \in 0..Dust
                  /\ \A a \in Agents \ {s, r} : Balance(a)' = Balance(a)]_vars
=============================================================================
