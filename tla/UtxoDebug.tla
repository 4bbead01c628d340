------------------------------ MODULE UtxoDebug ------------------------------
(***************************************************************************)
(* The two analyses of scripts/utxo_debug.py.  analyze_tag_spreading       *)
(* gives every coin cluster tags; test_alternative_approach gives every    *)
(* coin one inherited_wealth instead.  Both build the same economy with    *)
(* create_agent and run the same transfers: spend the sender's first coin, *)
(* pay the amount and return the change, both outputs carrying the spent   *)
(* coin's annotation decayed by 5%.  The model runs the two in lockstep:   *)
(* a coin carries its tags (from the first analysis) and its inherited     *)
(* wealth (from the second), which is how the second is meant to stand in  *)
(* for the first.  The three effective-wealth aggregations of the tag     *)
(* simulation, MAX, SUM and DOMINANT, are operators over an agent's coins. *)
(*                                                                         *)
(* Values and wealths are whole units.  Tag weights are ints in units of   *)
(* 1 / Scale, as in the code; inherited_wealth is a float there and is     *)
(* kept here in units of 1 / Scale, rounded down, so that both compare     *)
(* over the same denominator.                                              *)
(***************************************************************************)
EXTENDS Naturals, FiniteSets, FiniteSetsExt, SequencesExt

CONSTANTS
    Agents,         \* the agents, whose ids are also their clusters' ids
    InitValues,     \* the wealths create_agent may be given
    Scale,          \* TAG_SCALE
    PruneUnits,     \* TAG_PRUNE_THRESHOLD
    DecayPct,       \* transfer's decay argument, in percent
    MaxAmount,      \* largest amount a transfer is asked for
    MaxTransfers    \* transfers of the analysis, bounded

ASSUME UtxoDebugConstantsAssumption ==
    /\ InitValues \subseteq Nat \ {0} /\ InitValues # {}
    /\ Scale \in Nat \ {0} /\ PruneUnits \in 1..Scale
    /\ DecayPct \in 0..100
    /\ MaxAmount \in Nat \ {0} /\ MaxTransfers \in Nat

VARIABLES
    utxos,          \* sim.utxos, with each coin's tags and inherited_wealth
    nextId,         \* sim.next_id
    initialWealth,  \* sim.initial_cluster_wealth, by cluster
    transfers       \* transfers done so far, to bound the run

vars == <<utxos, nextId, initialWealth, transfers>>

\* UTXO, with tags a total function (0 is no entry) and inherited_wealth.
UTXO == [id : Nat, value : Nat \ {0}, tags : [Agents -> 0..Scale],
         inherited : Nat, owner : Agents]

\* sim.get_utxos(owner).
OwnerUtxos(a) == {u \in utxos : u.owner = a}

\* sum(u.value for u in utxos).
Value(U) == MapThenSumSet(LAMBDA u : u.value, U)

(***************************************************************************)
(* The blended weight of cluster k over coins U: the sum of (value /       *)
(* total_value) * (weight / TAG_SCALE), kept as its numerator over the     *)
(* denominator Value(U) * Scale that every aggregation below shares.       *)
(***************************************************************************)
Blend(U, k) == MapThenSumSet(LAMBDA u : u.value * u.tags[k], U)

\* The clusters the blended dict has an entry for.
BlendKeys(U) == {k \in Agents : Blend(U, k) > 0}

\* compute_effective_wealth_SUM: the sum of tag_weight * cluster_wealth.
EffectiveSum(U) == MapThenSumSet(LAMBDA k : Blend(U, k) * initialWealth[k], BlendKeys(U))

\* get_effective_wealth of test_alternative_approach: the value-weighted
\* inherited_wealth, as its numerator over the same denominator.
EffectiveInherited(U) == MapThenSumSet(LAMBDA u : u.value * u.inherited, U)

(***************************************************************************)
(* The decayed annotations: int(weight * (1 - decay)), kept when at least  *)
(* TAG_PRUNE_THRESHOLD; and source_inherited * (1 - decay).                *)
(* DecayTagsRoundedUp is a plausible bug rounding the weight up.           *)
(***************************************************************************)
DecayTagsRoundedUp(t) ==
    [k \in Agents |-> LET w == (t[k] * (100 - DecayPct) + 99) \div 100
                      IN  IF w >= PruneUnits THEN w ELSE 0]

DecayTags(t) ==
    [k \in Agents |-> LET w == (t[k] * (100 - DecayPct)) \div 100
                      IN  IF w >= PruneUnits THEN w ELSE 0]

DecayInherited(x) == (x * (100 - DecayPct)) \div 100

\* sender_utxos[0]: by_owner order is id order, as removal keeps it.
FirstUtxo(s) == CHOOSE c \in OwnerUtxos(s) : \A d \in OwnerUtxos(s) : c.id <= d.id

\* OutputsSameId is a plausible bug that numbers the change with the
\* payment's id, next_id read once and not advanced.
OutputsSameId(u, s, r, amount) ==
    LET payment == [id |-> nextId, value |-> amount, tags |-> DecayTags(u.tags),
                    inherited |-> DecayInherited(u.inherited), owner |-> r]
        change == [payment EXCEPT !.value = u.value - amount, !.owner = s]
    IN  IF u.value - amount > 0 THEN {payment, change} ELSE {payment}

\* The payment to r with the next id, and the change to s, if positive, with
\* the one after; both carry the decayed annotations of coin u.
Outputs(u, s, r, amount) ==
    LET payment == [id |-> nextId, value |-> amount, tags |-> DecayTags(u.tags),
                    inherited |-> DecayInherited(u.inherited), owner |-> r]
        change == [payment EXCEPT !.id = nextId + 1, !.value = u.value - amount,
                                  !.owner = s]
    IN  IF u.value - amount > 0 THEN {payment, change} ELSE {payment}

(***************************************************************************)
(* transfer (and transfer_with_inherited): False when the sender has no    *)
(* coin, or when its first coin is worth less than the amount.  Otherwise  *)
(* the coin is spent and replaced by the outputs.                          *)
(***************************************************************************)
Transfer(s, r, amount) ==
    /\ transfers < MaxTransfers
    /\ OwnerUtxos(s) # {}
    /\ LET u == FirstUtxo(s)
           outputs == Outputs(u, s, r, amount)
       IN  /\ amount <= u.value
           /\ utxos' = (utxos \ {u}) \cup outputs
           /\ nextId' = nextId + Cardinality(outputs)
    /\ transfers' = transfers + 1
    /\ UNCHANGED initialWealth

(***************************************************************************)
(* create_agent for each agent in turn: one coin of its wealth, 100% its   *)
(* own cluster, recorded as the cluster's initial wealth; then             *)
(* inherited_wealth[uid] = the owner's initial wealth.                     *)
(***************************************************************************)
Init ==
    \E wealth \in [Agents -> InitValues] :
    \E idOf \in Bijection(Agents, 0..(Cardinality(Agents) - 1)) :
        /\ utxos = {[id |-> idOf[a], value |-> wealth[a],
                     tags |-> [k \in Agents |-> IF k = a THEN Scale ELSE 0],
                     inherited |-> wealth[a] * Scale, owner |-> a] : a \in Agents}
        /\ nextId = Cardinality(Agents)
        /\ initialWealth = wealth
        /\ transfers = 0

\* The rounds of both analyses: whale to merchants, merchants to retail,
\* retail to retail; the model lets any two agents and amount happen.
Next == \E s, r \in Agents, amount \in 1..MaxAmount : s # r /\ Transfer(s, r, amount)

Spec == Init /\ [][Next]_vars

-----------------------------------------------------------------------------
TypeOK ==
    /\ utxos \subseteq UTXO
    /\ \A u, v \in utxos : u.id = v.id => u = v
    /\ \A u \in utxos : u.id < nextId
    /\ initialWealth \in [Agents -> InitValues]
    /\ transfers \in 0..MaxTransfers

(***************************************************************************)
(* test_alternative_approach tracks one inherited_wealth per coin instead  *)
(* of cluster tags.  On the same transfers, no agent's SUM effective       *)
(* wealth in the tag simulation ever exceeds its inherited effective       *)
(* wealth: the int() of the tag decay and the pruning only lose            *)
(* attribution, so the cheaper model never charges less than the SUM one.  *)
(***************************************************************************)
SumWithinInherited ==
    \A a \in Agents : EffectiveSum(OwnerUtxos(a)) <= EffectiveInherited(OwnerUtxos(a))
=============================================================================
