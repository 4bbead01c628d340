----------------------------- MODULE ScalarUtxo -----------------------------
(***************************************************************************)
(* The UTXO engine of scripts/gini_simple_utxo.py, whose transfer          *)
(* scripts/gini_3segment.py repeats line for line.  Each coin carries a    *)
(* source_wealth, which blends by value when coins are combined, and a     *)
(* tag_weight, which blends by value and then decays by decay times the    *)
(* fraction of the inputs' value that is paid away.  Inputs are selected   *)
(* smallest first until they reach 1.5 times the amount; the fee is        *)
(* amount * rate on top of the amount; more inputs are added while the fee *)
(* is not covered; change above 0.01 goes back to the sender.              *)
(*                                                                         *)
(* Values are floats in the code; here they are integers in units of       *)
(* 0.01 / Dust coins.  tag_weight is kept in units of 1 / TwScale and      *)
(* source_wealth in value units, both rounded down.  The fee is amount *   *)
(* rate for any rate of the curve in RMinBps..RMaxBps, taken as a whole    *)
(* number of units between the floor and the ceiling of the real fees.     *)
(***************************************************************************)
EXTENDS Naturals, FiniteSets, SequencesExt

CONSTANTS
    Agents,         \* the agents of run_simulation
    InitValues,     \* the Pareto wealths an agent may be given
    RMinBps,        \* the lowest rate fee_fn may return, in basis points
    RMaxBps,        \* the highest rate fee_fn may return, in basis points
    DecayPct,       \* transfer's decay argument, in percent
    Dust,           \* the dust threshold 0.01, in value units
    MaxAmount,      \* largest amount the harness may ask to transfer
    MaxTransfers    \* rounds of the harness, as transfers

\* tag_weight is kept in units of 1 / TwScale; 1.0 is TwScale.
TwScale == 1000

ASSUME ScalarUtxoConstantsAssumption ==
    /\ InitValues \subseteq Nat \ {0} /\ InitValues # {}
    /\ RMinBps \in 0..10000 /\ RMaxBps \in RMinBps..10000
    /\ DecayPct \in 0..100
    /\ Dust \in Nat
    /\ MaxAmount \in Nat \ {0} /\ MaxTransfers \in Nat

VARIABLES
    utxos,          \* UTXOSet.utxos; by_owner is its index by owner
    nextId,         \* UTXOSet.next_id
    totalFees,      \* run_simulation's total_fees
    initialSupply,  \* run_simulation's initial_supply
    transfers       \* transfers done so far, to bound the run

vars == <<utxos, nextId, totalFees, initialSupply, transfers>>

\* The UTXO dataclass.
UTXO == [id : Nat, value : Nat \ {0}, sourceWealth : Nat, tagWeight : 0..TwScale,
         owner : Agents]

\* UTXOSet.get_owner_utxos.
OwnerUtxos(a) == {u \in utxos : u.owner = a}

\* sum(u.value for u in U): get_balance, and total_input.
Value(U) == MapThenSumSet(LAMBDA u : u.value, U)

\* sorted(..., key=value) is stable over by_owner, which lists ids in the
\* order they were created, so ties go by id.
SmallerFirst(u, v) == u.value < v.value \/ (u.value = v.value /\ u.id < v.id)

\* The first k coins of the sorted sequence seq.
Prefix(seq, k) == {seq[i] : i \in 1..k}

\* The first loop stops once selected_value >= amount * 1.5.
FirstPass(seq, amount) ==
    LET enough == {k \in 1..Len(seq) : 2 * Value(Prefix(seq, k)) >= 3 * amount}
    IN  IF enough = {} THEN Len(seq) ELSE Min(enough)

\* fee = amount * rate, for every rate fee_fn may return.
FeeRange(amount) ==
    ((amount * RMinBps) \div 10000)..(((amount * RMaxBps) + 9999) \div 10000)

(***************************************************************************)
(* avg_source_wealth and avg_tag_weight are the value-weighted means over  *)
(* the inputs; the new tag_weight is avg_tag_weight * (1 - decay *         *)
(* amount / total_input).  NewTagWeightUnweighted is a plausible bug that  *)
(* averages the tag weights without the value weights.                     *)
(***************************************************************************)
AvgSourceWealth(inputs) ==
    MapThenSumSet(LAMBDA u : u.value * u.sourceWealth, inputs) \div Value(inputs)

NewTagWeightUnweighted(inputs, amount) ==
    (MapThenSumSet(LAMBDA u : u.tagWeight, inputs) * (100 * Value(inputs) - DecayPct * amount))
        \div (100 * Value(inputs) * Cardinality(inputs))

NewTagWeight(inputs, amount) ==
    (MapThenSumSet(LAMBDA u : u.value * u.tagWeight, inputs)
        * (100 * Value(inputs) - DecayPct * amount))
        \div (100 * Value(inputs) * Value(inputs))

\* change = selected_value - total_needed.  ChangeNoFee is a plausible bug
\* that leaves the fee out of total_needed.
ChangeNoFee(selected, amount, fee) == Value(selected) - amount

Change(selected, amount, fee) == Value(selected) - (amount + fee)

\* if change > 0.01: KeepsChangeAll is a plausible bug testing change >= 0.
KeepsChangeAll(change) == change >= 0

KeepsChange(change) == change > Dust

(***************************************************************************)
(* The end of transfer once inputs and fee are fixed: spend the inputs,    *)
(* create the payment and the change with the blended source_wealth and    *)
(* the decayed tag_weight; the caller adds the returned fee to total_fees. *)
(***************************************************************************)
Settle(s, r, amount, selected, fee) ==
    LET sw == AvgSourceWealth(selected)
        tw == NewTagWeight(selected, amount)
        change == Change(selected, amount, fee)
        payment == [id |-> nextId, value |-> amount, sourceWealth |-> sw,
                    tagWeight |-> tw, owner |-> r]
        changeOut == [id |-> nextId + 1, value |-> change, sourceWealth |-> sw,
                      tagWeight |-> tw, owner |-> s]
        outputs == IF KeepsChange(change) THEN {payment, changeOut} ELSE {payment}
    IN  /\ utxos' = (utxos \ selected) \cup outputs
        /\ nextId' = nextId + Cardinality(outputs)
        /\ totalFees' = totalFees + fee

(***************************************************************************)
(* transfer(utxo_set, sender, receiver, amount, ...): the balance guard,   *)
(* the first selection loop, the fee on the selected inputs, and the       *)
(* second loop that adds the remaining coins smallest first, recomputing   *)
(* the fee each time.  Selection k succeeds with fee if it covers amount   *)
(* plus fee and every shorter prefix tried fell short with the fee of its  *)
(* own.  A call that returns (False, 0) changes nothing: a stutter.        *)
(***************************************************************************)
Transfer(s, r, amount) ==
    LET seq == SetToSortSeq(OwnerUtxos(s), SmallerFirst)
        k0 == FirstPass(seq, amount)
        Covers(k, fee) == Value(Prefix(seq, k)) >= amount + fee
        FallsShort(k) == \E f \in FeeRange(amount) : ~Covers(k, f)
    IN  /\ transfers < MaxTransfers
        /\ 0 < amount /\ amount <= Value(OwnerUtxos(s))
        /\ \E k \in k0..Len(seq), fee \in FeeRange(amount) :
              /\ Covers(k, fee)
              /\ \A j \in k0..(k - 1) : FallsShort(j)
              /\ Settle(s, r, amount, Prefix(seq, k), fee)
        /\ transfers' = transfers + 1
        /\ UNCHANGED initialSupply

(***************************************************************************)
(* run_simulation's setup: agents sorted by wealth get ids 0, 1, ... and   *)
(* one coin each with source_wealth = its wealth and tag_weight = 1.0.     *)
(***************************************************************************)
Init ==
    \E wealth \in [Agents -> InitValues] :
    \E idOf \in Bijection(Agents, 0..(Cardinality(Agents) - 1)) :
        /\ \A a, b \in Agents : wealth[a] < wealth[b] => idOf[a] < idOf[b]
        /\ utxos = {[id |-> idOf[a], value |-> wealth[a], sourceWealth |-> wealth[a],
                     tagWeight |-> TwScale, owner |-> a] : a \in Agents}
        /\ nextId = Cardinality(Agents)
        /\ totalFees = 0
        /\ initialSupply = MapThenSumSet(LAMBDA a : wealth[a], Agents)
        /\ transfers = 0

(***************************************************************************)
(* The rounds of run_simulation: retail pays merchants, whales pay         *)
(* merchants, retail and other whales, merchants pay retail; never an      *)
(* agent itself.  The model lets any two distinct agents and any amount    *)
(* happen.                                                                 *)
(***************************************************************************)
Next == \E s, r \in Agents, amount \in 1..MaxAmount : s # r /\ Transfer(s, r, amount)

Spec == Init /\ [][Next]_vars

-----------------------------------------------------------------------------
(***************************************************************************)
(* Properties.                                                             *)
(***************************************************************************)

TypeOK ==
    /\ utxos \subseteq UTXO
    /\ \A u, v \in utxos : u.id = v.id => u = v
    /\ \A u \in utxos : u.id < nextId
    /\ totalFees \in Nat /\ initialSupply \in Nat
    /\ transfers \in 0..MaxTransfers

Supply == Value(utxos)

(***************************************************************************)
(* Only dust leaks: the coins plus the fees never exceed the initial       *)
(* supply, and fall short of it by at most the dust threshold per          *)
(* transfer (gini_simple_utxo.py:167 drops change of 0.01 or less).        *)
(***************************************************************************)
SupplyLeakBounded ==
    /\ Supply + totalFees <= initialSupply
    /\ initialSupply <= Supply + totalFees + Dust * transfers

\* The attribution a coin set carries: sum of value * tag_weight.
TagMass(U) == MapThenSumSet(LAMBDA u : u.value * u.tagWeight, U)

(***************************************************************************)
(* No transfer adds attribution: the total value * tag_weight of the coins *)
(* never grows from one state to the next, because the outputs are worth  *)
(* no more than the inputs and carry at most their mean weight.  Were it  *)
(* to grow, moving coins would raise the effective wealth the fee reads.  *)
(***************************************************************************)
TagMassNonIncreasing == [][TagMass(utxos') <= TagMass(utxos)]_vars
=============================================================================
