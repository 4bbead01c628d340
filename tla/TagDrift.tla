------------------------------ MODULE TagDrift ------------------------------
(***************************************************************************)
(* The public tag drift simulation of scripts/tag_drift_simulation.py.     *)
(* mint gives each agent one coin with a random tag; transfer spends the   *)
(* sender's coins smallest first until they cover the amount and gives the *)
(* payment and the change the value-weighted average tag of the coins      *)
(* spent.  run_simulation lets a random sender with more than 100 pay a    *)
(* random other agent between 50 and min(wealth // 2, 10000).              *)
(*                                                                         *)
(* Tags are floats in [0, 1) in the code and whole numbers here; the      *)
(* average, a float quotient, is the exact quotient rounded either way.    *)
(* The amounts are scaled down with the sizes of the coins.                *)
(***************************************************************************)
EXTENDS Naturals, FiniteSets, FiniteSetsExt

CONSTANTS
    Agents,         \* range(n_agents)
    InitValues,     \* the Pareto wealths mint may be given, astype(int)
    InitTags,       \* the random tags mint may draw
    MinAmount,      \* randint's lower bound, 50
    AmountCap,      \* randint's cap, 10000
    WealthFloor,    \* a sender must have more than this, 100
    MaxTransfers    \* the rounds' transfers, bounded

ASSUME TagDriftConstantsAssumption ==
    /\ InitValues \subseteq Nat /\ InitValues # {}
    /\ InitTags \subseteq Nat /\ InitTags # {}
    /\ MinAmount \in Nat \ {0} /\ AmountCap \in Nat /\ WealthFloor \in Nat
    /\ MaxTransfers \in Nat

VARIABLES
    utxos,          \* sim.utxos
    counter,        \* sim.utxo_counter
    minted,         \* the 10M minted by run_simulation
    transfers       \* transfers done so far, to bound the run

vars == <<utxos, counter, minted, transfers>>

\* A tag is random() in [0, 1): no higher than the highest tag minted.
UTXO == [id : Nat, value : Nat, tag : 0..Max(InitTags), owner : Agents]

OwnerUtxos(a) == {u \in utxos : u.owner = a}

\* sum(u.value for u in us), and get_agent_wealth.
Value(S) == MapThenSumSet(LAMBDA u : u.value, S)

Wealth(a) == Value(OwnerUtxos(a))

(***************************************************************************)
(* The greedy selection: sorted(key=value) is stable, so coins of equal    *)
(* value keep their list order, which is id order.  A coin is spent when   *)
(* the coins before it in that order add up to less than the amount: the   *)
(* loop reaches it and has not yet broken.                                 *)
(***************************************************************************)
Before(c, u) == c.value < u.value \/ (c.value = u.value /\ c.id < u.id)

ToSpend(coins, amount) ==
    {u \in coins : Value({c \in coins : Before(c, u)}) < amount}

(***************************************************************************)
(* avg_tag = weighted_tag_sum / total_input_value, a float: the exact      *)
(* quotient rounded down or up.  AvgTagOverAmount is a plausible bug that  *)
(* divides by the amount instead of the value spent.                       *)
(***************************************************************************)
AvgTagOverAmount(S, amount) ==
    LET num == MapThenSumSet(LAMBDA u : u.value * u.tag, S)
    IN  {num \div amount, (num + amount - 1) \div amount}

AvgTag(S, amount) ==
    LET num == MapThenSumSet(LAMBDA u : u.value * u.tag, S)
        den == Value(S)
    IN  {num \div den, (num + den - 1) \div den}

(***************************************************************************)
(* change = spent_value - amount.  ChangeFromTotal is a plausible bug that *)
(* returns the sender's whole wealth less the amount.                      *)
(***************************************************************************)
ChangeFromTotal(coins, S, amount) == Value(coins) - amount

Change(coins, S, amount) == Value(S) - amount

(***************************************************************************)
(* transfer: False when the sender's total is below the amount; else the   *)
(* selected coins are spent, the payment gets the next id and the change,  *)
(* if positive, the one after, both with the average tag.                  *)
(***************************************************************************)
Transfer(s, r, amount) ==
    LET coins == OwnerUtxos(s)
        S == ToSpend(coins, amount)
        change == Change(coins, S, amount)
    IN  /\ transfers < MaxTransfers
        /\ Value(coins) >= amount
        /\ \E avg \in AvgTag(S, amount) :
              LET payment == [id |-> counter, value |-> amount, tag |-> avg, owner |-> r]
                  changeUtxo == [id |-> counter + 1, value |-> change, tag |-> avg, owner |-> s]
                  outputs == IF change > 0 THEN {payment, changeUtxo} ELSE {payment}
              IN  /\ utxos' = (utxos \ S) \cup outputs
                  /\ counter' = counter + Cardinality(outputs)
        /\ transfers' = transfers + 1
        /\ UNCHANGED minted

\* The amounts run_simulation may draw for a sender: none unless its wealth
\* exceeds 100, else randint(50, min(wealth // 2, 10000)).
Amounts(s) ==
    IF Wealth(s) > WealthFloor
    THEN MinAmount..(IF Wealth(s) \div 2 < AmountCap THEN Wealth(s) \div 2 ELSE AmountCap)
    ELSE {}

\* run_simulation's mint of one coin per agent, ids in agent order.
Init ==
    \E wealth \in [Agents -> InitValues], tag \in [Agents -> InitTags] :
    \E idOf \in Bijection(Agents, 0..(Cardinality(Agents) - 1)) :
        /\ utxos = {[id |-> idOf[a], value |-> wealth[a], tag |-> tag[a], owner |-> a] :
                      a \in Agents}
        /\ counter = Cardinality(Agents)
        /\ minted = MapThenSumSet(LAMBDA a : wealth[a], Agents)
        /\ transfers = 0

\* One transaction of a round: a sender, another receiver, a drawn amount.
Next == \E s, r \in Agents : s # r /\ \E amount \in Amounts(s) : Transfer(s, r, amount)

Spec == Init /\ [][Next]_vars

-----------------------------------------------------------------------------
TypeOK ==
    /\ utxos \subseteq UTXO
    /\ \A u, v \in utxos : u.id = v.id => u = v
    /\ \A u \in utxos : u.id < counter
    /\ minted \in Nat
    /\ transfers \in 0..MaxTransfers

(***************************************************************************)
(* Conservation (spec section 8): the coins in circulation always add up   *)
(* to what was minted; the payment and the change together are exactly    *)
(* the value of the coins the greedy selection spent.                      *)
(***************************************************************************)
Conservation == Value(utxos) = minted

(***************************************************************************)
(* Question 1 of the simulation, how fast tags converge, presumes that     *)
(* averaging only ever narrows them: no transfer creates a coin whose tag  *)
(* lies outside the range of the tags in circulation before it, so the    *)
(* spread of tags never widens, whatever the rounding of the average.      *)
(***************************************************************************)
TagRangeNeverWidens ==
    [][\A u \in utxos' \ utxos :
          \E lo, hi \in utxos : lo.tag <= u.tag /\ u.tag <= hi.tag]_vars
=============================================================================
