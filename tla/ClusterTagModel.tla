--------------------------- MODULE ClusterTagModel ---------------------------
(***************************************************************************)
(* The cluster simulation of scripts/gini_cluster_model.py.  Each agent    *)
(* has a balance and tags, a weight per cluster; create_agents_with_       *)
(* clusters gives agent i its own cluster i with weight 1.0, so agents and *)
(* clusters share the names in Agents.  A cluster's wealth is not stored:  *)
(* compute_cluster_wealth adds balance * weight over the agents.  run_round *)
(* computes it once and every transfer of the round reads that cache.      *)
(* transfer charges a fee on top of the amount, sends the sender's tags    *)
(* decayed by 5% with the amount and mixes them into the receiver's tags   *)
(* by value, pruning weights of 0.001 or less.                             *)
(*                                                                         *)
(* Balances are floats in the code and whole units here; tag weights are   *)
(* kept in units of 1 / Scale, rounded down.  The rate is FeeConfig's      *)
(* sigmoid between r_min_bps and r_max_bps, so the fee is any whole number *)
(* of units from the floor of the lowest to the ceiling of the highest.    *)
(***************************************************************************)
EXTENDS Naturals, FiniteSets, Functions, FiniteSetsExt

CONSTANTS
    Retail, Merchants, Whales,  \* the agent types of create_agents_with_clusters
    InitValues,     \* the lognormal balances an agent may be given
    Scale,          \* a tag weight of 1.0
    PruneUnits,     \* the prune threshold 0.001, in units of 1 / Scale
    DecayPct,       \* transfer's decay argument, in percent
    RMinBps,        \* FeeConfig.r_min_bps
    RMaxBps,        \* FeeConfig.r_max_bps
    MaxAmount,      \* largest amount the harness may ask to transfer
    MaxTransfers,   \* the rounds' transfers, bounded
    MaxRounds       \* rounds of run_simulation, bounded

Agents == Retail \cup Merchants \cup Whales

ASSUME ClusterTagConstantsAssumption ==
    /\ IsFiniteSet(Retail) /\ IsFiniteSet(Merchants) /\ IsFiniteSet(Whales)
    /\ Retail \cap Merchants = {} /\ Retail \cap Whales = {} /\ Merchants \cap Whales = {}
    /\ InitValues \subseteq Nat \ {0} /\ InitValues # {}
    /\ Scale \in Nat \ {0} /\ PruneUnits \in 0..Scale
    /\ DecayPct \in 0..100
    /\ RMinBps \in Nat /\ RMaxBps \in RMinBps..100000
    /\ MaxAmount \in Nat \ {0} /\ MaxTransfers \in Nat /\ MaxRounds \in Nat \ {0}

VARIABLES
    balance,        \* agent.balance
    tags,           \* agent.tags, a total function: 0 is no entry
    cache,          \* run_round's cluster_wealth, in value * 1 / Scale units
    totalFees,      \* SimState.total_fees
    initialSupply,  \* run_simulation's initial_supply
    transfers,      \* transfers done so far, to bound the run
    rounds          \* rounds started so far, to bound the run

vars == <<balance, tags, cache, totalFees, initialSupply, transfers, rounds>>

\* ClusterRegistry.compute_cluster_wealth: sum of balance * weight.
ClusterWealth(k) == SumFunction([a \in Agents |-> balance[a] * tags[a][k]])

\* The whole table, as run_round computes it.
ClusterWealthTable == [k \in Agents |-> ClusterWealth(k)]

(***************************************************************************)
(* The effective wealth transfer reads: MAX(tag_weight * cluster_wealth)   *)
(* over the sender's tags, from the table it is given, 0 if none.          *)
(***************************************************************************)
EffectiveWealth(a, table) ==
    Max({tags[a][k] * table[k] : k \in Agents} \cup {0})

\* rate_bps is r_min_bps when it equals r_max_bps, else the sigmoid between
\* them; fee = amount * rate / 10_000, a whole number of units here.
FeeRange(amount) ==
    ((amount * RMinBps) \div 10000)..(((amount * RMaxBps) + 9999) \div 10000)

\* Step 3: the sender's tags decayed, those of 0.001 or less dropped.
Incoming(t) ==
    [k \in Agents |-> LET d == (t[k] * (100 - DecayPct)) \div 100
                      IN  IF d > PruneUnits THEN d ELSE 0]

(***************************************************************************)
(* Step 4: the receiver's tags weighted by old_balance / new_balance plus  *)
(* the incoming ones weighted by amount / new_balance, then pruned.        *)
(* MixUnscaled is a plausible bug adding the incoming weights unscaled.    *)
(***************************************************************************)
MixUnscaled(tr, tin, old, amount) ==
    [k \in Agents |-> LET m == (tr[k] * old) \div (old + amount) + tin[k]
                      IN  IF m > PruneUnits THEN m ELSE 0]

Mix(tr, tin, old, amount) ==
    [k \in Agents |-> LET m == (tr[k] * old + tin[k] * amount) \div (old + amount)
                      IN  IF m > PruneUnits THEN m ELSE 0]

(***************************************************************************)
(* transfer(state, sender, receiver, amount): False, changing nothing,     *)
(* when the balance is below the amount or below amount plus fee.          *)
(* Otherwise the sender pays amount + fee and keeps its tags, the receiver *)
(* gets the amount and the mixed tags, and total_fees grows by the fee.    *)
(* new_balance > 0 always holds, as the amount is positive.                *)
(* ReceiverGetsFee is a plausible bug crediting the receiver with the fee. *)
(***************************************************************************)
ReceiverGetsFee(amount, fee) == amount + fee

ReceiverCredit(amount, fee) == amount

Transfer(s, r, amount) ==
    /\ transfers < MaxTransfers
    /\ 0 < amount /\ amount <= balance[s]
    /\ \E fee \in FeeRange(amount) :
          /\ amount + fee <= balance[s]
          /\ balance' = [balance EXCEPT ![s] = @ - (amount + fee),
                                        ![r] = @ + ReceiverCredit(amount, fee)]
          /\ tags' = [tags EXCEPT ![r] = Mix(tags[r], Incoming(tags[s]), balance[r], amount)]
          /\ totalFees' = totalFees + fee
    /\ transfers' = transfers + 1
    /\ UNCHANGED <<cache, initialSupply, rounds>>

\* run_round begins by computing the cluster wealth once.
StartRound ==
    /\ rounds < MaxRounds
    /\ cache' = ClusterWealthTable
    /\ rounds' = rounds + 1
    /\ UNCHANGED <<balance, tags, totalFees, initialSupply, transfers>>

(***************************************************************************)
(* create_agents_with_clusters: balances sorted ascending are typed retail *)
(* (the poorest 70%), merchant and whale; each agent is 100% its own       *)
(* cluster.  The first round computes the cache.                           *)
(***************************************************************************)
Init ==
    \E wealth \in [Agents -> InitValues] :
        /\ \A r \in Retail, m \in Merchants, w \in Whales :
              wealth[r] <= wealth[m] /\ wealth[m] <= wealth[w]
        /\ \A r \in Retail, w \in Whales : wealth[r] <= wealth[w]
        /\ balance = wealth
        /\ tags = [a \in Agents |-> [k \in Agents |-> IF k = a THEN Scale ELSE 0]]
        /\ cache = [k \in Agents |-> wealth[k] * Scale]
        /\ totalFees = 0
        /\ initialSupply = SumFunction(wealth)
        /\ transfers = 0
        /\ rounds = 1

(***************************************************************************)
(* run_round: retail pay merchants; whales pay merchants, retail and other *)
(* whales; merchants pay retail, each with the round's cached table.  The  *)
(* random draws and the fractions that size the amounts are not kept.      *)
(***************************************************************************)
Pays(s, r) ==
    \/ s \in Retail /\ r \in Merchants
    \/ s \in Whales /\ r \in Merchants \cup Retail \cup (Whales \ {s})
    \/ s \in Merchants /\ r \in Retail

Next ==
    \/ StartRound
    \/ \E s, r \in Agents, amount \in 1..MaxAmount : Pays(s, r) /\ Transfer(s, r, amount)

Spec == Init /\ [][Next]_vars

-----------------------------------------------------------------------------
TypeOK ==
    /\ balance \in [Agents -> Nat]
    /\ tags \in [Agents -> [Agents -> 0..Scale]]
    /\ cache \in [Agents -> Nat]
    /\ totalFees \in Nat /\ initialSupply \in Nat
    /\ transfers \in 0..MaxTransfers /\ rounds \in 0..MaxRounds

(***************************************************************************)
(* Conservation (spec section 8): balances plus fees burned equal the      *)
(* initial supply; the fee is charged on top and the receiver gets the    *)
(* amount.                                                                 *)
(***************************************************************************)
Conservation == SumFunction(balance) + totalFees = initialSupply

(***************************************************************************)
(* No agent's tags add up to more than 1.0, so background_weight's         *)
(* max(0, 1 - sum) never has to clamp: the mix is a convex combination of  *)
(* two weight vectors that each sum to at most 1.0.                        *)
(***************************************************************************)
TagsSumAtMostOne == \A a \in Agents : SumFunction(tags[a]) <= Scale

(***************************************************************************)
(* The cache run_round computes once never understates the effective      *)
(* wealth a sender's fee reads, as the round goes on: every transfer of    *)
(* the round lowers or keeps each cluster's wealth (the fee and the decay  *)
(* leave it), and the effective wealth is a max of weights times cluster   *)
(* wealths.  The sigmoid is increasing, so the stale table can overcharge  *)
(* a sender but never let one pay less than fresh figures would charge.    *)
(***************************************************************************)
CacheNeverUnderstates ==
    \A a \in Agents : EffectiveWealth(a, cache) >= EffectiveWealth(a, ClusterWealthTable)

(***************************************************************************)
(* Within a round, no step raises any cluster's wealth: a transfer moves   *)
(* the amount with a decayed copy of the sender's weights (the decay and   *)
(* the pruning drop some of it) and burns the fee.  This is why run_round  *)
(* may compute the table once and reuse it for the whole round.            *)
(***************************************************************************)
ClusterWealthNeverGrowsInRound ==
    [][rounds' = rounds => \A k \in Agents : ClusterWealth(k)' <= ClusterWealth(k)]_vars
=============================================================================
