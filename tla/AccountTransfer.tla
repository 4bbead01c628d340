-------------------------- MODULE AccountTransfer ---------------------------
(***************************************************************************)
(* The account-based transfer engine of scripts/gini_account_model.py,     *)
(* which its docstring says matches Botho's transfer.rs: every account has *)
(* a balance and a tag vector, a global ClusterWealth ledger holds each    *)
(* cluster's attributed wealth, and execute_transfer moves value from a    *)
(* sender to a receiver, burning a fee taken from the amount.              *)
(*                                                                         *)
(* create_accounts gives the i-th account the i-th fresh cluster id, so    *)
(* account ids and cluster ids coincide: the set Clusters names both.      *)
(* The simulation harness (run_round) picks senders, receivers and amounts *)
(* at random; the model lets every pair of distinct accounts and every     *)
(* amount up to MaxAmount happen.                                          *)
(***************************************************************************)
EXTENDS Naturals, Functions, ProvenanceTags, ClusterLedger

CONSTANTS
    DecayRate,       \* SimState.decay_rate, parts per TAG_SCALE per hop
    RMinBps,         \* FeeConfig.r_min_bps
    RMaxBps,         \* FeeConfig.r_max_bps
    MaxInitBalance,  \* largest starting balance create_accounts may draw
    MaxAmount,       \* largest amount the harness may ask to transfer
    MaxTransfers     \* run_simulation's bounded number of rounds, as transfers

ASSUME DecayAssumption == DecayRate \in 0..Scale
ASSUME RateAssumption == RMinBps \in 0..10000 /\ RMaxBps \in RMinBps..10000
ASSUME BoundsAssumption ==
    /\ MaxInitBalance \in Nat \ {0}
    /\ MaxAmount \in Nat \ {0}
    /\ MaxTransfers \in Nat

Accounts == Clusters

VARIABLES
    balance,         \* account.balance
    tags,            \* account.tags
    clusterWealth,   \* ClusterWealth.wealth
    totalFees,       \* SimState.total_fees: fees burned so far
    initialBalance,  \* the balances create_accounts drew (initial_supply)
    transfers        \* transfers executed so far, bounded by MaxTransfers

vars == <<balance, tags, clusterWealth, totalFees, initialBalance, transfers>>

(***************************************************************************)
(* Fee.  effective_fee_rate takes MAX(weight / TAG_SCALE * wealth) over    *)
(* the sender's tags and feeds it to FeeConfig.rate_bps, a sigmoid from    *)
(* r_min_bps to r_max_bps (r_min_bps itself when the two are equal); the   *)
(* fee is int(amount * rate / 10_000).  A sigmoid of a float rounds to any *)
(* rate in [r_min, r_max], so the fee is any integer between the fees of   *)
(* the two end rates; with a flat curve it is the one fee of r_min.        *)
(***************************************************************************)
FeeRange(amount) ==
    IF RMinBps = RMaxBps
    THEN {(amount * RMinBps) \div 10000}
    ELSE ((amount * RMinBps) \div 10000)..((amount * RMaxBps) \div 10000)

\* `net_amount = amount - fee`: the fee is taken from the amount.
NetAmountGross(amount, fee) == amount
NetAmount(amount, fee) == amount - fee

\* `mass_leaving = amount * weight // TAG_SCALE`, debited from the cluster.
MassLeaving(amount, weight) == (amount * weight) \div Scale

\* `mass_arriving = net_amount * weight // TAG_SCALE`, credited to it.
MassArrivingRoundedUp(net, weight) == (net * weight + Scale - 1) \div Scale
MassArriving(net, weight) == (net * weight) \div Scale

(***************************************************************************)
(* create_accounts: each account gets a fresh cluster, a balance, 100%     *)
(* self-attribution, and apply_delta(cluster, balance) seeds the ledger.   *)
(***************************************************************************)
Init ==
    /\ initialBalance \in [Accounts -> 1..MaxInitBalance]
    /\ balance = initialBalance
    /\ tags = [a \in Accounts |-> SelfTags(a)]
    /\ clusterWealth = ApplyDeltas([c \in Clusters |-> 0], initialBalance)
    /\ totalFees = 0
    /\ transfers = 0

(***************************************************************************)
(* execute_transfer(sender, receiver, amount), followed by run_round's     *)
(* `state.total_fees += fee` on success: Transfer checks the guard and     *)
(* picks the fee, Settle applies the transfer's effects for that fee.      *)
(* A transfer with amount <= 0 or above the sender's balance returns       *)
(* False and changes nothing, so it is a stuttering step and has no        *)
(* action of its own.  The receiver's balance_before is read after the     *)
(* sender has been debited, as in the code.                                *)
(***************************************************************************)
Settle(s, r, amount, fee) ==
    LET net         == NetAmount(amount, fee)
        debited     == [balance EXCEPT ![s] = @ - amount]
        transferred == ApplyDecay(tags[s], DecayRate)
        leaving     == [c \in Clusters |-> -MassLeaving(amount, tags[s][c])]
        arriving    == [c \in Clusters |-> MassArriving(net, transferred[c])]
    IN  /\ balance' = [debited EXCEPT ![r] = @ + net]
        /\ clusterWealth' = ApplyDeltas(ApplyDeltas(clusterWealth, leaving), arriving)
        /\ tags' = [tags EXCEPT ![r] = MixTags(tags[r], debited[r], transferred, net)]
        /\ totalFees' = totalFees + fee

Transfer(s, r, amount) ==
    /\ transfers < MaxTransfers
    /\ 0 < amount /\ amount <= balance[s]
    /\ \E fee \in FeeRange(amount) : Settle(s, r, amount, fee)
    /\ transfers' = transfers + 1
    /\ UNCHANGED initialBalance

(***************************************************************************)
(* run_round: every transfer it makes goes between two distinct accounts   *)
(* (retail to merchant, whale to merchant, retail or another whale,        *)
(* merchant to retail), for an amount the sender holds; which pair and     *)
(* which amount are drawn at random, so any of them may come next.         *)
(***************************************************************************)
Next ==
    \E s, r \in Accounts, amount \in 1..MaxAmount :
        /\ s # r
        /\ Transfer(s, r, amount)

Spec == Init /\ [][Next]_vars

-----------------------------------------------------------------------------
(***************************************************************************)
(* Properties.                                                             *)
(***************************************************************************)

TypeOK ==
    /\ balance \in [Accounts -> Nat]
    /\ tags \in [Accounts -> TagVector]
    /\ \A a \in Accounts, c \in Clusters : tags[a][c] = Prune(tags[a][c])
    /\ clusterWealth \in [Clusters -> Nat]
    /\ totalFees \in Nat
    /\ initialBalance \in [Accounts -> 1..MaxInitBalance]
    /\ transfers \in 0..MaxTransfers

\* Conservation (spec section 8): the balances plus the fees burned always
\* add up to the supply create_accounts minted, whatever fee each transfer
\* charged along the way.
Conservation ==
    SumFunction(balance) + totalFees = SumFunction(initialBalance)

\* The exact mass of cluster c held across all accounts, in weight units.
Attribution(c) == SumFunction([a \in Accounts |-> balance[a] * tags[a][c]])

\* A cluster's attribution never exceeds the wealth it was minted with:
\* the rounding in apply_decay and mix_tags, the decay per hop and the fee
\* may only lose attributed mass, never create it.
AttributionBounded ==
    \A c \in Clusters : Attribution(c) <= initialBalance[c] * Scale

\* The ledger never credits a cluster with more wealth than it was minted
\* with, even though the clamp of apply_delta can raise a cluster's
\* ledger entry above balance-minus-departures.
LedgerBounded ==
    \A c \in Clusters : clusterWealth[c] <= initialBalance[c]

\* No account's explicit tags weigh more than 100%: the background weight
\* TAG_SCALE - sum(tags) of every account stays non-negative after any
\* sequence of mixes.
TagMassBounded ==
    \A a \in Accounts : SumFunction(tags[a]) <= Scale

\* No transfer raises any cluster's attributed mass: execute_transfer moves
\* amount * weight out of the sender and at most net * decayed weight into
\* the receiver's mix, whatever the rounding of apply_decay and mix_tags.
AttributionNeverGrows ==
    [][\A c \in Clusters : Attribution(c)' <= Attribution(c)]_vars
=============================================================================
