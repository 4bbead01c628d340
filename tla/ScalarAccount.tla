--------------------------- MODULE ScalarAccount ---------------------------
(***************************************************************************)
(* The scalar account models: scripts/gini_10yr_model.py,                  *)
(* scripts/botho_fee_model.py and scripts/cadence_fee_model.py.  Each      *)
(* agent has a balance and a single cluster_wealth number, which starts as *)
(* its balance, drops by what it sends and moves 5% towards what it        *)
(* receives.  The fee rate is a sigmoid of the sender's cluster_wealth;    *)
(* the three scripts differ only in how the rate is computed, in whether   *)
(* the fee may be given back to the retail agents (gini_10yr_model's       *)
(* redistribute flag) and in the transaction-type counters of the botho    *)
(* and cadence models.                                                     *)
(*                                                                         *)
(* Values are floats in the code and whole units here.  cluster_wealth is  *)
(* kept in hundredths of a unit, so that the 5% move is exact for whole    *)
(* amounts; the product cluster_wealth * (1 - decay) is rounded down.      *)
(***************************************************************************)
EXTENDS Naturals, FiniteSets, Functions

CONSTANTS
    Retail, Merchants, Whales,  \* create_lognormal_agents' agent types
    InitValues,     \* the balances the lognormal draw may give
    MaxAmount,      \* largest amount the harness may ask to transfer
    MaxTransfers,   \* the bounded number of rounds, as transfers
    DecayPct,       \* transfer's decay argument, in percent
    Redistribute,   \* run_simulation's redistribute flag (gini_10yr_model)
    RMinBps, RMaxBps,        \* FeeConfig of gini_10yr_model
    FeePerByte, TxSize,      \* BothoFeeConfig.fee_per_byte and TX_SIZE
    BaseBps,                 \* CadenceFeeConfig's plain and hidden base rates
    FactorMin, FactorMax,    \* cluster_factor's range, botho and cadence
    Scripts                  \* the scripts run: "10yr", "botho", "cadence"

Agents == Retail \cup Merchants \cup Whales
TxTypes == DOMAIN TxSize \cup DOMAIN BaseBps

\* cluster_wealth is kept in units of 1 / CwScale.
CwScale == 100

\* Each agent has one agent_type.
ASSUME AgentTypesAssumption ==
    Retail \cap Merchants = {} /\ Retail \cap Whales = {} /\ Merchants \cap Whales = {}

ASSUME InitValuesAssumption == InitValues \subseteq Nat \ {0} /\ InitValues # {}

ASSUME BoundsAssumption == MaxAmount \in Nat \ {0} /\ MaxTransfers \in Nat

ASSUME DecayAssumption == DecayPct \in 0..100

ASSUME RedistributeAssumption == Redistribute \in BOOLEAN

\* FeeConfig's r_min_bps and r_max_bps.
ASSUME RateAssumption == RMinBps \in 0..10000 /\ RMaxBps \in RMinBps..10000

ASSUME BothoAssumption == FeePerByte \in Nat /\ TxSize \in [DOMAIN TxSize -> Nat]

ASSUME CadenceAssumption == BaseBps \in [DOMAIN BaseBps -> Nat]

\* cluster_factor's factor_min and factor_max.
ASSUME FactorAssumption == FactorMin \in Nat /\ FactorMax \in FactorMin..100

ASSUME ScriptsAssumption == Scripts \subseteq {"10yr", "botho", "cadence"} /\ Scripts # {}

\* create_lognormal_agents makes a list of n_agents: finitely many agents.
ASSUME AgentsFinite == IsFiniteSet(Agents)

VARIABLES
    balance,        \* Agent.balance
    clusterWealth,  \* Agent.cluster_wealth, in units of 1 / CwScale
    totalFees,      \* SimState.total_fees (total_fees_burned)
    txCount,        \* the botho and cadence models' per-type counters
    initialBalance, \* the balances drawn at creation (history)
    transfers,      \* transfers done so far, to bound the run
    script          \* the script whose transfer runs, fixed for a behaviour

vars == <<balance, clusterWealth, totalFees, txCount, initialBalance, transfers, script>>

(***************************************************************************)
(* The fee for an amount whose rate the sigmoid puts anywhere from lo to   *)
(* hi basis points: every whole number of units from the floor of the      *)
(* smallest to the ceiling of the largest real fee.                        *)
(***************************************************************************)
FeeBetween(amount, lo, hi) ==
    ((amount * lo) \div 10000)..(((amount * hi) + 9999) \div 10000)

\* FeeConfig.rate_bps of gini_10yr_model: r_min when flat, else between
\* r_min and r_max.
Fee10yr(amount) == FeeBetween(amount, RMinBps, RMaxBps)

(***************************************************************************)
(* BothoFeeConfig.compute_fee is fee_per_byte * tx_size * cluster_factor,  *)
(* and transfer charges amount * min(fee / 1_000_000, 0.10): a rate of     *)
(* fee / 100 basis points, capped at 1000.                                 *)
(***************************************************************************)
BothoBps(tx, factor) ==
    LET bps == (FeePerByte * TxSize[tx] * factor) \div 100
    IN  IF bps < 1000 THEN bps ELSE 1000

FeeBotho(amount, tx) == FeeBetween(amount, BothoBps(tx, FactorMin), BothoBps(tx, FactorMax))

\* CadenceFeeConfig.rate_bps is base * cluster_factor, fee = amount * rate / 10000.
FeeCadence(amount, tx) == FeeBetween(amount, BaseBps[tx] * FactorMin, BaseBps[tx] * FactorMax)

(***************************************************************************)
(* The body every transfer shares once the fee is known: debit the sender, *)
(* credit the net to the receiver, drop the sender's cluster_wealth by the *)
(* amount (clamped at 0), move the receiver's towards the net, and add the *)
(* fee to the counter.  SenderWealthKept is a plausible bug that forgets   *)
(* to lower the sender's cluster_wealth, NetGross one that credits the     *)
(* whole amount.                                                           *)
(***************************************************************************)
SenderWealthKept(cw, amount) == cw

SenderWealth(cw, amount) == IF cw > amount * CwScale THEN cw - amount * CwScale ELSE 0

NetGross(amount, fee) == amount

Net(amount, fee) == amount - fee

Settle(s, r, amount, fee, shares) ==
    LET net == Net(amount, fee)
        debited == [balance EXCEPT ![s] = @ - amount]
        credited == [debited EXCEPT ![r] = @ + net]
    IN  /\ balance' = [a \in Agents |-> credited[a] + shares[a]]
        /\ clusterWealth' =
              [clusterWealth EXCEPT
                  ![s] = SenderWealth(@, amount),
                  ![r] = (@ * (100 - DecayPct)) \div 100 + (net * DecayPct * CwScale) \div 100]
        /\ totalFees' = totalFees + fee

\* Nothing given back: the burn policy, and the botho and cadence models.
NoShares == [a \in Agents |-> 0]

(***************************************************************************)
(* redistribute and fee > 0: each retail agent's balance grows by          *)
(* fee / len(retail).  In whole units the shares differ by at most one and *)
(* add up to the fee, as the float shares do.  With no retail agent, or no *)
(* fee, nothing is given back.  total_fees has counted the fee all the     *)
(* same.                                                                   *)
(***************************************************************************)
Shares(fee) ==
    IF Redistribute /\ fee > 0 /\ Retail # {}
    THEN {sh \in [Agents -> 0..fee] :
             /\ \A a \in Agents \ Retail : sh[a] = 0
             /\ \A a \in Retail : sh[a] \in {fee \div Cardinality(Retail), fee \div Cardinality(Retail) + 1}
             /\ SumFunction(sh) = fee}
    ELSE {NoShares}

\* transfer's guard: sender.balance < amount or amount <= 0 returns False.
\* CanSendUnchecked is a plausible bug that drops the balance check.
CanSendUnchecked(s, amount) ==
    /\ transfers < MaxTransfers
    /\ 0 < amount

CanSend(s, amount) ==
    /\ transfers < MaxTransfers
    /\ 0 < amount /\ amount <= balance[s]

\* gini_10yr_model.transfer: fee from the sigmoid, settlement, redistribution.
Transfer10yr(s, r, amount) ==
    /\ CanSend(s, amount)
    /\ \E fee \in Fee10yr(amount) : \E shares \in Shares(fee) : Settle(s, r, amount, fee, shares)
    /\ transfers' = transfers + 1
    /\ UNCHANGED <<txCount, initialBalance>>

\* botho_fee_model.transfer: the size-based fee, and one more of tx's type.
TransferBotho(s, r, amount, tx) ==
    /\ CanSend(s, amount)
    /\ \E fee \in FeeBotho(amount, tx) : Settle(s, r, amount, fee, NoShares)
    /\ txCount' = [txCount EXCEPT ![tx] = @ + 1]
    /\ transfers' = transfers + 1
    /\ UNCHANGED initialBalance

\* cadence_fee_model.transfer: the tiered rate, and one more of tx's type.
TransferCadence(s, r, amount, tx) ==
    /\ CanSend(s, amount)
    /\ \E fee \in FeeCadence(amount, tx) : Settle(s, r, amount, fee, NoShares)
    /\ txCount' = [txCount EXCEPT ![tx] = @ + 1]
    /\ transfers' = transfers + 1
    /\ UNCHANGED initialBalance

(***************************************************************************)
(* create_lognormal_agents: balances sorted ascending are typed retail     *)
(* (the poorest 70%), merchant (the next 20%) and whale (the richest 10%); *)
(* cluster_wealth starts as the balance (Agent.__post_init__).             *)
(***************************************************************************)
Init ==
    \E wealth \in [Agents -> InitValues] :
        /\ \A r \in Retail, m \in Merchants, w \in Whales :
              wealth[r] <= wealth[m] /\ wealth[m] <= wealth[w]
        /\ \A r \in Retail, w \in Whales : wealth[r] <= wealth[w]
        /\ balance = wealth
        /\ clusterWealth = [a \in Agents |-> wealth[a] * CwScale]
        /\ totalFees = 0
        /\ txCount = [tx \in TxTypes |-> 0]
        /\ initialBalance = wealth
        /\ transfers = 0
        /\ script \in Scripts

(***************************************************************************)
(* run_round: retail pay merchants; whales pay merchants, retail and other *)
(* whales; merchants pay retail.  Who pays whom is kept, the random draws, *)
(* thresholds and fractions of the balance that pick the amount are not.   *)
(***************************************************************************)
Pays(s, r) ==
    \/ s \in Retail /\ r \in Merchants
    \/ s \in Whales /\ r \in Merchants \cup Retail \cup (Whales \ {s})
    \/ s \in Merchants /\ r \in Retail

Next10yr ==
    \E s, r \in Agents, amount \in 1..MaxAmount : Pays(s, r) /\ Transfer10yr(s, r, amount)

NextBotho ==
    \E s, r \in Agents, amount \in 1..MaxAmount, tx \in DOMAIN TxSize :
        Pays(s, r) /\ TransferBotho(s, r, amount, tx)

NextCadence ==
    \E s, r \in Agents, amount \in 1..MaxAmount, tx \in DOMAIN BaseBps :
        Pays(s, r) /\ TransferCadence(s, r, amount, tx)

\* Each behaviour runs one script's run_round throughout.
Next ==
    /\ \/ script = "10yr" /\ Next10yr
       \/ script = "botho" /\ NextBotho
       \/ script = "cadence" /\ NextCadence
    /\ UNCHANGED script

Spec == Init /\ [][Next]_vars

-----------------------------------------------------------------------------
(***************************************************************************)
(* Properties.                                                             *)
(***************************************************************************)

TypeOK ==
    /\ balance \in [Agents -> Nat]
    /\ clusterWealth \in [Agents -> Nat]
    /\ totalFees \in Nat
    /\ txCount \in [TxTypes -> Nat]
    /\ initialBalance \in [Agents -> InitValues]
    /\ transfers \in 0..MaxTransfers
    /\ script \in Scripts

(***************************************************************************)
(* Conservation (spec section 8): the live balances plus the fees recorded *)
(* add up to what was minted, exactly, under the burn policy.  With        *)
(* redistribute, transfer both records the fee in total_fees and gives it  *)
(* back to retail, so the fee is counted twice; the run uses the burn      *)
(* policy.                                                                 *)
(***************************************************************************)
Conservation == SumFunction(balance) + totalFees = SumFunction(initialBalance)

(***************************************************************************)
(* The cluster wealth the fee is computed from never exceeds the agent's   *)
(* own balance: it falls with every amount sent as the balance does, and   *)
(* moves only 5% of the way towards what arrives.  So the progressive fee  *)
(* of these models never charges an agent for more wealth than it holds,   *)
(* whatever the history of its coins.                                      *)
(***************************************************************************)
ClusterWealthBelowBalance ==
    \A a \in Agents : clusterWealth[a] <= balance[a] * CwScale
=============================================================================
