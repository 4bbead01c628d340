----------------------------- MODULE SingleStep -----------------------------
(***************************************************************************)
(* The round simulation of scripts/gini_single_step.py.  Agents 0 .. N-1   *)
(* hold a wealth each.  A round reads max_wealth once, then lets every     *)
(* agent in index order pay 5% of its wealth to another agent, plus a fee  *)
(* of payment * fee_fn(wealth, max_wealth) that is burned.                 *)
(* run_multiple_rounds repeats the round and skips an agent whose wealth   *)
(* is not positive; run_single_step is one round and adds up total_fees.   *)
(*                                                                         *)
(* Wealths are floats in the code and whole units here: the payment is    *)
(* the wealth divided by 20, the fee payment * rate, both rounded down.    *)
(* The rate is the exact rational of FeeCurve.                             *)
(***************************************************************************)
EXTENDS Naturals, FiniteSets, Functions, FiniteSetsExt

CONSTANTS
    N,              \* n, the number of agents
    InitValues,     \* the Pareto wealths an agent may be given
    FeeFn,          \* fee_fn: the progressive or the flat curve
    Rounds          \* rounds of run_multiple_rounds

Agents == 0..(N - 1)

Curve == INSTANCE FeeCurve WITH Curves <- {FeeFn}, MaxWealths <- {}, WealthBound <- 0,
                                curve <- FeeFn, maxWealth <- 0, wealth <- 0

ASSUME SingleStepConstantsAssumption ==
    /\ N \in Nat /\ N >= 2
    /\ InitValues \subseteq Nat \ {0} /\ InitValues # {}
    /\ FeeFn \in Curve!CurveConfigs
    /\ Rounds \in Nat

VARIABLES
    wealths,        \* the list wealths
    maxWealth,      \* max_wealth, read at the start of the round
    turn,           \* i, the agent whose turn it is; N between rounds
    round,          \* rounds started so far
    totalFees,      \* run_single_step's total_fees
    initialTotal    \* initial_total

vars == <<wealths, maxWealth, turn, round, totalFees, initialTotal>>

\* payment = sender_wealth * 0.05.
Payment(w) == w \div 20

(***************************************************************************)
(* fee = payment * fee_fn(sender_wealth, max_wealth).  FeeRateless is a    *)
(* plausible bug that charges the rate's numerator without its             *)
(* denominator, as if the rate were in whole percent.                      *)
(***************************************************************************)
FeeRateless(p, w, M) == (p * Curve!Num(FeeFn, w, M)) \div 10000

Fee(p, w, M) == (p * Curve!Num(FeeFn, w, M)) \div (10000 * Curve!Den(FeeFn, M))

(***************************************************************************)
(* The start of a round: max_wealth = max(wealths) if it is positive, else *)
(* 1 (run_single_step reads max(wealths) once, before its one round).      *)
(***************************************************************************)
StartRound ==
    LET top == Max(Range(wealths))
    IN  /\ turn = N
        /\ round < Rounds
        /\ maxWealth' = IF top > 0 THEN top ELSE 1
        /\ turn' = 0
        /\ round' = round + 1
        /\ UNCHANGED <<wealths, totalFees, initialTotal>>

(***************************************************************************)
(* Agent i's turn: wealths[i] -= payment + fee, wealths[recipient] +=      *)
(* payment, total_fees += fee, for a recipient other than i.               *)
(* run_multiple_rounds skips an agent whose wealth is not positive; that   *)
(* branch is never taken (WealthStaysPositive), so it is the guard of Pay  *)
(* and not an action of its own.  PayFeeToRecipient is a plausible bug     *)
(* that hands the fee to the recipient as well.                            *)
(***************************************************************************)
PayFeeToRecipient(r) ==
    LET i == turn
        p == Payment(wealths[i])
        fee == Fee(p, wealths[i], maxWealth)
    IN  /\ turn < N
        /\ wealths[i] > 0
        /\ r # i
        /\ wealths' = [wealths EXCEPT ![i] = @ - (p + fee), ![r] = @ + p + fee]
        /\ totalFees' = totalFees + fee
        /\ turn' = turn + 1
        /\ UNCHANGED <<maxWealth, round, initialTotal>>

Pay(r) ==
    LET i == turn
        p == Payment(wealths[i])
        fee == Fee(p, wealths[i], maxWealth)
    IN  /\ turn < N
        /\ wealths[i] > 0
        /\ r # i
        /\ wealths' = [wealths EXCEPT ![i] = @ - (p + fee), ![r] = @ + p]
        /\ totalFees' = totalFees + fee
        /\ turn' = turn + 1
        /\ UNCHANGED <<maxWealth, round, initialTotal>>

\* The Pareto draw: any positive wealths, before the first round.
Init ==
    /\ wealths \in [Agents -> InitValues]
    /\ maxWealth = 1
    /\ turn = N
    /\ round = 0
    /\ totalFees = 0
    /\ initialTotal = SumFunction(wealths)

Next == StartRound \/ \E r \in Agents : Pay(r)

Spec == Init /\ [][Next]_vars

-----------------------------------------------------------------------------
TypeOK ==
    /\ wealths \in [Agents -> Nat]
    /\ maxWealth \in Nat \ {0}
    /\ turn \in 0..N
    /\ round \in 0..Rounds
    /\ totalFees \in Nat /\ initialTotal \in Nat

(***************************************************************************)
(* Conservation (spec section 8): the wealths plus the fees burned equal   *)
(* the initial total after every payment, whatever the curve charges.      *)
(***************************************************************************)
Conservation == SumFunction(wealths) + totalFees = initialTotal

(***************************************************************************)
(* Every agent keeps a positive wealth: a payment of 5% plus its fee never *)
(* takes a sender to zero, even though the rate is read against a          *)
(* max_wealth that is stale by the time later agents pay.  So             *)
(* run_multiple_rounds' skip of agents without wealth never happens.       *)
(***************************************************************************)
WealthStaysPositive == \A a \in Agents : wealths[a] > 0
=============================================================================
