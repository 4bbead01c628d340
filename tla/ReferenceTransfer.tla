-------------------------- MODULE ReferenceTransfer --------------------------
(***************************************************************************)
(* The reference implementation scripts/provenance_reference.py: each coin *)
(* carries a single number, the source_wealth of its minter, instead of a  *)
(* tag vector.  A transfer spends a caller-given list of input ids, blends *)
(* their source_wealth by value, charges a fee that grows linearly with    *)
(* the blend, and mints the caller-given outputs, all with the blend.      *)
(* There is no change output: whatever the inputs hold beyond the outputs  *)
(* and the fee is not minted again.                                        *)
(*                                                                         *)
(* The callers are the correctness tests, which mint coins and call        *)
(* transfer with lists they build by hand; the model lets any short list   *)
(* of ids (repeated or unknown ones included) and any short list of        *)
(* outputs be passed.                                                      *)
(***************************************************************************)
EXTENDS Naturals, Sequences, FiniteSets, SequencesExt

CONSTANTS
    Owners,         \* the owner names the tests use
    MintValues,     \* values a test mints
    SourceWealths,  \* source_wealth values a test mints with
    OutValues,      \* values of the outputs a test asks for
    MaxWealth,      \* the max_wealth argument of transfer
    RMinBps,        \* compute_fee_rate's r_min, in basis points
    RMaxBps,        \* compute_fee_rate's r_max, in basis points
    MaxInputs,      \* longest input_ids list
    MaxOutputs,     \* longest outputs list
    MaxCalls        \* calls of mint and transfer in one test

ASSUME ReferenceConstantsAssumption ==
    /\ MintValues \subseteq Nat /\ OutValues \subseteq Nat
    /\ SourceWealths \subseteq Nat
    /\ MaxWealth \in Int
    /\ RMinBps \in 0..10000 /\ RMaxBps \in RMinBps..10000
    /\ MaxInputs \in Nat /\ MaxOutputs \in Nat /\ MaxCalls \in Nat

VARIABLES
    utxos,      \* UTXOSet.utxos, as a set of UTXO records
    nextId,     \* UTXOSet.next_id
    status,     \* what the last call did: "ok", "failed" (returned False) or "raised"
    burned,     \* sum of the fee_paid of the successful transfers
    minted,     \* sum of the values minted so far
    mintedMass, \* sum of value * source_wealth minted so far
    calls       \* calls made so far, to bound the run

vars == <<utxos, nextId, status, burned, minted, mintedMass, calls>>

\* The UTXO dataclass.
UTXO == [id : Nat, value : Nat, sourceWealth : Nat, owner : Owners]

\* sum(u.value for u in U) and sum(u.value * u.source_wealth for u in U).
Value(U) == MapThenSumSet(LAMBDA u : u.value, U)
Mass(U) == MapThenSumSet(LAMBDA u : u.value * u.sourceWealth, U)

\* The sum of a list, by position, so that repeated entries count each time.
ListSum(s) == FoldSeq(+, 0, s)

(***************************************************************************)
(* compute_fee_rate and fee = int(total_output_value * fee_rate): the rate *)
(* is r_min plus (r_max - r_min) times min(1, source_wealth / max_wealth), *)
(* and r_min alone when max_wealth <= 0.  The float product is taken as    *)
(* the exact rational, truncated.                                         *)
(***************************************************************************)
Fee(totalOutput, sw) ==
    IF MaxWealth <= 0
    THEN (totalOutput * RMinBps) \div 10000
    ELSE LET ratioNum == IF sw < MaxWealth THEN sw ELSE MaxWealth
         IN  (totalOutput * (RMinBps * MaxWealth + (RMaxBps - RMinBps) * ratioNum))
                 \div (10000 * MaxWealth)

(***************************************************************************)
(* UTXOSet.mint: a new coin with the next id.                              *)
(***************************************************************************)
Mint(owner, value, sw) ==
    /\ calls < MaxCalls
    /\ utxos' = utxos \cup {[id |-> nextId, value |-> value, sourceWealth |-> sw,
                            owner |-> owner]}
    /\ nextId' = nextId + 1
    /\ minted' = minted + value
    /\ mintedMass' = mintedMass + value * sw
    /\ status' = "ok"
    /\ calls' = calls + 1
    /\ UNCHANGED burned

\* The coin with id uid, for uid in utxo_set.utxos.
Coin(uid) == CHOOSE u \in utxos : u.id = uid

\* The positions of input_ids holding an id met earlier in the list.
Repeats(ids) == {i \in 1..Len(ids) : \E j \in 1..(i - 1) : ids[j] = ids[i]}

\* The ids the spend loop pops before it meets an id it popped already:
\* utxo_set.spend(uid) is self.utxos.pop(uid), which raises KeyError then.
SpentBeforeRepeat(ids) ==
    LET stop == IF Repeats(ids) = {} THEN Len(ids) ELSE Min(Repeats(ids)) - 1
    IN  {ids[i] : i \in 1..stop}

(***************************************************************************)
(* blended_source_wealth: sum(value * source_wealth) // total_input_value  *)
(* over the gathered inputs, a list in which a repeated id counts twice.   *)
(* BlendedUnweighted is a plausible bug averaging the source wealths       *)
(* without the value weights.                                              *)
(***************************************************************************)
BlendedUnweighted(inputs) ==
    ListSum([i \in 1..Len(inputs) |-> inputs[i].sourceWealth]) \div Len(inputs)

Blended(inputs) ==
    ListSum([i \in 1..Len(inputs) |-> inputs[i].value * inputs[i].sourceWealth])
        \div ListSum([i \in 1..Len(inputs) |-> inputs[i].value])

\* The id the i-th output gets from mint.  OutputIdSame is a plausible bug
\* that reads next_id once for all the outputs.
OutputIdSame(i) == nextId

OutputId(i) == nextId + i - 1

(***************************************************************************)
(* The checks that make transfer return False, in the code's order.        *)
(* Covered is the last one; CoveredNoFee is a plausible bug that forgets   *)
(* the fee in it.                                                          *)
(***************************************************************************)
CoveredNoFee(totalIn, totalOut, fee) == totalIn >= totalOut

Covered(totalIn, totalOut, fee) == totalIn >= totalOut + fee

(***************************************************************************)
(* transfer(utxo_set, input_ids, outputs, max_wealth).  The gathering loop *)
(* returns False on an unknown id; the blend divides by the total input    *)
(* value (ZeroDivisionError when it is 0, e.g. no inputs); the coverage    *)
(* check returns False; then the spend loop pops every id in order, and    *)
(* the outputs are minted with the blend.  The input list is gathered with *)
(* repetitions, so a repeated id counts twice in both totals.              *)
(***************************************************************************)
Transfer(ids, outputs) ==
    LET known == ToSet(ids) \subseteq {u.id : u \in utxos}
        inputs == [i \in 1..Len(ids) |-> Coin(ids[i])]
        totalIn == ListSum([i \in 1..Len(ids) |-> inputs[i].value])
        totalOut == ListSum([i \in 1..Len(outputs) |-> outputs[i][2]])
        blended == Blended(inputs)
        fee == Fee(totalOut, blended)
        spent == SpentBeforeRepeat(ids)
        created == {[id |-> OutputId(i), value |-> outputs[i][2],
                     sourceWealth |-> blended, owner |-> outputs[i][1]] :
                        i \in 1..Len(outputs)}
        Refuse(outcome) ==
            /\ status' = outcome
            /\ UNCHANGED <<utxos, nextId, burned>>
    IN  /\ calls < MaxCalls
        /\ calls' = calls + 1
        /\ UNCHANGED <<minted, mintedMass>>
        /\ \/ ~known /\ Refuse("failed")
           \/ known /\ totalIn = 0 /\ Refuse("raised")
           \/ known /\ totalIn > 0 /\ ~Covered(totalIn, totalOut, fee) /\ Refuse("failed")
           \/ /\ known /\ totalIn > 0 /\ Covered(totalIn, totalOut, fee)
              /\ Repeats(ids) # {}
              /\ utxos' = {u \in utxos : u.id \notin spent}
              /\ status' = "raised"
              /\ UNCHANGED <<nextId, burned>>
           \/ /\ known /\ totalIn > 0 /\ Covered(totalIn, totalOut, fee)
              /\ Repeats(ids) = {}
              /\ utxos' = {u \in utxos : u.id \notin spent} \cup created
              /\ nextId' = nextId + Len(outputs)
              /\ burned' = burned + fee
              /\ status' = "ok"

(***************************************************************************)
(* The tests start from an empty UTXOSet() and call mint and transfer.     *)
(***************************************************************************)
Init ==
    /\ utxos = {}
    /\ nextId = 0
    /\ status = "ok"
    /\ burned = 0
    /\ minted = 0
    /\ mintedMass = 0
    /\ calls = 0

Next ==
    \/ \E o \in Owners, v \in MintValues, sw \in SourceWealths : Mint(o, v, sw)
    \/ \E ids \in BoundedSeq(0..nextId, MaxInputs),
          outputs \in BoundedSeq(Owners \X OutValues, MaxOutputs) :
            Transfer(ids, outputs)

Spec == Init /\ [][Next]_vars

-----------------------------------------------------------------------------
(***************************************************************************)
(* Properties.                                                             *)
(***************************************************************************)

TypeOK ==
    /\ utxos \subseteq UTXO
    /\ \A u, v \in utxos : u.id = v.id => u = v
    /\ \A u \in utxos : u.id < nextId
    /\ nextId \in Nat
    /\ status \in {"ok", "failed", "raised"}
    /\ burned \in Nat /\ minted \in Nat /\ mintedMass \in Nat
    /\ calls \in 0..MaxCalls

(***************************************************************************)
(* No value is created: the coins in existence and the fees transfer       *)
(* reported burned never add up to more than was minted.                   *)
(***************************************************************************)
NoValueCreated == Value(utxos) + burned <= minted

(***************************************************************************)
(* The docstring's "source_wealth of outputs = value-weighted average of   *)
(* inputs": blending never raises the total value * source_wealth mass     *)
(* above what the mints put in, so no coin can be made to look wealthier  *)
(* than the coins it came from, whatever inputs and outputs are chosen.    *)
(***************************************************************************)
SourceMassBounded == Mass(utxos) <= mintedMass

(***************************************************************************)
(* A transfer is all or nothing: a call that spends coins also creates its *)
(* outputs, and a call that raises has changed nothing.                    *)
(***************************************************************************)
AtomicTransfer ==
    [][status' = "raised" => utxos' = utxos]_vars
=============================================================================
