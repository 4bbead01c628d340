--------------------------- MODULE ProvenanceTags ---------------------------
(***************************************************************************)
(* The provenance tag vector carried by an account or a coin, and the two  *)
(* operations every transfer applies to it (scripts/gini_account_model.py).*)
(*                                                                         *)
(* A vector is a Python dict cluster_id -> weight in fixed point, Scale    *)
(* being 100%.  Every stored weight is at least PruneThreshold, so a dict  *)
(* is modelled as a total function on Clusters in which 0 stands for "no   *)
(* entry": tags.get(c, 0) reads the same value, and an absent entry adds   *)
(* nothing to any sum or product the code computes.  Weight that is in no  *)
(* entry is implicit "background".                                         *)
(***************************************************************************)
EXTENDS Naturals, FiniteSets

CONSTANTS
    Clusters,        \* cluster ids the ledger can hand out
    Scale,           \* TAG_SCALE: the fixed-point value of weight 100%
    PruneThreshold   \* TAG_PRUNE_THRESHOLD: smallest weight an entry keeps

ASSUME ScaleAssumption == Scale \in Nat \ {0}
ASSUME ThresholdAssumption == PruneThreshold \in 1..Scale

\* The cluster ids handed out so far: a dict's keys, a finite set.
ASSUME ClustersFinite == IsFiniteSet(Clusters)

Weight == 0..Scale

\* A tag vector.
TagVector == [Clusters -> Weight]

\* The empty dict {}.
NoTags == [c \in Clusters |-> 0]

\* {cluster_id: TAG_SCALE}: 100% attribution to one cluster.
SelfTags(k) == [c \in Clusters |-> IF c = k THEN Scale ELSE 0]

\* `if new_weight >= TAG_PRUNE_THRESHOLD: result[c] = new_weight`
Prune(w) == IF w >= PruneThreshold THEN w ELSE 0

\* apply_decay: each weight loses weight * decay_rate // TAG_SCALE, and
\* entries that fall below the threshold are dropped.
ApplyDecay(tags, decayRate) ==
    [c \in Clusters |-> Prune(tags[c] - (tags[c] * decayRate) \div Scale)]

\* Fault variants of mix_tags: a merge that keeps the larger of the two
\* weights, and a merge that adds them without re-weighting by value.
MixTagsMax(selfTags, selfValue, incomingTags, incomingValue) ==
    [c \in Clusters |->
        IF selfTags[c] >= incomingTags[c] THEN selfTags[c] ELSE incomingTags[c]]
MixTagsSum(selfTags, selfValue, incomingTags, incomingValue) ==
    [c \in Clusters |-> Prune(selfTags[c] + incomingTags[c])]

\* mix_tags: value-weighted average of the receiver's tags and the
\* incoming tags, rounded down and pruned; {} when both values are 0.
MixTags(selfTags, selfValue, incomingTags, incomingValue) ==
    IF selfValue + incomingValue = 0
    THEN NoTags
    ELSE [c \in Clusters |->
            Prune((selfValue * selfTags[c] + incomingValue * incomingTags[c])
                    \div (selfValue + incomingValue))]
=============================================================================
