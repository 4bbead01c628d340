--------------------------- MODULE ClusterLedger ----------------------------
(***************************************************************************)
(* The per-cluster wealth ledger, class ClusterWealth of                   *)
(* scripts/gini_account_model.py.  The ledger is a function from cluster   *)
(* id to wealth; get() of an id never written returns 0, so the ledger is  *)
(* modelled as a total function that is 0 where the dict has no key.      *)
(***************************************************************************)
EXTENDS Integers

\* Fault variant: a ledger that lets a delta drive wealth negative.
ClampDropped(x) == x

\* max(0, x): the ledger never stores a negative wealth.
Clamp(x) == IF x > 0 THEN x ELSE 0

\* apply_delta(cluster_id, delta): add a signed delta, clamping at zero.
ApplyDelta(wealth, c, delta) == [wealth EXCEPT ![c] = Clamp(@ + delta)]

\* A loop `for c, w in tags.items(): apply_delta(c, delta(c))`.  Each
\* cluster is touched at most once, and a cluster with no entry has delta
\* 0, for which apply_delta leaves a non-negative wealth as it is.
ApplyDeltas(wealth, delta) ==
    [c \in DOMAIN wealth |-> Clamp(wealth[c] + delta[c])]
=============================================================================
