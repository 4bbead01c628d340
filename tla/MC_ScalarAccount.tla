------------------------- MODULE MC_ScalarAccount ---------------------------
EXTENDS ScalarAccount, TLC

CONSTANTS r1, r2, m1, w1

MCRetail == {r1, r2}
MCMerchants == {m1}
MCWhales == {w1}

\* TX_SIZE of botho_fee_model, and the base rates of "Cadence Default".
MCTxSize == [t \in {"standard-private", "pq-private"} |->
                IF t = "standard-private" THEN 2500 ELSE 65000]
MCBaseBps == [t \in {"plain", "hidden"} |-> IF t = "plain" THEN 5 ELSE 20]

\* Retail agents are interchangeable.
MCSymmetry == Permutations(MCRetail)
=============================================================================
