------------------------- MODULE MC_ClusterTagModel -------------------------
EXTENDS ClusterTagModel, TLC

CONSTANTS r1, r2, m1, w1

MCRetail == {r1, r2}
MCMerchants == {m1}
MCWhales == {w1}

MCSymmetry == Permutations(MCRetail)
=============================================================================
