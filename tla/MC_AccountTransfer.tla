------------------------ MODULE MC_AccountTransfer --------------------------
EXTENDS AccountTransfer, TLC

CONSTANTS a1, a2, a3

MCClusters == {a1, a2, a3}

MCSymmetry == Permutations(MCClusters)
=============================================================================
