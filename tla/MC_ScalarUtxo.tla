--------------------------- MODULE MC_ScalarUtxo ----------------------------
EXTENDS ScalarUtxo, TLC

CONSTANTS a1, a2, a3

MCAgents == {a1, a2, a3}

MCSymmetry == Permutations(MCAgents)
=============================================================================
