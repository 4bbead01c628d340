------------------------- MODULE MC_UtxoTransfer ----------------------------
EXTENDS UtxoTransfer, TLC

CONSTANTS a1, a2, a3

MCAgents == {a1, a2, a3}

MCSymmetry == Permutations(MCAgents)
=============================================================================
