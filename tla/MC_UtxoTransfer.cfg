\* The UTXO engine with the constants of gini_utxo_model.py: TAG_SCALE,
\* TAG_PRUNE_THRESHOLD and the decay rate divided by 10 (TLC integers are
\* 32-bit; the ratios 0.1% and 5% per hop are kept), the "Prog 1%-30%"
\* curve (100 to 3000 bps), and a value unit of 0.005 coins, so that the
\* dust threshold 0.01 is 2 units.
CONSTANTS
    a1 = a1
    a2 = a2
    a3 = a3
    Clusters <- MCAgents
    Scale = 100000
    PruneThreshold = 100
    DecayRate = 5000
    RMinBps = 100
    RMaxBps = 3000
    Dust = 2
    InitValues = {6, 10, 14}
    MaxAmount = 8
    MaxTransfers = 3
SYMMETRY MCSymmetry
SPECIFICATION Spec
INVARIANTS
    TypeOK
    SupplyLeakBounded
    AttributionBounded
PROPERTIES
    TransferPaysAmountAndFee
\* The simulation ends after its bounded number of rounds.
CHECK_DEADLOCK FALSE
