\* The account engine with the constants of gini_account_model.py:
\* TAG_SCALE, TAG_PRUNE_THRESHOLD and the decay rate divided by 10 (TLC
\* integers are 32-bit and weight * decay_rate must fit: the ratios 0.01%
\* and 5% per hop are kept), and the
\* "Prog 0.1%-30%" curve (10 to 3000 bps).
CONSTANTS
    a1 = a1
    a2 = a2
    a3 = a3
    Clusters <- MCClusters
    Scale = 100000
    PruneThreshold = 10
    DecayRate = 5000
    RMinBps = 10
    RMaxBps = 3000
    MaxInitBalance = 4
    MaxAmount = 4
    MaxTransfers = 4
SYMMETRY MCSymmetry
SPECIFICATION Spec
INVARIANTS
    TypeOK
    Conservation
    AttributionBounded
    LedgerBounded
    TagMassBounded
PROPERTIES
    AttributionNeverGrows
\* The simulation ends after its bounded number of rounds.
CHECK_DEADLOCK FALSE
