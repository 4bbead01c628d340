\* gini_simple_utxo's "Prog 1%-15%" configuration on three agents, values
\* in units of 0.005 coins (so the dust threshold 0.01 is 2 units).
CONSTANTS
    a1 = a1
    a2 = a2
    a3 = a3
    Agents <- MCAgents
    InitValues = {5, 12}
    RMinBps = 100
    RMaxBps = 1500
    DecayPct = 5
    Dust = 2
    MaxAmount = 5
    MaxTransfers = 3
SYMMETRY MCSymmetry
SPECIFICATION Spec
INVARIANTS
    TypeOK
    SupplyLeakBounded
PROPERTIES
    TagMassNonIncreasing
\* The simulation ends after its bounded number of rounds.
CHECK_DEADLOCK FALSE
