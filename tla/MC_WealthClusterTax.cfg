\* run_comparison's progressive fee, 1% to 30%, on three agents with
\* values scaled down: a wealth above 2 may send 1 to min(wealth // 2, 4).
CONSTANTS
    a1 = a1
    a2 = a2
    a3 = a3
    Agents <- MCAgents
    InitValues = {4, 9}
    RMinBps = 100
    RMaxBps = 3000
    DecayPct = 5
    SendThreshold = 2
    MinAmount = 1
    AmountCap = 4
    MaxTransfers = 3
SYMMETRY MCSymmetry
SPECIFICATION Spec
INVARIANTS
    TypeOK
    Conservation
    ClusterWealthBounded
\* The simulation ends after its bounded number of rounds.
CHECK_DEADLOCK FALSE
