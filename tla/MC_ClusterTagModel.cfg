\* gini_cluster_model's "Prog 0.1%-30%" curve with two retail agents, a
\* merchant and a whale; weights in thousandths, so the prune threshold
\* 0.001 is one unit; three transfers across two rounds.
CONSTANTS
    r1 = r1
    r2 = r2
    m1 = m1
    w1 = w1
    Retail <- MCRetail
    Merchants <- MCMerchants
    Whales <- MCWhales
    InitValues = {3, 8}
    Scale = 1000
    PruneUnits = 1
    DecayPct = 5
    RMinBps = 10
    RMaxBps = 3000
    MaxAmount = 3
    MaxTransfers = 3
    MaxRounds = 2
SYMMETRY MCSymmetry
SPECIFICATION Spec
INVARIANTS
    TypeOK
    Conservation
    TagsSumAtMostOne
    CacheNeverUnderstates
PROPERTIES
    ClusterWealthNeverGrowsInRound
\* The simulation ends after its rounds.
CHECK_DEADLOCK FALSE
