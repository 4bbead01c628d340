\* Three agents (a whale, a merchant and a retail agent when their wealths
\* differ), TAG_SCALE and the prune threshold divided by 1000 (the 0.1%
\* ratio kept), the 5% decay, and four transfers of up to 4.
CONSTANTS
    a1 = a1
    a2 = a2
    a3 = a3
    Agents <- MCAgents
    InitValues = {2, 9}
    Scale = 1000
    PruneUnits = 1
    DecayPct = 5
    MaxAmount = 4
    MaxTransfers = 4
SYMMETRY MCSymmetry
SPECIFICATION Spec
INVARIANTS
    TypeOK
    SumWithinInherited
\* The analysis ends after its transfers.
CHECK_DEADLOCK FALSE
