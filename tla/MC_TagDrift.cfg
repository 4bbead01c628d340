\* Three agents; wealths of 0 (astype(int) of a small Pareto share), 5 and
\* 9; tags 0 and 9; the amounts 50..10000 and the floor 100 scaled to
\* 2..3 and 4, so that senders hold several coins of different sizes and
\* the greedy selection spends one, two or all of them.
CONSTANTS
    a1 = a1
    a2 = a2
    a3 = a3
    Agents <- MCAgents
    InitValues = {0, 5, 9}
    InitTags = {0, 9}
    MinAmount = 2
    AmountCap = 3
    WealthFloor = 4
    MaxTransfers = 4
SYMMETRY MCSymmetry
SPECIFICATION Spec
INVARIANTS
    TypeOK
    Conservation
PROPERTY
    TagRangeNeverWidens
\* run_simulation ends after its rounds.
CHECK_DEADLOCK FALSE
