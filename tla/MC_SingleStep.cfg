\* run_multiple_rounds with progressive_fee_rate, three agents, two rounds,
\* wealths of 200 and 1000 units (payments of 10 and 50, fees up to 30%).
CONSTANTS
    N = 3
    InitValues = {200, 1000}
    FeeFn <- MCProgressive
    Rounds = 2
SPECIFICATION Spec
INVARIANTS
    TypeOK
    Conservation
    WealthStaysPositive
\* The simulation ends after its rounds.
CHECK_DEADLOCK FALSE
