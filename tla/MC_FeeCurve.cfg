\* The scripts' own curves, scanned over wealths 0..24 with max_wealth 0
\* (the max_wealth <= 0 branches), 10 and 20: with 20 the boundaries at
\* 10% .. 80% of max_wealth fall on whole wealths, so every segment, both
\* boundaries and the region above max_wealth are visited.
CONSTANTS
    Curves <- MCCurves
    MaxWealths = {0, 10, 20}
    WealthBound = 24
SPECIFICATION Spec
PROPERTY FeeMonotone
\* The scan ends at WealthBound.
CHECK_DEADLOCK FALSE
