\* The reference engine with the tests' fee curve (1% to 15%) and
\* max_wealth, everything divided by 1000 or 10000 so that the products of
\* value and source_wealth fit TLC's 32-bit integers: coins of 10 and 30,
\* minted with source wealth 10 or 100 out of a max_wealth of 100, and
\* outputs of 7 or 20, whose fee ranges from 0 to 3.
CONSTANTS
    whale = whale
    poor = poor
    Owners <- MCOwners
    MintValues = {10, 30}
    SourceWealths = {10, 100}
    OutValues = {7, 20}
    MaxWealth = 100
    RMinBps = 100
    RMaxBps = 1500
    MaxInputs = 2
    MaxOutputs = 2
    MaxCalls = 4
SPECIFICATION Spec
INVARIANTS
    TypeOK
    NoValueCreated
    SourceMassBounded
\* A test stops after its last call.
CHECK_DEADLOCK FALSE
