\* The three scalar account scripts, each behaviour one of them:
\* gini_10yr_model with the "Prog 0.1%-30%" curve and the burn policy,
\* botho_fee_model with "Botho Default" (1 nanoBTH per byte, cluster factor
\* 1x to 6x, the rate capped at 10%) and cadence_fee_model with "Cadence
\* Default" (5 bps plain, 20 bps hidden).  One merchant and one whale stand
\* for their groups; the other agents of a population are idle in the
\* behaviours checked.
CONSTANTS
    r1 = r1
    r2 = r2
    m1 = m1
    w1 = w1
    Retail <- MCRetail
    Merchants <- MCMerchants
    Whales <- MCWhales
    TxSize <- MCTxSize
    BaseBps <- MCBaseBps
    InitValues = {2, 6}
    MaxAmount = 4
    MaxTransfers = 3
    DecayPct = 5
    Redistribute = FALSE
    RMinBps = 10
    RMaxBps = 3000
    FeePerByte = 1
    FactorMin = 1
    FactorMax = 6
    Scripts = {"10yr", "botho", "cadence"}
SYMMETRY MCSymmetry
SPECIFICATION Spec
INVARIANTS
    TypeOK
    Conservation
    ClusterWealthBelowBalance
\* The simulation ends after its bounded number of rounds.
CHECK_DEADLOCK FALSE
