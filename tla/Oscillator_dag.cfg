SPECIFICATION FairSpec
CONSTANTS
    Hash = {1, 2, 3, 4, 5}
    Account <- MCAccount
    Domain <- MCDomain
    Shift <- DiamondShifts
    Ingester <- TwoIngesters
    NoShift = NoShift
    Genesis <- DiamondGenesis
    GenesisKeys <- TwoKeys
    Policies <- FreePolicies
    MaxDecay = 0
    MaxTick = 5
    LastIngestTick = 1
INVARIANTS
    NonceUsedOnce
    OnePlaceAtATime
    TipIsMaximal
    OrderIsTopological
    LedgerExplained
PROPERTIES
    CaughtDoubleSpendNeverApplied
    QueuedIsDecided
    AcceptedIsSettled
