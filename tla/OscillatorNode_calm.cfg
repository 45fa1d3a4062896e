SPECIFICATION NodeSpec
CONSTANTS
    Hash = {1}
    Account <- MCAccount
    Domain <- MCDomain
    Shift <- MCShifts
    Ingester <- MCIngester
    NoShift = NoShift
    Genesis <- MCGenesis
    GenesisKeys <- MCAccount
    Policies <- MCPolicies
    MaxDecay = 4
    MaxTick = 1
    LastIngestTick = 0
    Supply = 8
    Grant = 2
    Registrations <- MCRegistrations
    Bonus = 2
    Stakes <- MCStakes
    NewDomain = "new"
    NewPolicy <- MCNewPolicy
    Reservation = 2
    MaxSeeds = 1
INVARIANTS
    NodeTypeOK
    CalmConservation
    TrackerMissesOnlyWelcomes
