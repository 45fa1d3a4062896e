SPECIFICATION NodeSpec
CONSTANTS
    Hash = {1}
    Account <- MCAccount
    Domain <- MCDomain
    Shift <- MCShifts
    Ingester <- MCIngester
    NoShift = NoShift
    Genesis <- MCGenesis
    GenesisKeys <- MCAccount
    Policies <- MCPolicies
    MaxDecay = 0
    MaxTick = 2
    LastIngestTick = 0
    Supply = 8
    Grant = 2
    Registrations <- NoRegistrations
    Bonus = 2
    Stakes <- NoStakes
    NewDomain = "new"
    NewPolicy <- MCNewPolicy
    Reservation = 2
    MaxSeeds = 1
INVARIANTS
    NodeConservation
