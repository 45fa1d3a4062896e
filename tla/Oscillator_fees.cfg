SPECIFICATION Spec
CONSTANTS
    Hash = {1, 2, 3, 4}
    Account <- MCAccount
    Domain <- MCDomain
    Shift <- PaidShifts
    Ingester <- OneIngester
    NoShift = NoShift
    Genesis <- PaidGenesis
    GenesisKeys <- OneKey
    Policies <- PaidPolicies
    MaxDecay = 1
    MaxTick = 3
    LastIngestTick = 1
INVARIANTS
    TypeOK
    Conservation
PROPERTIES
    ImplementsSettlement
