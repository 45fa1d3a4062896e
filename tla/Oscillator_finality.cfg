SPECIFICATION Spec
CONSTANTS
    Hash = {1, 2, 3}
    Account <- MCAccount
    Domain <- MCDomain
    Shift <- SpendShifts
    Ingester <- OneIngester
    NoShift = NoShift
    Genesis <- SpendGenesis
    GenesisKeys <- TwoKeys
    Policies <- FreePolicies
    MaxDecay = 0
    MaxTick = 5
    LastIngestTick = 3
PROPERTIES
    FinalizedStaysFinal
