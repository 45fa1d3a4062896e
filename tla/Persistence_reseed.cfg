SPECIFICATION Spec
CONSTANTS
    Hash = {1}
    Account <- MCAccount
    Shift <- MCShifts
    Genesis <- NoBalances
    MaxDecay = 0
    Tx = {"a", "b", "c", "d"}
    Transaction <- MCTransactions
    Address = {1, 2, 101}
    NoAddress = 99
    ContractAddress = 101
    Coinbase = 100
    Operator = 9
    Pool <- MCPool
    GenesisStake = 3
    PoolSeed = 5
    ShiftFee <- MCFees
    NoSnapshot = NoSnapshot
    MaxCycles = 3
    MaxSaves = 1
    MaxCrashes = 1
INVARIANTS
    GenesisSeededOnce
