SPECIFICATION FairSpec
CONSTANTS
    Account <- MCAccount
    PoolWave = "pw"
    PoolUsdc = "pu"
    WaveOf <- MCWave
    UsdcOf <- MCUsdc
    Domain = {"dex", "vault", "dear", "none"}
    Dex = "dex"
    Policy <- MCPolicy
    Request <- MCRequest
    Submitted <- MCRequests
    Genesis <- MCGenesis
    Registered = {"pw", "pu", "w1", "u1", "u2"}
    Thread = {"t", "u"}
    RecentCap = 1
    MaxTick = 3
    LastRequest = 1
    MaxSends = 3
    Retried = {1}
    Reused = {1}
INVARIANTS
    TypeOK
    PaidOutOnce
    PayoutHasItsShift
    KnownAfterTwoTicks
PROPERTIES
    SwapCompletes
