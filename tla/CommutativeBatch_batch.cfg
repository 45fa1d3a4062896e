SPECIFICATION FairSpec
CONSTANTS
    Operator = {"o", "r"}
    Self = "o"
    MinStake = 1
    GenesisStakes <- MCStakes
    StakeChoices = {0}
    MaxRestakes = 1
    MaxHanded = 10
    Supply = 6
    Minted = 3
    Signal = {1, 2, 3}
    Content <- MCContent
    Commutative = {"dex", "loan"}
    Pool = {"p", "q"}
    Thread = {"api", "gossip"}
    Arriving <- MCArriving
    NoSignal = NoSignal
    NttHalf = 3
    MaxLoss = 1
    AccountLoss = {0}
    CycleFees = {9}
    MaxTick = 3
    LastIngest = 1
INVARIANTS
    TypeOK
    RewardsConserved
    SignalCountsOnce
    NothingForgotten
PROPERTIES
    QueuedIsSettled
