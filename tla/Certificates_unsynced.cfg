SPECIFICATION Spec
CONSTANTS
    X = X
    Y = Y
    Operator <- SelfAndPeer
    Self = "s"
    Honest <- OnlyH
    Rogue <- NoOperator
    View <- TwoViews
    MinStake = 2
    Liquid <- ShortLiquid
    HonestStake <- EqualStakes
    RogueStake <- MeshStakes
    MaxNonce = 0
    MaxTick = 1
    PeerTick = 1
    RogueStamp = {0}
    MaxRestarts = 0
    MaxReceipts = 1
    NoCert = NoCert
INVARIANTS
    AnnouncedIsLearned
