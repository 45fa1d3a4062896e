SPECIFICATION Spec
CONSTANTS
    X = X
    Y = Y
    Operator <- SelfAndPeers
    Self = "s"
    Honest <- OnlyH
    Rogue <- SelfAndRogue
    View <- TwoViews
    MinStake = 2
    Liquid <- MeshLiquid
    HonestStake <- EqualStakes
    RogueStake <- MeshStakes
    MaxNonce = 1
    MaxTick = 1
    PeerTick = 0
    RogueStamp = {0}
    MaxRestarts = 1
    MaxReceipts = 1
    NoCert = NoCert
SYMMETRY ViewSymmetry
INVARIANTS
    TypeOK
    QuorumAgreement
    SlashedOnlyForResigning
    StakeConserved
PROPERTIES
    SlashedAddsNoWeight
