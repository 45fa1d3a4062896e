SPECIFICATION FairSpec
CONSTANTS
    Conn <- MCConn
    Stranger <- MCStranger
    MaxMsg = 3
    Psk = TRUE
    StreamCap = 3
    MaxSkip = 1
    MaxBreaks = 1
INVARIANTS
    TypeOK
    OnlyAuthenticatedCallers
    FifoPerConnection
PROPERTIES
    Redialled
    WrittenIsDelivered
    QueuedIsWritten
CHECK_DEADLOCK FALSE
