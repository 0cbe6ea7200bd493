SPECIFICATION FairSpec
CONSTANTS
    QueueCapacity = 2
    BatchSize = 2
    ShutdownAttempts = 2
    AutoCloseRepo = TRUE
    JoinMayTimeOut = FALSE
    MaxTrades = 6
    MaxStarts = 3
CHECK_DEADLOCK FALSE
INVARIANTS
    TypeOK
    NothingLostSilently
    LedgerKeepsOrder
    StopSettlesEverything
PROPERTIES
    StopEnds
    EverythingSettles
