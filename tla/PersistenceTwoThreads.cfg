SPECIFICATION Spec
CONSTANTS
    QueueCapacity = 2
    BatchSize = 2
    ShutdownAttempts = 2
    AutoCloseRepo = TRUE
    JoinMayTimeOut = TRUE
    MaxTrades = 4
    MaxStarts = 2
CHECK_DEADLOCK FALSE
INVARIANTS
    NothingLostSilently
