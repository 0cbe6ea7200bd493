SPECIFICATION Spec
CONSTANTS
    QueueCapacity = 2
    BatchSize = 2
    ShutdownAttempts = 2
    AutoCloseRepo = TRUE
    JoinMayTimeOut = TRUE
    MaxTrades = 3
    MaxStarts = 1
CHECK_DEADLOCK FALSE
INVARIANTS
    ExitAccountsForAll
