SPECIFICATION FairSpec
CONSTANTS
    Slots = 2
    NumOrders = 5
    Wanted = 5
    WriterWaits = TRUE
    WriterMayDie = TRUE
    MaxCrashes = 2
CHECK_DEADLOCK FALSE
INVARIANTS
    TypeOK
    EachOrderOnce
PROPERTIES
    ImplementsChannel
    ConsumerEnds
