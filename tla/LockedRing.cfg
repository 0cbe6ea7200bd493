SPECIFICATION Spec
CONSTANTS
    WordLimit = 4
    Infinity = 1000
    NaN = 1001
    OrderInputs <- EdgeInputs
    Records <- SomeRecords
    Invalid <- BadRecords
    Capacity = 2
    MaxPuts = 4
    MaxKills = 1
CHECK_DEADLOCK FALSE
INVARIANTS
    TypeOK
    FifoOrder
    EngineSeesTheOrders
PROPERTY
    ImplementsChannel
