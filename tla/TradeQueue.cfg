SPECIFICATION WakeSpec
CONSTANTS
    p1 = p1
    p2 = p2
    p3 = p3
    c1 = c1
    c2 = c2
    Producers <- ThreeProducers
    Consumers <- TwoConsumers
    Capacity = 2
    MaxBatch = 2
    MaxPushes = 4
INVARIANTS
    TypeOK
    FifoDelivery
    CountersAddUp
    NoLostWakeup
PROPERTIES
    CloseReleasesAll
    PushReturns
