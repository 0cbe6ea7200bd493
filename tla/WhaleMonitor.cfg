SPECIFICATION Spec
CONSTANTS
    Orders <- ArrivedOrders
    Prices <- TwoPrices
    Quantities <- OneOrTwo
    Thresholds <- TwoThresholds
    sweep_min_levels = 2
    QueueCapacity = 2
    MaxEvents = 3
    RecentEvents = 2
    MaxCall = 2
    MaxOrders = 4
    MaxResets = 1
INVARIANTS
    TradesFlowOnce
    SweepsOfOneOrder
