SPECIFICATION Spec
CONSTANTS
    Prices <- TwoPrices
    Quantities <- ZeroToTwo
    Timestamps <- TwoTimes
    MaxOrders = 4
INVARIANT
    ReportsBalance
PROPERTY
    ImplementsMarket
