SPECIFICATION Spec
CONSTANTS
    Prices <- TwoPrices
    Quantities <- One
    Timestamps <- OneTime
    MaxOrders = 3
INVARIANT
    SnapshotIsTopOfBook
