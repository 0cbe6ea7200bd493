SPECIFICATION Spec
CONSTANTS
    Inputs <- SmallInputs
    MaxOrderCount = 4
    InitialCapacity = 1
    MaxOrders = 4
    QuantityLimit = 4
    MaxDepth = 2
INVARIANTS
    TypeOK
    BookNotCrossed
    BooksInPriorityOrder
    QuantityConserved
    CountsCompletedOrders
    ViewsAgree
PROPERTY
    ImplementsMarket
