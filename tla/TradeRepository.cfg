SPECIFICATION Spec
CONSTANTS
    a = a
    b = b
    huge = huge
    nan = nan
    Nobody = Nobody
    Repositories = {r1, r2}
    Trades <- AllTrades
    Batches <- SmallBatches
    Overflowing = {huge}
    Incomplete = {nan}
    max_retries = 2
    MaxSaves = 3
    MaxPage = 2
INVARIANTS
    TypeOK
    ReportsAreTrue
    PagesAreStable
PROPERTIES
    ImplementsLedger
    SavesReturn
