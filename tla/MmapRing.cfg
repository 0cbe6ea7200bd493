SPECIFICATION FairSpec
CONSTANTS
    Capacity = 2
    Uses <- BothUses
    MaxBatch = 2
    MaxWrites = 6
    MaxAttaches = 2
CHECK_DEADLOCK FALSE
INVARIANTS
    TypeOK
    IntactRecords
    NothingSkipped
PROPERTY
    WriterGetsRoom
