SPECIFICATION OfflineFairSpec
CONSTANTS
    NSlots = 3
    SlotDuration = 2
    SlotCapacity = 1
    IngressCapacity = 2
    HistogramBuckets = 2
    BlockSize = 4
    BlockSizes = {4}
    Drifts = {0}
    InOrder = TRUE
    MaxGrains = 3
    MaxStart = 9
    MaxClock = 100
    Lifetimes = {0, 7, 14, 99}
    Forever = 99
    MaxExtra = 3
INVARIANTS
    CloseRendersEverything
    NothingTooLate
PROPERTIES
    CloseEnds
