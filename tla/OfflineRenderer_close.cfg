SPECIFICATION OfflineSpec
CONSTANTS
    NSlots = 3
    SlotDuration = 2
    SlotCapacity = 1
    IngressCapacity = 2
    HistogramBuckets = 2
    BlockSize = 1
    BlockSizes = {1}
    Drifts = {0}
    InOrder = TRUE
    MaxGrains = 3
    MaxStart = 9
    MaxClock = 100
    Lifetimes = {0, 4}
    Forever = 99
    MaxExtra = 4
INVARIANTS
    CloseRendersEverything
