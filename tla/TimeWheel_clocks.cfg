SPECIFICATION MCSpec
CONSTANTS
    NSlots = 2
    SlotDuration = 2
    SlotCapacity = 2
    IngressCapacity = 2
    HistogramBuckets = 1
    BlockSizes = {1, 3}
    Drifts <- Relocating
    InOrder = FALSE
    MaxGrains = 3
    MaxStart = 4
    MaxClock = 4
INVARIANTS
    TypeOK
    WheelPlacement
    NeverEarly
    DrainOrder
    ExactlyOnce
    TooEarlyUnreachable
    StatsBalance
    SteadyDeferredNotDropped
    SteadyOnset
PROPERTIES
    FiringNeverGoesBack
    ImplementsCalendar
    SteadyGrainsResolved
