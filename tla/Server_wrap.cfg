\* The clock stays on frame_time, whose counter wraps after 12 samples.
SPECIFICATION ServerSpec
CONSTANTS
    NSlots = 2
    SlotDuration = 2
    SlotCapacity = 1
    IngressCapacity = 1
    HistogramBuckets = 2
    BlockSizes = {2}
    Drifts = {0}
    InOrder = TRUE
    MaxGrains = 2
    MaxStart = 6
    MaxClock = 100
    FofCap = 1
    KillCap = 1
    KillQueueCapacity = 1
    MaxKills = 0
    MaxRequests = 2
    CliMode = "frame_time"
    Switches = {}
    StartSamples = {1, 6}
    Jitters = {0}
    Positions = {}
    FrameWrap = 12
    MaxFrame = 0
INVARIANTS
    HeadroomSuffices
