\* The clock is switched at will; the frame counter does not wrap.
SPECIFICATION ServerFairSpec
CONSTANTS
    NSlots = 2
    SlotDuration = 2
    SlotCapacity = 1
    IngressCapacity = 1
    HistogramBuckets = 1
    BlockSizes = {2}
    Drifts = {0}
    InOrder = FALSE
    MaxGrains = 3
    MaxStart = 6
    MaxClock = 4
    FofCap = 1
    KillCap = 1
    KillQueueCapacity = 1
    MaxKills = 2
    MaxRequests = 3
    CliMode = "transport"
    Switches = {"frame_time", "transport"}
    StartSamples = {1, 5}
    Jitters = {0, 1}
    Positions = {3}
    FrameWrap = 1000
    MaxFrame = 4
INVARIANTS
    ChainInOrder
    HeadroomSufficesOnSmoothClock
    KillAfterOnsetCounts
PROPERTIES
    StallEnds
