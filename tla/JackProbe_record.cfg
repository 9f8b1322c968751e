SPECIFICATION ProbeFairSpec
CONSTANTS
    Channels = 3
    RingCapacity = 6
    ChunkFrames = 2
    BlockSizes = {1, 3}
    MaxFrames = 9
INVARIANTS
    ChannelsInStep
PROPERTIES
    StopYieldsRecording
