\* Three grains, one id besides 0, one kill; a careful and a careless client.
SPECIFICATION FairSpec
CONSTANTS
    U32Max = 31
    Lanes = 2
    PanMode <- FirstOrder
    FarGrains = {2}
    NoId = NoId
    Ids = {a}
    Keys = {0, 1, 2}
    Starts = {3}
    Decays = {4}
    SlotDuration = 2
    Horizon = 2
    Fade = 2
    BlockSizes = {3}
    KillCapacity = 2
    MaxClock = 4
    Worlds <- AnyWorld
    MaxGrains = 3
    MaxKills = 1
INVARIANTS
    TypeOK
    KillsLand
    StartsWithinBlock
    IdMapSound
    HeardOnItsChannels
PROPERTIES
    PoolDrains
