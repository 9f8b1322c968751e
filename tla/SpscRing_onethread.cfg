SPECIFICATION FairSpec
CONSTANTS
    client = client
    otherThread = otherThread
    Producers <- OneThread
    Cap = 3
    Wrap = 6
    MaxItems = 8
INVARIANTS
    TypeOK
    NoSlotRace
    NothingLost
PROPERTIES
    ImplementsFifo
    RetrySucceeds
