SPECIFICATION FairSpec
CONSTANTS
    s1 = s1
    s2 = s2
    c1 = c1
    Servers <- TwoServers
    Clients <- OneClient
    RingCap = 1
    MaxPolls = 3
    MaxSegments = 3
INVARIANTS
    TypeOK
    AttachedIsInitialised
    OneServerPerSegment
PROPERTIES
    AttachReturns
    RequestsAreTaken
