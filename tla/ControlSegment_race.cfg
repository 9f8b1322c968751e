SPECIFICATION Spec
CONSTANTS
    s1 = s1
    s2 = s2
    c1 = c1
    Servers <- OneServer
    Clients <- OneClient
    RingCap = 1
    MaxPolls = 3
    MaxSegments = 2
INVARIANTS
    RaceWithCreateIsHarmless
