SPECIFICATION Spec
CONSTANTS
    RingCap = 1
    MAX_DRAIN_PER_TICK = 1
    LOST_EVENTS_CHECK_INTERVAL = 2
    MaxLost = 1
    Pids = {p1}
    Cgroups = {c1, c2}
    c1 = c1
    c2 = c2
    Exits <- ThreeExits
    Profile <- GrowingList
    MaxCodes = 4
    LimitOf <- TwoLimits
    InitLimit = 9
    CacheCap = 0
    EvictCount = 1
INVARIANT JudgedByPreviousOrNext
CHECK_DEADLOCK FALSE
