SPECIFICATION Spec
CONSTANTS
    RingCap = 1
    MAX_DRAIN_PER_TICK = 1
    LOST_EVENTS_CHECK_INTERVAL = 1
    MaxLost = 1
    Keys = {k1}
    NoBaseline = NoBaseline
    Rtts = {0, 1, 6}
    Cfgs <- ThreeCfgs
    U32 = 64
    U8 = 4
    Floor = 3
    MaxCfgChanges = 1
    MaxEvictions = 1
INVARIANTS
    BaselineBetweenSamples
    OccurrencesAreFacts
PROPERTY SpikeIsJustified
CHECK_DEADLOCK FALSE
