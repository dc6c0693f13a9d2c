SPECIFICATION PmcFairSpec
CONSTANTS
    Observers = {storage, node_pmc}
    Configs = {c1, c2, bad}
    Rejected = {bad}
    Unset = Unset
    MaxSwitches = 1
    MaxWriteFailures = 1
    MaxFetchErrors = 1
    Pmc = node_pmc
    c2 = c2
    Enabled <- SomeEnabled
    RingCap = 1
    MaxLost = 1
INVARIANTS
    TypeOK
    NoCarrierForgotten
    IdentityFollowsFanout
    QuietAgreement
    ColdStartEmitsNothing
PROPERTIES
    TomlJudgesOnlyBeforeFirstApply
    ServedConfigTakesHold
    ShutdownCompletes
CHECK_DEADLOCK FALSE
