SPECIFICATION FilesFairSpec
CONSTANTS
    Observers = {o1, o2}
    Deployments <- SomeDeployments
    Setups <- SomeSetups
    buffer_size = 1
    batch_size = 2
    BufferFactor = 2
    flush_interval = 1
    INITIAL_BACKOFF = 1
    MAX_BACKOFF = 2
    Retries = 1
    MaxEvents = 4
    MaxFailures = 2
    timestamp <- SomeTimestamps
    category <- SomeCategories
    critical = {2, 3}
    filters = {"network"}
    ShowLast = 2
    CriticalLimit = 2
    TotalLimit = 3
    ReaderEvents = 3
    ReaderFailures = 1
    Cutoffs = {2}
INVARIANTS
    BuffersBounded
    AnswersBracketed
PROPERTIES
    KeepsLedger
    SinksDrain
    WatchShowsOnce
CHECK_DEADLOCK FALSE
