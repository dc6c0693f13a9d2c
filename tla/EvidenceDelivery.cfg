SPECIFICATION DeliveryFairSpec
CONSTANTS
    Agents = {a1}
    Agent = a1
    Hashes = {h1}
    Unconfigured = Unconfigured
    Never = Never
    NoBatch = NoBatch
    MaxU64 = 9
    max_batch_events = 2
    MaxBatches = 8
    MaxRestarts = 1
    QueueCap = 2
    MAX_RETRIES = 1
    MaxEvents = 3
    MaxFlushes = 1
    MaxFaults = 2
INVARIANTS
    NoSilentLoss
    FlushOkDecides
    RegressionMeansRepeat
PROPERTIES
    EveryEventDecided
    DropReturns
