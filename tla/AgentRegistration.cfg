SPECIFICATION RegFairSpec
CONSTANTS
    Agents = {a1}
    Hashes = {h1, h2}
    Unconfigured = Unconfigured
    Never = Never
    NoCall = NoCall
    MaxU64 = 1
    max_batch_events = 1
    MaxBatches = 0
    MaxRestarts = 2
    MaxCallFaults = 2
INVARIANTS
    ConvergedHasApplied
PROPERTIES
    HeartbeatsCatchUp
    HelloSucceeds
