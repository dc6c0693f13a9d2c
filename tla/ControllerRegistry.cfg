SPECIFICATION Spec
CONSTANTS
    Agents = {a1}
    Hashes = {h1, h2}
    Unconfigured = Unconfigured
    Never = Never
    MaxU64 = 5
    max_batch_events = 2
    MaxBatches = 5
    MaxRestarts = 1
INVARIANTS
    LastSeenIsHighest
    GapAccounting
    LossSurfaces
PROPERTY TroubleNotForgotten
