SPECIFICATION Spec
CONSTANTS
    MaxU64 = 12
    EventLens = {1, 3, 4, 12}
    MaxSplit = 4
    MaxBatch = 3
    RequestLimits = {3, 7, 8, 9, 12}
    EmptyLen = 2
    Buffers <- SomeBuffers
    Limits <- SomeLimits
    Documents <- SomeDocuments
    Instants <- SomeInstants
    Identities <- AllIdentities
    Facts <- SomeFacts
    Types <- SomeTypes
    Absent = Absent
    NotFinite = NotFinite
    TwoTo32 = 2000000000
    TwoTo64 = 2000000000
    NsPerMs = 1000
    Fine = 10
    LastDay = 213503
INVARIANTS
    SplitIsGreedy
    JudgesAsWritten
    CalendarRight
    CutoffExact
    NamesDecide
PROPERTY RepairMovesOn
CHECK_DEADLOCK FALSE
