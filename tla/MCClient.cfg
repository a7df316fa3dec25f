SPECIFICATION MCSpec
CONSTANTS
    t1 = t1
    t2 = t2
    t3 = t3
    a = a
    b = b
    Threads <- TwoThreads
    Targets <- TwoTargets
    FastCap = 1
    SlowSegmentCnt = 2
    FullFence = TRUE
    MaxAllocs = 3
    Callers <- ThreeCallers
    MaxGets = 4
    NumRows = 3
    MaxBatch = 2
    Columns <- ThreeColumns
    Listeners <- TwoThreads
    Filters <- OneFilter
    MaxEvents = 3
    Senders <- TwoThreads
    Types = {1, 2}
    Fields = {1}
    MaxUpdates = 2
    MaxObjects = 1
INVARIANTS
    HandlesFindTheirTargets
    LeftoversAreUnsafe
    DeletedWithLast
    MetadataIsKept
    MarshalledIsRead
    CursorTellsTheRows
    ListenersFindTheirQuery
    CacheIsAsked
SYMMETRY Symmetry
CHECK_DEADLOCK FALSE
