SPECIFICATION MCSpec
CONSTANTS
    t1 = t1
    t2 = t2
    w1 = w1
    w2 = w2
    c1 = c1
    c2 = c2
    x = x
    v = v
    e = e
    n1 = n1
    f1 = f1
    NoThread = NoThread
    Threads <- TwoThreads
    MaxOpens = 2
    HostMayRun = TRUE
    NumStages = 3
    NumColumns = 3
    Waiters <- TwoWaiters
    Completers <- TwoCompleters
    Canceller = x
    Values <- OneValue
    Errors <- OneError
    Tasks <- TwoThreads
    RemoteNodes <- OneNode
    Foreign <- OneJob
INVARIANTS
    CreateIsExclusive
    PublishedJvmRuns
    ExitedThreadsAreDetached
    UsedContextIsWhole
    OneOutcome
    CallbacksFindTheirHolder
    FutureTellsTheAnswers
PROPERTIES
    CallsEnd
    FuturesSettle
CHECK_DEADLOCK FALSE
