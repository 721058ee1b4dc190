CONSTANTS
    c1 = c1
    c2 = c2
    a1 = a1
    a2 = a2
    o1 = o1
    CbThreads <- MCCbThreads
    AppThreads <- MCAppThreads
    Observers <- MCObservers
    MaxInits = 1
    DynamicLoad = FALSE
    WriterPriority = TRUE
    CleanupJoins = FALSE
    ReentrantObservers = FALSE

SPECIFICATION LockSpec
INVARIANTS LockTypeOK
PROPERTIES LifecycleCallsReturn CallbacksReturn

\* A failed CHECK aborts the process, which then really stops.
CHECK_DEADLOCK FALSE
