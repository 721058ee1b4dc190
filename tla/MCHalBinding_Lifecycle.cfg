CONSTANTS
    c1 = c1
    c2 = c2
    a1 = a1
    a2 = a2
    o1 = o1
    o2 = o2
    CbThreads <- MCCbThreads
    AppThreads <- MCAppThreads
    Observers <- MCObservers
    MaxInits = 2
    DynamicLoad = TRUE

SPECIFICATION Spec

SYMMETRY MCSymmetry

PROPERTY ImplementsLifecycle

\* A failed CHECK aborts the process, which then really stops.
CHECK_DEADLOCK FALSE
