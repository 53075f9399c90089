CONSTANTS
    h1 = h1
    h2 = h2
    o1 = o1
    o2 = o2
    o3 = o3
    Health = Health
    None = None
    Threads <- MCThreads
    Ops <- MCOps
SPECIFICATION FairSpec
INVARIANTS TypeOK OneThreadPerTask QuietAfterDestruction ThreadsSurvive
PROPERTIES DestructorReturns OperationsComplete
CHECK_DEADLOCK FALSE
