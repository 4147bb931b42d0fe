SPECIFICATION FairSpec
CONSTANTS
    Chunks = 6
    Capacity = 2
CHECK_DEADLOCK FALSE
INVARIANTS
    TypeOK
    PInv
    OkMeansReceived
    NothingRunsOn
PROPERTIES
    Returns
    ImplementsAttempt
