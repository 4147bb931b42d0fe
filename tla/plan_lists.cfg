SPECIFICATION Spec
CONSTANTS
    MaxSnap = 7
    NFilter = 2
    MinKeep <- KeepTwoOne
    Match <- FourKinds
CHECK_DEADLOCK FALSE
INVARIANTS
    SamePlan
    KeepIsWhatRemains
    CleanupLeavesMinKeep
