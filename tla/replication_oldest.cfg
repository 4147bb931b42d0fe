SPECIFICATION FairSpec
CONSTANTS
    MaxSnap = 5
    NFilter = 2
    MinKeep <- KeepTwoOne
    Match <- TwoIntervals
    NDataset = 1
    MaxRetries = 1
    Resumable = TRUE
    MaxFaults = 2
    Rotation = "oldest"
INVARIANTS
    TypeOK
    KeepInv
PROPERTIES
    ConvergesUnlessStuck
    KeepsCommon
