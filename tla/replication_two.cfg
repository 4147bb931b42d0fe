SPECIFICATION Spec
CONSTANTS
    MaxSnap = 3
    NFilter = 2
    MinKeep <- KeepOneEach
    Match <- TwoIntervals
    NDataset = 2
    MaxRetries = 1
    Resumable = FALSE
    MaxFaults = 1
    Rotation = "oldest"
INVARIANTS
    PlannedDeletesExist
    RetainInv
    ReportIsRight
    ErrorOrReplicated
PROPERTIES
    RetainsMinKeep
