SPECIFICATION Spec
CONSTANTS
    MaxSnap = 5
    NFilter = 2
    MinKeep <- KeepOneEach
    Match <- TwoIntervals
    NDataset = 1
    MaxRetries = 2
    Resumable = TRUE
    MaxFaults = 3
    Rotation = "none"
PROPERTIES
    CleanupAfterSync
