SPECIFICATION FairSpec
CONSTANTS
    MaxSnap = 2
    NFilter = 1
    MinKeep <- KeepOne
    Match <- AllMatch
    NDataset = 3
    Parent <- Chain
    MaxTaken = 4
    Setups <- Unprepared
    Resumable = FALSE
    MaxFaults = 0
PROPERTIES
    SelectedArrive
