SPECIFICATION FairSpec
CONSTANTS
    MaxSnap = 2
    NFilter = 1
    MinKeep <- KeepOne
    Match <- AllMatch
    NDataset = 3
    Parent <- Chain
    MaxTaken = 4
    Setups <- Prepared
    Resumable = FALSE
    MaxFaults = 1
INVARIANTS
    HInv
    CarriedOrReplicated
    ReportNotices
PROPERTIES
    RefusalExplained
    ConvergesUnlessOrphaned
