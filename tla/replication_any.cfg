SPECIFICATION FairSpec
CONSTANTS
    MaxSnap = 4
    NFilter = 1
    MinKeep <- KeepOne
    Match <- OneInterval
    NDataset = 1
    MaxRetries = 2
    Resumable = TRUE
    MaxFaults = 3
    Rotation = "any"
INVARIANTS
    ErrorOrReplicated
    IInv
PROPERTIES
    ConvergesUnlessStuck
    CleanupAfterSync
    ImplementsReplica
