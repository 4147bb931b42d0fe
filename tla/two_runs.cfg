SPECIFICATION Spec
CONSTANTS
    MaxSnap = 3
    NFilter = 1
    MinKeep <- KeepTwo
    Match <- OneInterval
    NDataset = 1
    MaxRetries = 0
    Resumable = FALSE
    MaxFaults = 1
    Rotation = "oldest"
    MaxOld = 1
VIEW EitherWay
INVARIANTS
    TypeOK
    NotBehind
PROPERTIES
    TogetherImplementReplica
    TogetherKeepCommon
    TogetherRetainMinKeep
