SPECIFICATION Spec
CONSTANTS
    NRun = 2
    MaxFaults = 2
    Absent = Absent
    Dir = Dir
    FullDir = FullDir
    Torn = Torn
CHECK_DEADLOCK FALSE
INVARIANTS
    TypeOK
    ReaderSeesWhole
    NoLeftovers
    SuccessIsPublished
    SpoolIsOfRun
    MInv
PROPERTIES
    StatusStays
