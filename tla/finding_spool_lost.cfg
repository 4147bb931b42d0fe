SPECIFICATION Spec
CONSTANTS
    NRun = 2
    MaxFaults = 1
    Absent = Absent
    Dir = Dir
    FullDir = FullDir
    Torn = Torn
CHECK_DEADLOCK FALSE
INVARIANTS
    OutputSpooled
