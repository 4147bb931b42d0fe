SPECIFICATION SilentSpec
CONSTANTS
    Chunks = 6
    Capacity = 2
CHECK_DEADLOCK FALSE
PROPERTIES
    ReceiverFailureDetected
