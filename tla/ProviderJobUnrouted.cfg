SPECIFICATION FairSpec
CONSTANTS
    MaxAttempts = 3
    OutputCount = 1
    Routed = FALSE
CHECK_DEADLOCK FALSE
PROPERTIES
    ExecutionEnds
