SPECIFICATION FairSpec
CONSTANTS
    MaxAttempts = 3
    OutputCount = 1
    Routed = TRUE
CHECK_DEADLOCK FALSE
PROPERTIES
    IngestedIsRetained
