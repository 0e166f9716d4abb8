SPECIFICATION Spec
CONSTANTS
    MaxAttempts = 2
    OutputCount = 1
    Routed = TRUE
CHECK_DEADLOCK FALSE
INVARIANTS
    PublicJobEnds
