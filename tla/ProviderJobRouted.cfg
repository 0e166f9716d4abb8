SPECIFICATION Spec
CONSTANTS
    MaxAttempts = 3
    OutputCount = 2
    Routed = TRUE
CHECK_DEADLOCK FALSE
INVARIANTS
    TypeOK
    AtMostOneSubmission
    VerdictIsTruthful
    HandoffAgrees
    SuccessMeansTerminal
PROPERTIES
    TerminalIsFinal
    FollowsLifecycle
