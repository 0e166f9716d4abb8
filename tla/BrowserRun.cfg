SPECIFICATION Spec
CONSTANTS
    RunCount = 2
    ObjectCount = 2
    ConfirmCount = 2
    Workers = {w1, w2}
    w1 = w1
    w2 = w2
    Controlled = {1}
    MaxFaults = 1
SYMMETRY AnyWorker
INVARIANT BrowserType ObjectCreatedOnce EachCreationConfirmed OneSubmitAtATime TransitionsAllowed SuccessIsWritten
PROPERTY ReleasedWhenClean
CHECK_DEADLOCK FALSE
