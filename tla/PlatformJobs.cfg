SPECIFICATION BoundedSpec
CONSTANTS
    JobCount = 4
    MaxAttempts <- FourJobs
    MaxFaults = 1
    AttemptCount = 2
    TaskCount = 1
    PagesOf <- TwoRanges
    Dispatchers = {d1, d2}
    d1 = d1
    d2 = d2
    Kinds = {"agent", "document", "vision"}
INVARIANT JobSuccessIsRecorded ShownDocumentHasChunks SubmittedAtMostOnce SuccessIsStored ScheduledHasJob
PROPERTY FollowsLifecycle TaskEndsOnce AbandonedIsClosed
CHECK_DEADLOCK FALSE
