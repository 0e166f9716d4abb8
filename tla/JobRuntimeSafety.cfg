SPECIFICATION Spec
CONSTANTS
    jobA = jobA  jobB = jobB
    r1 = r1  r2 = r2
    replicaA = replicaA  replicaB = replicaB
    Jobs = {jobA, jobB}
    Workers = {r1, r2}
    Owners = {replicaA, replicaB}
    Cancellable = {jobA, jobB}
    Handled = {jobA}
    Job = jobA
    Lease = 2
    MaxDelay = 1
    NoJob = NoJob
    NoOwner = NoOwner
    MaxAttempts <- MCMaxAttempts
    OwnerOf <- OneOwnerEach
INVARIANTS
    TypeOK
    GuardMeansOwnAttempt
    AttemptsAreDistinct
    AttemptBudget
    VersionTellsStatus
    CancellationWins
PROPERTIES
    ReleasedByClaimantOrExpiry
    ImplementsLifecycle
    ImplementsLeasedJob
