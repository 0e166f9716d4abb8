SPECIFICATION FairSpec
CONSTANTS
    jobA = jobA  jobB = jobB
    r1 = r1  r2 = r2
    replicaA = replicaA  replicaB = replicaB
    Jobs = {jobA}
    Workers = {r1, r2}
    Owners = {replicaA, replicaB}
    Cancellable = {jobA}
    Handled = {jobA}
    Lease = 1
    MaxDelay = 1
    NoJob = NoJob
    NoOwner = NoOwner
    MaxAttempts <- MCMaxAttempts
    OwnerOf <- OneOwnerEach
PROPERTIES
    JobsEnd
    CancellationTakesEffect
