SPECIFICATION Spec
CONSTANTS
    jobA = jobA  jobB = jobB
    r1 = r1  r2 = r2
    replicaA = replicaA  replicaB = replicaB
    Jobs = {jobA, jobB}
    Workers = {r1, r2}
    Owners = {replicaA, replicaB}
    Cancellable = {jobA}
    Handled = {jobA, jobB}
    Lease = 1
    MaxDelay = 1
    NoJob = NoJob
    NoOwner = NoOwner
    MaxAttempts <- MCMaxAttempts
    OwnerOf <- SharedOwner
INVARIANTS
    AttemptBudget
