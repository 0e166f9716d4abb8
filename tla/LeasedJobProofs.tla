--------------------------- MODULE LeasedJobProofs ---------------------------
(* Lemmas about the jobs of LeasedJob, for any number of jobs and attempts and
   whatever the steps of the handlers are; the proofs about the domains rest on
   them. *)
EXTENDS LeasedJob, TLAPS

(* A job that waits has an attempt left, and so has one that a run is about to
   put off. *)
BudgetInv ==
    /\ \A j \in JobIds : /\ status[j] \in {"absent", "queued"} => attempts[j] < MaxAttempts[j]
                         /\ status[j] = "running" => attempts[j] > 0
    /\ \A r \in Runs : pc[r] = "reschedule" => r[2] < MaxAttempts[r[1]]

LeasedInv(steps) == LeasedType(steps) /\ BudgetInv

LEMMA RunIs == ASSUME NEW r \in Runs
               PROVE  /\ r[1] \in JobIds /\ r[2] \in 1..MaxAttempts[r[1]]
                      /\ r = <<r[1], r[2]>>
BY DEF Runs

LEMMA RunOf == ASSUME NEW j \in JobIds, NEW k \in 1..MaxAttempts[j] PROVE <<j, k>> \in Runs
BY DEF Runs

LEMMA LeasedStart ==
    ASSUME NEW steps PROVE LeasedInit => LeasedInv(steps)
<1> SUFFICES ASSUME LeasedInit PROVE LeasedInv(steps)
  OBVIOUS
<1>1. \A j \in JobIds : 0 < MaxAttempts[j] /\ 0 <= MaxAttempts[j]
  BY LeasedAssumption DEF JobIds
<1>2. 0 \in 0..MaxFaults
  BY LeasedAssumption
<1>3. pc \in [Runs -> Runtime \cup steps] /\ \A r \in Runs : pc[r] = "off"
  BY DEF LeasedInit, Runtime
<1>4. LeasedType(steps)
  BY <1>1, <1>2, <1>3 DEF LeasedInit, LeasedType
<1>5. BudgetInv
  BY <1>1, <1>3 DEF LeasedInit, BudgetInv
<1>6. QED
  BY <1>4, <1>5 DEF LeasedInv

(* A step of a handler moves its run and nothing else. *)
LEMMA HandlerStepKeeps ==
    ASSUME NEW steps, LeasedInv(steps), "reschedule" \notin steps,
           NEW r \in Runs, NEW label \in {"off"} \cup Returned \cup steps,
           Go(r, label), UNCHANGED jobRow, UNCHANGED faults \/ Fault
    PROVE  LeasedInv(steps)'
<1>1. faults' \in 0..MaxFaults
  BY LeasedAssumption DEF LeasedInv, LeasedType, Fault
<1>2. pc' \in [Runs -> Runtime \cup steps]
  BY DEF Go, LeasedInv, LeasedType, Runtime
<1>3. LeasedType(steps)'
  BY <1>1, <1>2 DEF LeasedInv, LeasedType, jobRow
<1>4. label # "reschedule"
  BY DEF Returned
<1>5. \A q \in Runs : pc'[q] = "reschedule" => pc[q] = "reschedule"
  BY <1>4 DEF Go, LeasedInv, LeasedType
<1>6. BudgetInv'
  BY <1>5 DEF BudgetInv, jobRow, LeasedInv
<1>7. QED
  BY <1>3, <1>6 DEF LeasedInv

LEMMA EnqueueKeeps ==
    ASSUME NEW steps, LeasedInv(steps), NEW j \in JobIds, Enqueue(j)
    PROVE  LeasedInv(steps)'
BY DEF LeasedInv, LeasedType, BudgetInv, Enqueue, EndedJob

LEMMA RequestCancelKeeps ==
    ASSUME NEW steps, LeasedInv(steps), NEW j \in JobIds, RequestCancel(j)
    PROVE  LeasedInv(steps)'
BY DEF LeasedInv, LeasedType, BudgetInv, RequestCancel, Active, EndedJob

LEMMA ClaimKeeps ==
    ASSUME NEW steps, LeasedInv(steps), NEW j \in JobIds, Claim(j)
    PROVE  LeasedInv(steps)'
<1>1. /\ attempts[j] + 1 \in 1..MaxAttempts[j] /\ attempts[j] \in Nat
      /\ MaxAttempts[j] \in Nat
  BY LeasedAssumption DEF LeasedInv, LeasedType, BudgetInv, Claim, JobIds
<1>2. <<j, attempts[j] + 1>> \in Runs
  BY <1>1, RunOf
<1>3. pc' \in [Runs -> Runtime \cup steps]
  BY <1>2 DEF Claim, Go, LeasedInv, LeasedType, Runtime
<1>4. /\ status' = [status EXCEPT ![j] = "running"]
      /\ attempts' = [attempts EXCEPT ![j] = @ + 1]
      /\ UNCHANGED <<cancelReq, faults>>
  BY DEF Claim
<1>5. LeasedType(steps)'
  BY <1>1, <1>3, <1>4 DEF LeasedInv, LeasedType
<1>6. \A q \in Runs : pc'[q] = "reschedule" => pc[q] = "reschedule"
  BY <1>2 DEF Claim, Go, LeasedInv, LeasedType
<1>7. BudgetInv'
  BY <1>1, <1>4, <1>6 DEF LeasedInv, LeasedType, BudgetInv
<1>8. QED
  BY <1>5, <1>7 DEF LeasedInv

LEMMA ExpireKeeps ==
    ASSUME NEW steps, LeasedInv(steps), NEW j \in JobIds, Expire(j)
    PROVE  LeasedInv(steps)'
<1>1. faults' \in 0..MaxFaults
  BY LeasedAssumption DEF LeasedInv, LeasedType, Expire, Lapse, Fault
<1>2. /\ UNCHANGED <<attempts, cancelReq, pc>>
      /\ \E s \in {"queued", "cancelled", "failed"} :
            /\ status' = [status EXCEPT ![j] = s]
            /\ s = "queued" => attempts[j] < MaxAttempts[j]
  BY DEF Expire, Lapse
<1>3. QED
  BY <1>1, <1>2 DEF LeasedInv, LeasedType, BudgetInv, EndedJob

LEMMA RunnerKeeps ==
    ASSUME NEW steps, LeasedInv(steps), "reschedule" \notin steps, NEW r \in Runs, RunnerStep(r)
    PROVE  LeasedInv(steps)'
<1>1. r[1] \in JobIds /\ r[2] \in 1..MaxAttempts[r[1]]
  BY RunIs
<1>2. CASE CheckCancel(r)
  <2>1. \E label \in {"off"} \cup Checked : Go(r, label) /\ (label = "reschedule" => r[2] < MaxAttempts[r[1]])
    BY <1>2 DEF CheckCancel, Checked
  <2>2. /\ pc' \in [Runs -> Runtime \cup steps]
        /\ \A q \in Runs : pc'[q] = "reschedule" => pc[q] = "reschedule" \/ q[2] < MaxAttempts[q[1]]
    BY <2>1 DEF Go, LeasedInv, LeasedType, Runtime
  <2>3. status' = status \/ status' = [status EXCEPT ![r[1]] = "cancelled"]
    BY <1>2 DEF CheckCancel
  <2>4. UNCHANGED <<attempts, cancelReq, faults>>
    BY <1>2 DEF CheckCancel
  <2>5. QED
    BY <1>1, <2>2, <2>3, <2>4 DEF LeasedInv, LeasedType, BudgetInv, EndedJob
<1>3. CASE Settle(r)
  <2>1. /\ pc' \in [Runs -> Runtime \cup steps]
        /\ \A q \in Runs : pc'[q] = "reschedule" => pc[q] = "reschedule"
    BY <1>3 DEF Settle, Go, LeasedInv, LeasedType, Runtime
  <2>2. \/ status' = status
        \/ \E s \in {"succeeded", "queued", "failed"} :
              /\ status' = [status EXCEPT ![r[1]] = s]
              /\ s = "queued" => pc[r] = "reschedule" /\ attempts[r[1]] = r[2]
    BY <1>3 DEF Settle, Current, Checked
  <2>3. UNCHANGED <<attempts, cancelReq, faults>>
    BY <1>3 DEF Settle
  <2>4. QED
    BY <1>1, <2>1, <2>2, <2>3 DEF LeasedInv, LeasedType, BudgetInv, EndedJob
<1>4. QED
  BY <1>2, <1>3 DEF RunnerStep

LEMMA RuntimeKeeps ==
    ASSUME NEW steps, LeasedInv(steps), "reschedule" \notin steps, RuntimeStep
    PROVE  LeasedInv(steps)'
<1>1. ASSUME NEW r \in Runs, Crash(r) PROVE LeasedInv(steps)'
  BY <1>1, HandlerStepKeeps DEF Crash, GiveUp
<1>2. QED
  BY <1>1, ClaimKeeps, ExpireKeeps, RunnerKeeps DEF RuntimeStep

LEMMA StutterKeeps ==
    ASSUME NEW steps, LeasedInv(steps), UNCHANGED leased PROVE LeasedInv(steps)'
BY DEF LeasedInv, LeasedType, BudgetInv, leased, jobs, jobRow
-----------------------------------------------------------------------------
(* Every step of a job is one of JobLifecycle. *)

LifecycleStep == Lifecycle!Next \/ UNCHANGED Lifecycle!vars

LEMMA LifecycleStart == LeasedInit => Lifecycle!Init
BY DEF LeasedInit, Lifecycle!Init

LEMMA EnqueueIsCreate ==
    ASSUME NEW steps, LeasedInv(steps), NEW j \in JobIds, Enqueue(j) PROVE LifecycleStep
<1>1. CASE status[j] = "absent"
  <2>1. Lifecycle!Create({j})
    BY <1>1 DEF Enqueue, Lifecycle!Create, Lifecycle!Move, LeasedInv, LeasedType
  <2>2. QED
    BY <2>1 DEF LifecycleStep, Lifecycle!Next
<1>2. CASE status[j] # "absent"
  BY <1>2 DEF Enqueue, LifecycleStep, Lifecycle!vars, LeasedInv, LeasedType
<1>3. QED
  BY <1>1, <1>2

LEMMA RequestCancelIsWithdraw ==
    ASSUME NEW steps, LeasedInv(steps), NEW j \in JobIds, RequestCancel(j) PROVE LifecycleStep
<1>1. CASE status[j] = "queued"
  <2>1. Lifecycle!Withdraw({j})
    BY <1>1 DEF RequestCancel, Lifecycle!Withdraw, Lifecycle!Move, LeasedInv, LeasedType
  <2>2. QED
    BY <2>1 DEF LifecycleStep, Lifecycle!Next
<1>2. CASE status[j] # "queued"
  BY <1>2 DEF RequestCancel, LifecycleStep, Lifecycle!vars, LeasedInv, LeasedType
<1>3. QED
  BY <1>1, <1>2

LEMMA RunningEnds ==
    ASSUME NEW steps, LeasedInv(steps), NEW j \in JobIds, status[j] = "running",
           NEW s \in {"queued"} \cup EndedJob, s = "queued" => attempts[j] < MaxAttempts[j],
           status' = [status EXCEPT ![j] = s], UNCHANGED attempts
    PROVE  LifecycleStep
<1>1. Lifecycle!Move({j}, "running", s)
  BY DEF Lifecycle!Move, LeasedInv, LeasedType
<1>2. CASE s = "queued"
  BY <1>1, <1>2 DEF LifecycleStep, Lifecycle!Next, Lifecycle!Requeue
<1>3. CASE s # "queued"
  BY <1>1, <1>3 DEF LifecycleStep, Lifecycle!Next, Lifecycle!End, Lifecycle!Ended, EndedJob
<1>4. QED
  BY <1>2, <1>3

LEMMA RuntimeFollows ==
    ASSUME NEW steps, LeasedInv(steps), RuntimeStep PROVE LifecycleStep
<1>1. ASSUME NEW j \in JobIds, Claim(j) PROVE LifecycleStep
  <2>1. Lifecycle!Start(j)
    BY <1>1 DEF Claim, Lifecycle!Start, Lifecycle!Move, LeasedInv, LeasedType, BudgetInv
  <2>2. QED
    BY <2>1 DEF LifecycleStep, Lifecycle!Next
<1>2. ASSUME NEW j \in JobIds, Expire(j) PROVE LifecycleStep
  <2>1. PICK s \in {"queued", "cancelled", "failed"} :
           /\ status' = [status EXCEPT ![j] = s]
           /\ s = "queued" => attempts[j] < MaxAttempts[j]
    BY <1>2 DEF Expire, Lapse
  <2>2. status[j] = "running" /\ UNCHANGED attempts
    BY <1>2 DEF Expire, Lapse
  <2>3. QED
    BY <2>1, <2>2, RunningEnds DEF EndedJob
<1>3. ASSUME NEW r \in Runs, CheckCancel(r) PROVE LifecycleStep
  <2>1. r[1] \in JobIds
    BY RunIs
  <2>2. CASE Current(r) /\ status' = [status EXCEPT ![r[1]] = "cancelled"]
    BY <1>3, <2>1, <2>2, RunningEnds DEF CheckCancel, Current, EndedJob
  <2>3. CASE UNCHANGED status
    BY <1>3, <2>3 DEF CheckCancel, LifecycleStep, Lifecycle!vars
  <2>4. QED
    BY <1>3, <2>2, <2>3 DEF CheckCancel
<1>4. ASSUME NEW r \in Runs, Settle(r) PROVE LifecycleStep
  <2>1. r[1] \in JobIds
    BY RunIs
  <2>2. CASE Current(r)
    <3>1. PICK s \in {"succeeded", "queued", "failed"} :
             /\ status' = [status EXCEPT ![r[1]] = s]
             /\ s = "queued" => pc[r] = "reschedule"
      BY <1>4, <2>2 DEF Settle, Checked
    <3>2. s = "queued" => attempts[r[1]] < MaxAttempts[r[1]]
      BY <2>2, <3>1 DEF Current, LeasedInv, BudgetInv
    <3>3. QED
      BY <1>4, <2>1, <2>2, <3>1, <3>2, RunningEnds DEF Settle, Current, EndedJob
  <2>3. CASE ~Current(r)
    BY <1>4, <2>3 DEF Settle, LifecycleStep, Lifecycle!vars
  <2>4. QED
    BY <2>2, <2>3
<1>5. ASSUME NEW r \in Runs, Crash(r) PROVE LifecycleStep
  BY <1>5 DEF Crash, GiveUp, LifecycleStep, Lifecycle!vars, jobRow
<1>6. QED
  BY <1>1, <1>2, <1>3, <1>4, <1>5 DEF RuntimeStep, RunnerStep

LEMMA NoJobStep == UNCHANGED jobRow => LifecycleStep
BY DEF LifecycleStep, Lifecycle!vars, jobRow
=============================================================================
