--------------------------- MODULE AgentTaskProofs ---------------------------
(* Theorems about the task of an agent, for any dispatchers, any number of
   attempts and any number of runs that die or outlive their lease. *)
EXTENDS AgentTask, LeasedJobProofs

RowType ==
    /\ task \in TaskState
    /\ linked \in BOOLEAN
    /\ dispatch \in {"absent", "pending", "dispatched", "cancelled"}
    /\ dpc \in [Dispatchers -> {"idle", "picked", "enqueued"}]
    /\ client \in [at : {"idle", "job", "task", "dispatch"}, fresh : BOOLEAN]

(* What the handler returned without error stands for a task that is recorded
   as succeeded, unless the job is to be cancelled. *)
ReturnInv ==
    /\ \A r \in Runs : /\ pc[r] = "ok" => task = "succeeded" \/ cancelReq[r[1]]
                       /\ pc[r] = "stopping" => cancelReq[r[1]]
                       /\ pc[r] = "succeed" => task = "succeeded"
    /\ JobSuccessIsRecorded

AgentInv == LeasedInv(Steps) /\ RowType /\ ReturnInv

(* A step ends a task once. *)
KeepsEnd == task \in EndedTask => task' = task

LEMMA NoReschedule == "reschedule" \notin Steps
BY DEF Steps

LEMMA AgentStart == Init => AgentInv
<1> SUFFICES ASSUME Init PROVE AgentInv
  OBVIOUS
<1>1. LeasedInv(Steps)
  BY LeasedStart DEF Init
<1>2. RowType
  BY DEF Init, AgentInit, RowType, TaskState
<1>3. \A r \in Runs : pc[r] = "off"
  BY DEF Init, LeasedInit
<1>4. status[TheJob] = "absent"
  BY LeasedAssumption DEF Init, LeasedInit, TheJob, JobIds
<1>5. QED
  BY <1>1, <1>2, <1>3, <1>4 DEF AgentInv, ReturnInv, JobSuccessIsRecorded

(* Dispatchers and clients. *)
LEMMA OthersKeep ==
    ASSUME AgentInv,
           \/ CreateIn \/ ReadForCancel \/ CancelJob \/ CancelTask \/ CancelDispatch \/ CancelFails
           \/ \E d \in Dispatchers : Pick(d) \/ EnqueueJob(d) \/ MarkQueued(d) \/ DispatchFails(d)
    PROVE  AgentInv' /\ KeepsEnd
<1>1. TheJob \in JobIds
  BY LeasedAssumption DEF TheJob, JobIds
<1>2. LeasedInv(Steps)'
  <2>1. UNCHANGED leased \/ Enqueue(TheJob) \/ RequestCancel(TheJob)
    BY DEF CreateIn, ReadForCancel, CancelJob, CancelTask, CancelDispatch, CancelFails,
           Pick, EnqueueJob, MarkQueued, DispatchFails
  <2>2. QED
    BY <1>1, <2>1, EnqueueKeeps, RequestCancelKeeps, StutterKeeps DEF AgentInv
<1>3. KeepsEnd
  BY DEF CreateIn, ReadForCancel, CancelJob, CancelTask, CancelDispatch, CancelFails,
         Pick, EnqueueJob, MarkQueued, DispatchFails, taskVars, Write, KeepsEnd, EndedTask
<1>4. RowType'
  <2>1. CASE CreateIn \/ CancelTask \/ CancelDispatch
    BY <2>1 DEF CreateIn, CancelTask, CancelDispatch, Write, RowType, TaskState, EndedTask, AgentInv
  <2>2. ASSUME NEW d \in Dispatchers, Pick(d) \/ EnqueueJob(d) \/ MarkQueued(d) \/ DispatchFails(d)
        PROVE  RowType'
    BY <2>2 DEF Pick, EnqueueJob, MarkQueued, DispatchFails, taskVars, Write, RowType, TaskState,
                EndedTask, AgentInv
  <2>3. CASE ReadForCancel \/ CancelJob \/ CancelFails
    <3>1. client' \in [at : {"idle", "job", "task", "dispatch"}, fresh : BOOLEAN]
      <4>1. CASE ReadForCancel
        <5>1. PICK at \in {"job", "task"} : client' = [at |-> at, fresh |-> TRUE]
          BY <4>1 DEF ReadForCancel
        <5>2. QED
          BY <5>1
      <4>2. CASE CancelJob \/ CancelFails
        BY <4>2 DEF CancelJob, CancelFails, RowType, AgentInv
      <4>3. QED
        BY <2>3, <4>1, <4>2
    <3>2. UNCHANGED <<taskVars, dpc>>
      BY <2>3 DEF ReadForCancel, CancelJob, CancelFails
    <3>3. QED
      BY <3>1, <3>2 DEF taskVars, RowType, AgentInv
  <2>4. QED
    BY <2>1, <2>2, <2>3
<1>5. /\ pc' = pc
      /\ \A j \in JobIds : cancelReq[j] => cancelReq'[j]
      /\ status'[TheJob] = "succeeded" => status[TheJob] = "succeeded"
  <2>1. UNCHANGED leased \/ Enqueue(TheJob) \/ RequestCancel(TheJob)
    BY DEF CreateIn, ReadForCancel, CancelJob, CancelTask, CancelDispatch, CancelFails,
           Pick, EnqueueJob, MarkQueued, DispatchFails
  <2>2. QED
    BY <1>1, <2>1 DEF Enqueue, RequestCancel, leased, jobs, jobRow, AgentInv, LeasedInv, LeasedType
<1>6. ReturnInv'
  BY <1>3, <1>5, RunIs DEF ReturnInv, JobSuccessIsRecorded, KeepsEnd, EndedTask, AgentInv
<1>7. QED
  BY <1>2, <1>3, <1>4, <1>6 DEF AgentInv

(* A step of the handler that leaves the task alone. *)
LEMMA QuietKeeps ==
    ASSUME AgentInv, NEW r \in Runs, NEW label \in {"off"} \cup Returned \cup Steps,
           Step(r, label), UNCHANGED agentVars,
           label = "ok" => task = "succeeded", label = "stopping" => cancelReq[r[1]]
    PROVE  AgentInv' /\ KeepsEnd
<1>1. LeasedInv(Steps)'
  BY HandlerStepKeeps, NoReschedule DEF Step, AgentInv
<1>2. \A q \in Runs : pc'[q] = IF q = r THEN label ELSE pc[q]
  BY DEF Step, Go, AgentInv, LeasedInv, LeasedType
<1>3. label # "succeed"
  BY DEF Returned, Steps
<1>4. ReturnInv'
  BY <1>2, <1>3 DEF ReturnInv, JobSuccessIsRecorded, Step, jobRow, agentVars, taskVars, AgentInv
<1>5. QED
  BY <1>1, <1>4 DEF AgentInv, RowType, KeepsEnd, agentVars, taskVars

(* A statement that moves the task from a state that is not its end. *)
LEMMA TransitionKeeps ==
    ASSUME AgentInv, NEW r \in Runs, NEW from \in {"queued", "running"}, NEW to \in TaskState,
           NEW done \in {"working", "deferred", "rejected", "ok"}, Transition(r, from, to, done),
           done = "ok" => to = "succeeded" \/ cancelReq[r[1]]
    PROVE  AgentInv' /\ KeepsEnd
<1>1. PICK label \in {done, "rejected"} : Step(r, label) /\ (label = done => done = "rejected" \/ task' = to)
  BY DEF Transition, Write
<1>2. LeasedInv(Steps)'
  BY <1>1, HandlerStepKeeps, NoReschedule DEF Step, AgentInv, Returned, Steps
<1>3. KeepsEnd
  BY DEF Transition, Write, KeepsEnd, EndedTask
<1>4. \A q \in Runs : pc'[q] = IF q = r THEN label ELSE pc[q]
  BY <1>1 DEF Step, Go, AgentInv, LeasedInv, LeasedType
<1>5. UNCHANGED jobRow
  BY <1>1 DEF Step
<1>6. ReturnInv'
  BY <1>1, <1>3, <1>4, <1>5 DEF ReturnInv, JobSuccessIsRecorded, KeepsEnd, EndedTask, AgentInv, jobRow
<1>7. RowType'
  BY DEF Transition, Write, RowType, AgentInv
<1>8. QED
  BY <1>2, <1>3, <1>6, <1>7 DEF AgentInv

LEMMA HandlerKeeps ==
    ASSUME AgentInv, NEW r \in Runs, HandlerStep(r) \/ HandlerFails(r)
    PROVE  AgentInv' /\ KeepsEnd
<1>1. CASE Load(r)
  <2>1. PICK label \in {"ok", "rejected", "marking", "working"} :
           Step(r, label) /\ (label = "ok" => task = "succeeded")
    BY <1>1 DEF Load
  <2>2. UNCHANGED agentVars
    BY <1>1 DEF Load
  <2>3. QED
    BY <2>1, <2>2, QuietKeeps DEF Returned, Steps
<1>2. CASE Work(r) \/ HandlerFails(r)
  <2>1. PICK label \in {"worked", "retryable", "broken", "rejected"} : Step(r, label)
    BY <1>2 DEF Work, HandlerFails
  <2>2. UNCHANGED agentVars
    BY <1>2 DEF Work, HandlerFails
  <2>3. QED
    BY <2>1, <2>2, QuietKeeps DEF Returned, Steps
<1>3. CASE CheckRequest(r)
  <2>1. PICK label \in {"stopping", "saving"} : Step(r, label) /\ (label = "stopping" => cancelReq[r[1]])
    BY <1>3 DEF CheckRequest
  <2>2. UNCHANGED agentVars
    BY <1>3 DEF CheckRequest
  <2>3. QED
    BY <2>1, <2>2, QuietKeeps DEF Steps
<1>4. CASE MarkRunning(r) \/ MarkRetrying(r) \/ MarkFailed(r) \/ MarkSucceeded(r)
  BY <1>4, TransitionKeeps DEF MarkRunning, MarkRetrying, MarkFailed, MarkSucceeded, TaskState, EndedTask
<1>5. CASE MarkRunningCancelled(r)
  <2>1. cancelReq[r[1]]
    BY <1>5 DEF MarkRunningCancelled, AgentInv, ReturnInv
  <2>2. QED
    BY <1>5, <2>1, TransitionKeeps DEF MarkRunningCancelled, TaskState, EndedTask
<1>6. QED
  BY <1>1, <1>2, <1>3, <1>4, <1>5 DEF HandlerStep

LEMMA RuntimeStepKeeps ==
    ASSUME AgentInv, RuntimeStep, UNCHANGED agentVars
    PROVE  AgentInv' /\ KeepsEnd
<1>1. LeasedInv(Steps)'
  BY RuntimeKeeps, NoReschedule DEF AgentInv
<1>2. RowType' /\ KeepsEnd /\ task' = task
  BY DEF RowType, KeepsEnd, agentVars, taskVars, AgentInv
<1>3. ASSUME NEW j \in JobIds, Claim(j) PROVE ReturnInv'
  <2>1. \A q \in Runs : pc'[q] \in {pc[q], "claimed"}
    BY <1>3 DEF Claim, Go, AgentInv, LeasedInv, LeasedType
  <2>2. status'[TheJob] = "succeeded" => status[TheJob] = "succeeded"
    BY <1>3, LeasedAssumption DEF Claim, TheJob, JobIds, AgentInv, LeasedInv, LeasedType
  <2>3. QED
    BY <1>2, <1>3, <2>1, <2>2 DEF Claim, ReturnInv, JobSuccessIsRecorded, AgentInv
<1>4. ASSUME NEW j \in JobIds, Expire(j) PROVE ReturnInv'
  <2>1. status'[TheJob] = "succeeded" => status[TheJob] = "succeeded"
    BY <1>4, LeasedAssumption DEF Expire, Lapse, TheJob, JobIds, AgentInv, LeasedInv, LeasedType
  <2>2. QED
    BY <1>2, <1>4, <2>1 DEF Expire, Lapse, ReturnInv, JobSuccessIsRecorded, AgentInv
<1>5. ASSUME NEW r \in Runs, CheckCancel(r) PROVE ReturnInv'
  <2>1. PICK label \in {"off"} \cup Checked :
           Go(r, label) /\ (label = "succeed" => pc[r] = "ok" /\ ~cancelReq[r[1]])
    BY <1>5 DEF CheckCancel, Checked, Returned
  <2>2. \A q \in Runs : pc'[q] = IF q = r THEN label ELSE pc[q]
    BY <2>1 DEF Go, AgentInv, LeasedInv, LeasedType
  <2>3. status' = status \/ status' = [status EXCEPT ![r[1]] = "cancelled"]
    BY <1>5 DEF CheckCancel
  <2>4. status'[TheJob] = "succeeded" => status[TheJob] = "succeeded"
    BY <2>3, LeasedAssumption DEF TheJob, JobIds, AgentInv, LeasedInv, LeasedType
  <2>5. cancelReq' = cancelReq
    BY <1>5 DEF CheckCancel
  <2>6. label \notin {"ok", "stopping"}
    BY DEF Checked
  <2>7. QED
    BY <1>2, <2>1, <2>2, <2>4, <2>5, <2>6 DEF ReturnInv, JobSuccessIsRecorded, AgentInv
<1>6. ASSUME NEW r \in Runs, Settle(r) PROVE ReturnInv'
  <2>1. \A q \in Runs : pc'[q] = IF q = r THEN "off" ELSE pc[q]
    BY <1>6 DEF Settle, Go, AgentInv, LeasedInv, LeasedType
  <2>2. \/ status' = status
        \/ \E s \in {"succeeded", "queued", "failed"} :
              /\ status' = [status EXCEPT ![r[1]] = s]
              /\ s = "succeeded" => pc[r] = "succeed"
    BY <1>6 DEF Settle, Checked
  <2>3. status'[TheJob] = "succeeded" => status[TheJob] = "succeeded" \/ pc[r] = "succeed"
    BY <2>2, LeasedAssumption DEF TheJob, JobIds, AgentInv, LeasedInv, LeasedType
  <2>4. cancelReq' = cancelReq
    BY <1>6 DEF Settle
  <2>5. QED
    BY <1>2, <2>1, <2>3, <2>4 DEF ReturnInv, JobSuccessIsRecorded, AgentInv
<1>7. ASSUME NEW r \in Runs, Crash(r) PROVE ReturnInv'
  <2>1. \A q \in Runs : pc'[q] = IF q = r THEN "off" ELSE pc[q]
    BY <1>7 DEF Crash, GiveUp, Go, AgentInv, LeasedInv, LeasedType
  <2>2. UNCHANGED jobRow
    BY <1>7 DEF Crash, GiveUp
  <2>3. QED
    BY <1>2, <2>1, <2>2 DEF ReturnInv, JobSuccessIsRecorded, AgentInv, jobRow
<1>8. ReturnInv'
  BY <1>3, <1>4, <1>5, <1>6, <1>7 DEF RuntimeStep, RunnerStep
<1>9. QED
  BY <1>1, <1>2, <1>8 DEF AgentInv

LEMMA AgentStep == AgentInv /\ [AgentNext]_vars => AgentInv' /\ KeepsEnd
<1> SUFFICES ASSUME AgentInv, [AgentNext]_vars PROVE AgentInv' /\ KeepsEnd
  OBVIOUS
<1>1. CASE UNCHANGED vars
  <2>1. LeasedInv(Steps)'
    BY <1>1, StutterKeeps DEF AgentInv, vars
  <2>2. QED
    BY <1>1, <2>1 DEF AgentInv, RowType, ReturnInv, JobSuccessIsRecorded, KeepsEnd,
                      vars, agentVars, taskVars, leased, jobs, jobRow
<1>2. QED
  BY <1>1, OthersKeep, HandlerKeeps, RuntimeStepKeeps DEF AgentNext

LEMMA AgentInvariant == Spec => []AgentInv
BY AgentStart, AgentStep, PTL DEF Spec

(* The rows of the job, the task and its dispatch record stay in their domains;
   the attempts of the job never exceed their limit. *)
THEOREM AgentTypeCorrect == Spec => []AgentType
<1>1. AgentInv => AgentType
  BY DEF AgentInv, LeasedInv, RowType, AgentType
<1>2. QED
  BY <1>1, AgentInvariant, PTL

(* The job is reported as succeeded only when the task is recorded as such. *)
THEOREM AgentSuccessRecorded == Spec => []JobSuccessIsRecorded
<1>1. AgentInv => JobSuccessIsRecorded
  BY DEF AgentInv, ReturnInv
<1>2. QED
  BY <1>1, AgentInvariant, PTL

(* Dispatchers, runs and clients never write a task that has ended. *)
THEOREM AgentEndsOnce == Spec => TaskEndsOnce
<1>1. AgentInv /\ [AgentNext]_vars => [KeepsEnd]_vars
  BY AgentStep
<1>2. [][KeepsEnd]_vars => TaskEndsOnce
  <2>1. [KeepsEnd]_vars => [(task \in EndedTask) => (task' = task)]_vars
    BY DEF KeepsEnd
  <2>2. QED
    BY <2>1, PTL DEF TaskEndsOnce
<1>3. QED
  BY <1>1, <1>2, AgentInvariant, PTL DEF Spec

(* The job of the task moves as JobLifecycle says. *)
THEOREM AgentFollowsLifecycle == Spec => FollowsLifecycle
<1>1. Init => Lifecycle!Init
  BY LifecycleStart DEF Init
<1>2. AgentInv /\ [AgentNext]_vars => [Lifecycle!Next]_(Lifecycle!vars)
  <2> SUFFICES ASSUME AgentInv, [AgentNext]_vars PROVE LifecycleStep
    BY DEF LifecycleStep
  <2>1. TheJob \in JobIds
    BY LeasedAssumption DEF TheJob, JobIds
  <2>2. CASE UNCHANGED vars
    BY <2>2, NoJobStep DEF vars, leased, jobs
  <2>3. ASSUME NEW r \in Runs, HandlerStep(r) \/ HandlerFails(r) PROVE LifecycleStep
    <3>1. UNCHANGED jobRow
      BY <2>3 DEF HandlerStep, HandlerFails, Load, MarkRunning, Work, MarkRetrying, MarkFailed,
                  CheckRequest, MarkRunningCancelled, MarkSucceeded, Transition, Step
    <3>2. QED
      BY <3>1, NoJobStep
  <2>4. CASE \/ CreateIn \/ ReadForCancel \/ CancelJob \/ CancelTask \/ CancelDispatch \/ CancelFails
             \/ \E d \in Dispatchers : Pick(d) \/ EnqueueJob(d) \/ MarkQueued(d) \/ DispatchFails(d)
    <3>1. UNCHANGED jobRow \/ Enqueue(TheJob) \/ RequestCancel(TheJob)
      BY <2>4 DEF CreateIn, ReadForCancel, CancelJob, CancelTask, CancelDispatch, CancelFails,
                  Pick, EnqueueJob, MarkQueued, DispatchFails, leased, jobs
    <3>2. QED
      BY <2>1, <3>1, NoJobStep, EnqueueIsCreate, RequestCancelIsWithdraw DEF AgentInv
  <2>5. CASE RuntimeStep
    BY <2>5, RuntimeFollows DEF AgentInv
  <2>6. QED
    BY <2>2, <2>3, <2>4, <2>5 DEF AgentNext
<1>3. QED
  BY <1>1, <1>2, AgentInvariant, PTL DEF Spec, FollowsLifecycle, Lifecycle!Spec
=============================================================================
