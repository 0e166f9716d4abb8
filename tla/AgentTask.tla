----------------------------- MODULE AgentTask -----------------------------
(***************************************************************************)
(* One task of internal/platform/agent: its row and dispatch record, the   *)
(* dispatchers that enqueue a platform job for it, the handler runs of     *)
(* that job, and a client that cancels it through the HTTP API of Strategy.*)
(* What the handler of the domain does is the outcome of Work.             *)
(***************************************************************************)
EXTENDS LeasedJob

CONSTANT Dispatchers   \* dispatcher loops, one per process

VARIABLES task,       \* the status column of platform_agent_tasks
          linked,     \* its job_id is set
          dispatch,   \* status of the row of platform_agent_dispatches
          dpc,        \* where each dispatcher is
          client      \* where cancelAgentTask is, and whether the version it read holds

taskVars  == <<task, linked, dispatch>>
agentVars == <<taskVars, dpc, client>>
vars      == <<leased, agentVars>>

TheJob    == 1
EndedTask == {"succeeded", "failed", "cancelled"}
TaskState == {"absent", "dispatch_pending", "queued", "running"} \cup EndedTask
Steps     == {"marking", "working", "worked", "retryable", "broken", "stopping", "saving"}

AgentType ==
    /\ LeasedType(Steps)
    /\ task \in TaskState
    /\ linked \in BOOLEAN
    /\ dispatch \in {"absent", "pending", "dispatched", "cancelled"}
    /\ dpc \in [Dispatchers -> {"idle", "picked", "enqueued"}]
    /\ client \in [at : {"idle", "job", "task", "dispatch"}, fresh : BOOLEAN]

AgentInit ==
    /\ task = "absent" /\ linked = FALSE /\ dispatch = "absent"
    /\ dpc = [d \in Dispatchers |-> "idle"]
    /\ client = [at |-> "idle", fresh |-> FALSE]

(* Every write of the task bumps its version. *)
Write(s) == task' = s /\ client' = [client EXCEPT !.fresh = FALSE]
-----------------------------------------------------------------------------
(* MySQLStore.CreateIn, in the transaction of the domain. *)
CreateIn ==
    /\ task = "absent"
    /\ Write("dispatch_pending")
    /\ dispatch' = "pending"
    /\ UNCHANGED <<leased, linked, dpc>>

(* Dispatcher.RunOnce: the query, the enqueue and the transaction, with nothing
   that keeps two dispatchers from the same record. *)
Pick(d) ==
    /\ dpc[d] = "idle" /\ dispatch = "pending" /\ task = "dispatch_pending"
    /\ dpc' = [dpc EXCEPT ![d] = "picked"]
    /\ UNCHANGED <<leased, taskVars, client>>

EnqueueJob(d) ==
    /\ dpc[d] = "picked"
    /\ Enqueue(TheJob)
    /\ dpc' = [dpc EXCEPT ![d] = "enqueued"]
    /\ UNCHANGED <<taskVars, client>>

(* Mutation of MarkQueued: WHERE status = 'dispatch_pending' is missing. *)
MarkQueuedAnyway(d) ==
    /\ dpc[d] = "enqueued"
    /\ dpc' = [dpc EXCEPT ![d] = "idle"]
    /\ Write("queued") /\ linked' = TRUE
    /\ dispatch' = "dispatched"
    /\ UNCHANGED leased

(* A task that is no longer waiting is a version conflict. *)
MarkQueued(d) ==
    /\ dpc[d] = "enqueued"
    /\ dpc' = [dpc EXCEPT ![d] = "idle"]
    /\ IF task = "dispatch_pending"
         THEN /\ Write("queued") /\ linked' = TRUE
              /\ dispatch' = IF dispatch = "pending" THEN "dispatched" ELSE dispatch
         ELSE UNCHANGED <<taskVars, client>>
    /\ UNCHANGED leased

(* A statement fails (recordFailure puts the record off) or the process stops. *)
DispatchFails(d) ==
    /\ dpc[d] # "idle"
    /\ dpc' = [dpc EXCEPT ![d] = "idle"]
    /\ UNCHANGED <<leased, taskVars, client>>
-----------------------------------------------------------------------------
(* cancelAgentTask of the Strategy API: four statements. *)

ReadForCancel ==
    /\ client.at = "idle" /\ task # "absent"
    /\ client' = [at |-> IF linked THEN "job" ELSE "task", fresh |-> TRUE]
    /\ UNCHANGED <<leased, taskVars, dpc>>

(* The job first, if the task had one; one that cannot be cancelled is no error. *)
CancelJob ==
    /\ client.at = "job"
    /\ client' = [client EXCEPT !.at = "task"]
    /\ IF Active(TheJob) THEN RequestCancel(TheJob) ELSE UNCHANGED leased
    /\ UNCHANGED <<taskVars, dpc>>

(* MySQLStore.RequestCancel with the version that was read. *)
CancelTask ==
    /\ client.at = "task"
    /\ IF client.fresh /\ task \in {"dispatch_pending", "queued"}
         THEN /\ task' = "cancelled"
              /\ client' = [client EXCEPT !.at = "dispatch", !.fresh = FALSE]
         ELSE client' = [client EXCEPT !.at = "idle"] /\ UNCHANGED task
    /\ UNCHANGED <<leased, linked, dispatch, dpc>>

CancelDispatch ==
    /\ client.at = "dispatch"
    /\ client' = [client EXCEPT !.at = "idle"]
    /\ dispatch' = IF dispatch = "pending" THEN "cancelled" ELSE dispatch
    /\ UNCHANGED <<leased, task, linked, dpc>>

(* A version conflict of the job, a failing statement, or the process stops. *)
CancelFails ==
    /\ client.at # "idle"
    /\ client' = [client EXCEPT !.at = "idle"]
    /\ UNCHANGED <<leased, taskVars, dpc>>
-----------------------------------------------------------------------------
(* RuntimeHandler. *)

(* A query or a progress report fails: the error is final for the job. *)
HandlerFails(r) ==
    /\ pc[r] \in {"claimed", "working", "worked", "saving"}
    /\ Step(r, "rejected")
    /\ UNCHANGED agentVars

Load(r) ==
    /\ pc[r] = "claimed"
    /\ Step(r, CASE task = "succeeded" -> "ok"
                 [] task = "cancelled" -> "rejected"
                 [] task = "queued" -> "marking"
                 [] OTHER -> "working")
    /\ UNCHANGED agentVars

(* Mutation of Transition: WHERE status = ? is missing. *)
TransitionAnyway(r, from, to, done) ==
    /\ Write(to) /\ Step(r, done)
    /\ UNCHANGED <<linked, dispatch, dpc>>

(* MySQLStore.transition: an answer that is lost, a statement that fails and a
   task in another state are all errors, which end the job. *)
Transition(r, from, to, done) ==
    /\ \/ /\ task = from
          /\ Write(to)
          /\ \E label \in {done, "rejected"} : Step(r, label)
       \/ Step(r, "rejected") /\ UNCHANGED <<task, client>>
    /\ UNCHANGED <<linked, dispatch, dpc>>

MarkRunning(r) == pc[r] = "marking" /\ Transition(r, "queued", "running", "working")

(* The handler of the domain returns. *)
Work(r) ==
    /\ pc[r] = "working"
    /\ \E result \in {"worked", "retryable", "broken"} : Step(r, result)
    /\ UNCHANGED agentVars

MarkRetrying(r) ==
    /\ pc[r] = "retryable" /\ r[2] < MaxAttempts[r[1]]
    /\ Transition(r, "running", "queued", "deferred")

(* The job fails with the error of the domain, whatever becomes of the write. *)
MarkFailed(r) ==
    /\ pc[r] = "broken" \/ (pc[r] = "retryable" /\ r[2] = MaxAttempts[r[1]])
    /\ Transition(r, "running", "failed", "rejected")

(* IsCancelRequested *)
CheckRequest(r) ==
    /\ pc[r] = "worked"
    /\ Step(r, IF cancelReq[r[1]] THEN "stopping" ELSE "saving")
    /\ UNCHANGED agentVars

MarkRunningCancelled(r) == pc[r] = "stopping" /\ Transition(r, "running", "cancelled", "ok")

(* Mutation of MarkSucceeded: a conflict is taken for the work of a former run. *)
SucceedAnyway(r) ==
    /\ pc[r] = "saving"
    /\ IF task = "running" THEN Write("succeeded") ELSE UNCHANGED <<task, client>>
    /\ Step(r, "ok")
    /\ UNCHANGED <<linked, dispatch, dpc>>

MarkSucceeded(r) == pc[r] = "saving" /\ Transition(r, "running", "succeeded", "ok")
-----------------------------------------------------------------------------
HandlerStep(r) ==
    \/ Load(r) \/ MarkRunning(r) \/ Work(r) \/ MarkRetrying(r) \/ MarkFailed(r)
    \/ CheckRequest(r) \/ MarkRunningCancelled(r) \/ MarkSucceeded(r)

AgentNext ==
    \/ CreateIn
    \/ \E d \in Dispatchers : Pick(d) \/ EnqueueJob(d) \/ MarkQueued(d) \/ DispatchFails(d)
    \/ ReadForCancel \/ CancelJob \/ CancelTask \/ CancelDispatch \/ CancelFails
    \/ \E r \in Runs : HandlerStep(r) \/ HandlerFails(r)
    \/ RuntimeStep /\ UNCHANGED agentVars

Init == LeasedInit /\ AgentInit

Spec == Init /\ [][AgentNext]_vars
-----------------------------------------------------------------------------
(* Properties. *)

(* RuntimeHandler reports success of the job only after the task is recorded as
   succeeded: a job that succeeded never belongs to a task that was cancelled,
   failed or put back, whichever of its runs, dispatchers and cancellations
   came in between. *)
JobSuccessIsRecorded == status[TheJob] = "succeeded" => task = "succeeded"

(* Two runs, two dispatchers and a client write the task; it ends once. *)
TaskEndsOnce == [][(task \in EndedTask) => (task' = task)]_vars
=============================================================================
