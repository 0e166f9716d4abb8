------------------------------ MODULE LeasedJob ------------------------------
(***************************************************************************)
(* A platform job as the handler of a domain sees it: what JobLifecycle    *)
(* promises, the cancellation request, and the runs of the handler.  Run   *)
(* <<j, k>> is attempt k of job j.  A run that lost its lease may go on    *)
(* for a while when its successor starts; what it returns then is ignored, *)
(* because JobRuntime fences every statement of a runner with its claim    *)
(* (GuardMeansOwnAttempt).  The modules of the domains extend this one     *)
(* with their rows and with the steps of their handlers.                   *)
(***************************************************************************)
EXTENDS Naturals

CONSTANTS JobCount,      \* jobs a domain may enqueue for its row, in this order
          MaxAttempts,   \* max_attempts of each
          MaxFaults      \* bound: runs that die or outlive their lease, statements that fail

ASSUME LeasedAssumption ==
    /\ JobCount \in Nat \ {0}
    /\ MaxAttempts \in [1..JobCount -> Nat \ {0}]
    /\ MaxFaults \in Nat

VARIABLES status,      \* the status column of platform_jobs
          attempts,    \* its attempt_count
          cancelReq,   \* cancel_requested_at is set
          pc,          \* where each run of the handler is
          faults       \* how many of these there were

jobRow == <<status, attempts, cancelReq>>
jobs   == <<jobRow, pc>>
leased == <<jobs, faults>>

JobIds    == 1..JobCount
Runs      == UNION {{j} \X (1..MaxAttempts[j]) : j \in JobIds}
EndedJob  == {"succeeded", "failed", "cancelled"}
Returned  == {"ok", "deferred", "rejected"}         \* a run whose handler is back
Checked   == {"succeed", "reschedule", "fail"}      \* ... and found no cancellation
Runtime   == {"off", "claimed"} \cup Returned \cup Checked

LeasedType(steps) ==
    /\ status \in [JobIds -> {"absent", "queued", "running"} \cup EndedJob]
    /\ attempts \in [JobIds -> Nat]
    /\ \A j \in JobIds : attempts[j] <= MaxAttempts[j]
    /\ cancelReq \in [JobIds -> BOOLEAN]
    /\ pc \in [Runs -> Runtime \cup steps]
    /\ faults \in 0..MaxFaults

LeasedInit ==
    /\ status = [j \in JobIds |-> "absent"]
    /\ attempts = [j \in JobIds |-> 0]
    /\ cancelReq = [j \in JobIds |-> FALSE]
    /\ pc = [r \in Runs |-> "off"]
    /\ faults = 0

Go(r, label) == pc' = [pc EXCEPT ![r] = label]

(* A step of a handler that touches no job. *)
Step(r, label) == Go(r, label) /\ UNCHANGED <<jobRow, faults>>

Fault == faults < MaxFaults /\ faults' = faults + 1

(* ... one in which a statement fails. *)
Slip(r, label) == Go(r, label) /\ Fault /\ UNCHANGED jobRow

(* A run that still executes the attempt its job is in. *)
Current(r) == status[r[1]] = "running" /\ attempts[r[1]] = r[2]

Active(j) == status[j] \in {"queued", "running"}
-----------------------------------------------------------------------------
(* MySQLStore.Enqueue; under a key that was used before it changes nothing. *)
Enqueue(j) ==
    /\ status' = [status EXCEPT ![j] = IF @ = "absent" THEN "queued" ELSE @]
    /\ UNCHANGED <<attempts, cancelReq, pc, faults>>

(* MySQLStore.RequestCancel: a queued job is cancelled at once, a running one
   when its run is back. *)
RequestCancel(j) ==
    /\ Active(j)
    /\ status' = [status EXCEPT ![j] = IF @ = "queued" THEN "cancelled" ELSE @]
    /\ cancelReq' = [cancelReq EXCEPT ![j] = TRUE]
    /\ UNCHANGED <<attempts, pc, faults>>

Claim(j) ==
    /\ status[j] = "queued" /\ ~cancelReq[j]
    /\ status' = [status EXCEPT ![j] = "running"]
    /\ attempts' = [attempts EXCEPT ![j] = @ + 1]
    /\ Go(<<j, attempts[j] + 1>>, "claimed")
    /\ UNCHANGED <<cancelReq, faults>>

(* Mutation of Expire: the attempts left are not looked at. *)
ExpireRequeues(j) ==
    /\ status[j] = "running"
    /\ status' = [status EXCEPT ![j] = IF cancelReq[j] THEN "cancelled" ELSE "queued"]
    /\ UNCHANGED <<attempts, cancelReq, pc, faults>>

(* ReclaimExpired, for one of its rows. *)
Lapse(j) ==
    /\ status[j] = "running"
    /\ status' = [status EXCEPT ![j] = IF cancelReq[j] THEN "cancelled"
                                       ELSE IF attempts[j] < MaxAttempts[j] THEN "queued"
                                       ELSE "failed"]
    /\ UNCHANGED <<attempts, cancelReq, pc>>

(* The lease of the current attempt has run out, whether its run is dead or only
   slow. *)
Expire(j) ==
    /\ Lapse(j)
    /\ \/ pc[<<j, attempts[j]>>] = "off" /\ UNCHANGED faults
       \/ pc[<<j, attempts[j]>>] # "off" /\ Fault

(* Worker.RunOnce after the handler: the cancellation check with CancelClaim,
   and, as a statement of its own, what the result calls for. *)
CheckCancel(r) ==
    /\ pc[r] \in Returned
    /\ IF cancelReq[r[1]]
         THEN /\ Go(r, "off")
              /\ status' = IF Current(r) THEN [status EXCEPT ![r[1]] = "cancelled"] ELSE status
         ELSE /\ Go(r, CASE pc[r] = "ok" -> "succeed"
                         [] pc[r] = "deferred" /\ r[2] < MaxAttempts[r[1]] -> "reschedule"
                         [] OTHER -> "fail")
              /\ UNCHANGED status
    /\ UNCHANGED <<attempts, cancelReq, faults>>

Settle(r) ==
    /\ pc[r] \in Checked
    /\ Go(r, "off")
    /\ status' = IF ~Current(r) THEN status
                 ELSE [status EXCEPT ![r[1]] = CASE pc[r] = "succeed" -> "succeeded"
                                                 [] pc[r] = "reschedule" -> "queued"
                                                 [] OTHER -> "failed"]
    /\ UNCHANGED <<attempts, cancelReq, faults>>

(* The process stops, or the run is given up because its lease is lost. *)
GiveUp(r)  == pc[r] # "off" /\ Go(r, "off") /\ UNCHANGED jobRow
Crash(r) == GiveUp(r) /\ Fault

RunnerStep(r) == CheckCancel(r) \/ Settle(r)

RuntimeStep ==
    \/ \E j \in JobIds : Claim(j) \/ Expire(j)
    \/ \E r \in Runs : RunnerStep(r) \/ Crash(r)

(* Of a handler the runtime knows only what it returns. *)
Return(r) == pc[r] = "claimed" /\ (\E o \in Returned : Go(r, o)) /\ UNCHANGED jobRow

(* What the runtime promises the domains, with as many faults as there are. *)
LeasedNext ==
    \/ \E j \in JobIds : Enqueue(j) \/ RequestCancel(j) \/ Claim(j) \/ Lapse(j)
    \/ \E r \in Runs : Return(r) \/ RunnerStep(r) \/ GiveUp(r)

LeasedSpec == LeasedInit /\ [][LeasedNext]_jobs

Lifecycle == INSTANCE JobLifecycle
    WITH Jobs <- JobIds

(* What the domains assume of their jobs is what JobLifecycle promises and
   JobRuntime implements: no expiry, cancellation or late run of a handler takes
   a job anywhere else. *)
FollowsLifecycle == Lifecycle!Spec
=============================================================================
