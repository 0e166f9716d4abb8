----------------------------- MODULE JobRuntime -----------------------------
(***************************************************************************)
(* The durable job runtime of internal/platform/jobruntime: rows of        *)
(* platform_jobs written by single SQL statements, and the runners that    *)
(* claim, execute and finish them, renew their leases, and recover the     *)
(* rows of runners that died.  Each action is one statement, or one step   *)
(* of a runner between two statements; a runner may stop at any step.      *)
(*                                                                         *)
(* Abstractions.  Time is relative: leaseAge[j] is now - locked_at, capped *)
(* at Lease, and delay[j] is available_at - now, never negative.  The      *)
(* version column is modelled by what a client can tell from it: seen[j]   *)
(* is the status the client read with the version it still holds, and is   *)
(* "none" from the moment a statement bumps the version.  Payload, result, *)
(* error and progress columns are left out.                                *)
(***************************************************************************)
EXTENDS Naturals

CONSTANTS Jobs,         \* jobs, one per (organization_id, idempotency_key)
          MaxAttempts,  \* MaxAttempts[j] is the max_attempts column
          Cancellable,  \* the jobs whose cancellable column is TRUE
          Handled,      \* the jobs whose kind has a handler in Worker.Handlers
          Workers,      \* runner loops, over all processes
          Owners,       \* the values of RecoveryRunner.WorkerID
          OwnerOf,      \* OwnerOf[w]: the WorkerID of runner w
          Lease,        \* LeaseDuration, in ticks
          MaxDelay,     \* the longest deferral a handler asks for, in ticks
          NoJob, NoOwner

ASSUME JobAssumption ==
    /\ MaxAttempts \in [Jobs -> Nat \ {0}]
    /\ Cancellable \subseteq Jobs
    /\ Handled \subseteq Jobs
    /\ NoJob \notin Jobs
ASSUME WorkerAssumption ==
    /\ OwnerOf \in [Workers -> Owners]
    /\ NoOwner \notin Owners
ASSUME TimeAssumption == Lease \in Nat \ {0} /\ MaxDelay \in Nat \ {0}

VARIABLES
    \* platform_jobs
    status,       \* status; "absent" before the insert
    attempts,     \* attempt_count
    owner,        \* lock_owner
    leaseAge,     \* now - locked_at, at most Lease
    delay,        \* available_at - now, at least 0
    cancelReq,    \* cancel_requested_at IS NOT NULL
    seen,         \* what a client read with the version it still holds
    \* runners
    pc,           \* where the runner is in RunOnce
    held,         \* the job of its Claim
    heldAttempt,  \* Claim.Job.AttemptCount
    outcome,      \* what runHandler returned
    \* history
    raced         \* a cancellation was accepted after its claimant's check

row    == <<status, attempts, owner, leaseAge, delay, cancelReq, seen>>
runner == <<pc, held, heldAttempt, outcome>>
vars   == <<row, runner, raced>>

Ended    == {"succeeded", "failed", "cancelled"}
Status   == {"absent", "queued", "running"} \cup Ended
Outcomes == {"none", "ok", "deferred", "badDeferral", "failed", "leaseLost"}
PCs      == {"idle", "expireCancelled", "expireExhausted", "expireRest",
             "claiming", "handling", "checking", "finishing", "cancelling"}

(* A runner that is past Claim and has not returned from Worker.RunOnce. *)
Active(w) == pc[w] \in {"handling", "checking", "finishing", "cancelling"}

TypeOK ==
    /\ status \in [Jobs -> Status]
    /\ attempts \in [Jobs -> Nat]
    /\ owner \in [Jobs -> Owners \cup {NoOwner}]
    /\ leaseAge \in [Jobs -> 0..Lease]
    /\ delay \in [Jobs -> 0..MaxDelay]
    /\ cancelReq \in [Jobs -> BOOLEAN]
    /\ seen \in [Jobs -> Status \cup {"none"}]
    /\ pc \in [Workers -> PCs]
    /\ held \in [Workers -> Jobs \cup {NoJob}]
    /\ heldAttempt \in [Workers -> Nat]
    /\ outcome \in [Workers -> Outcomes]
    /\ raced \in [Jobs -> BOOLEAN]
    /\ \A w \in Workers : Active(w) => held[w] \in Jobs

Init ==
    /\ status = [j \in Jobs |-> "absent"]
    /\ attempts = [j \in Jobs |-> 0]
    /\ owner = [j \in Jobs |-> NoOwner]
    /\ leaseAge = [j \in Jobs |-> 0]
    /\ delay = [j \in Jobs |-> 0]
    /\ cancelReq = [j \in Jobs |-> FALSE]
    /\ seen = [j \in Jobs |-> "none"]
    /\ pc = [w \in Workers |-> "idle"]
    /\ held = [w \in Workers |-> NoJob]
    /\ heldAttempt = [w \in Workers |-> 0]
    /\ outcome = [w \in Workers |-> "none"]
    /\ raced = [j \in Jobs |-> FALSE]
-----------------------------------------------------------------------------
(* Pieces of the statements. *)

(* SET version = version + 1: the client's version no longer matches. *)
BumpVersion(J) == seen' = [j \in Jobs |-> IF j \in J THEN "none" ELSE seen[j]]

(* Mutation of Owns: the guard forgets lock_owner. *)
OwnsIfRunning(w) == status[held[w]] = "running"

(* WHERE id = ? AND status = 'running' AND lock_owner = ? *)
Owns(w) == status[held[w]] = "running" /\ owner[held[w]] = OwnerOf[w]

(* Mutation of Release: the statement forgets version = version + 1. *)
ReleaseKeepingVersion(J, s, wait) ==
    /\ status' = [j \in Jobs |-> IF j \in J THEN s ELSE status[j]]
    /\ owner' = [j \in Jobs |-> IF j \in J THEN NoOwner ELSE owner[j]]
    /\ leaseAge' = [j \in Jobs |-> IF j \in J THEN 0 ELSE leaseAge[j]]
    /\ delay' = [j \in Jobs |-> IF j \in J THEN wait ELSE delay[j]]
    /\ UNCHANGED <<attempts, cancelReq, seen>>

(* SET status = ?, lock_owner = NULL, locked_at = NULL, version = version + 1,
   and available_at when the row goes back to the queue. *)
Release(J, s, wait) ==
    /\ status' = [j \in Jobs |-> IF j \in J THEN s ELSE status[j]]
    /\ owner' = [j \in Jobs |-> IF j \in J THEN NoOwner ELSE owner[j]]
    /\ leaseAge' = [j \in Jobs |-> IF j \in J THEN 0 ELSE leaseAge[j]]
    /\ delay' = [j \in Jobs |-> IF j \in J THEN wait ELSE delay[j]]
    /\ BumpVersion(J)
    /\ UNCHANGED <<attempts, cancelReq>>

GoIdle(w) ==
    /\ pc' = [pc EXCEPT ![w] = "idle"]
    /\ held' = [held EXCEPT ![w] = NoJob]
    /\ heldAttempt' = [heldAttempt EXCEPT ![w] = 0]
    /\ outcome' = [outcome EXCEPT ![w] = "none"]

GoTo(w, label) == pc' = [pc EXCEPT ![w] = label] /\ UNCHANGED <<held, heldAttempt, outcome>>

(* Mutation of WriteClaim: the statement has no guard. *)
WriteUnguarded(w, s, wait) ==
    Release({held[w]}, s, wait) /\ GoIdle(w) /\ UNCHANGED raced

(* A guarded write of runner w to the row it claimed; a row that the guard
   excludes is left alone and the error only ends the call. *)
WriteClaim(w, s, wait) ==
    /\ \/ Owns(w) /\ Release({held[w]}, s, wait)
       \/ ~Owns(w) /\ UNCHANGED row
    /\ GoIdle(w)
    /\ UNCHANGED raced
-----------------------------------------------------------------------------
(* Callers. *)

(* MySQLStore.Enqueue: a repeated key returns the existing job, or
   ErrIdempotencyConflict, and writes nothing. *)
Enqueue(j) ==
    /\ status[j] = "absent"
    /\ status' = [status EXCEPT ![j] = "queued"]
    /\ UNCHANGED <<attempts, owner, leaseAge, delay, cancelReq, seen, runner, raced>>

(* MySQLStore.Get: the client learns the status and its version. *)
Get(j) ==
    /\ status[j] # "absent"
    /\ seen' = [seen EXCEPT ![j] = status[j]]
    /\ UNCHANGED <<status, attempts, owner, leaseAge, delay, cancelReq, runner, raced>>

(* The runner that holds the current claim of j is past its cancellation check. *)
PastCheck(j) == \E w \in Workers : pc[w] = "finishing" /\ held[w] = j /\ Owns(w)

(* MySQLStore.RequestCancel with the version of an earlier Get. *)
RequestCancel(j) ==
    /\ j \in Cancellable
    /\ status[j] \in {"queued", "running"}
    /\ seen[j] # "none"
    /\ status' = [status EXCEPT ![j] = IF @ = "queued" THEN "cancelled" ELSE @]
    /\ cancelReq' = [cancelReq EXCEPT ![j] = TRUE]
    /\ BumpVersion({j})
    /\ raced' = [raced EXCEPT ![j] = @ \/ PastCheck(j)]
    /\ UNCHANGED <<attempts, owner, leaseAge, delay, runner>>
-----------------------------------------------------------------------------
(* RecoveryRunner.RunOnce: a due recovery runs before the next claim. *)

StartRecovery(w) ==
    /\ pc[w] = "idle"
    /\ GoTo(w, "expireCancelled")
    /\ UNCHANGED <<row, raced>>

(* Mutation of Expired: recovery takes every running row. *)
RunningNow == {j \in Jobs : status[j] = "running"}

(* WHERE status = 'running' AND locked_at <= now - lease *)
Expired == {j \in Jobs : status[j] = "running" /\ leaseAge[j] = Lease}

(* Mutations of ReclaimCancelled and ReclaimAbandoned: the statement is missing. *)
SkipCancelled(w) ==
    pc[w] = "expireCancelled" /\ GoTo(w, "expireExhausted") /\ UNCHANGED <<row, raced>>
SkipAbandoned(w) ==
    pc[w] = "expireRest" /\ GoTo(w, "claiming") /\ UNCHANGED <<row, raced>>

(* MySQLStore.ReclaimExpired: three statements, each over every expired row. *)
ReclaimCancelled(w) ==
    /\ pc[w] = "expireCancelled"
    /\ Release({j \in Expired : cancelReq[j]}, "cancelled", 0)
    /\ GoTo(w, "expireExhausted")
    /\ UNCHANGED raced

ReclaimExhausted(w) ==
    /\ pc[w] = "expireExhausted"
    /\ Release({j \in Expired : ~cancelReq[j] /\ attempts[j] >= MaxAttempts[j]}, "failed", 0)
    /\ GoTo(w, "expireRest")
    /\ UNCHANGED raced

ReclaimAbandoned(w) ==
    /\ pc[w] = "expireRest"
    /\ Release({j \in Expired : ~cancelReq[j] /\ attempts[j] < MaxAttempts[j]}, "queued", 0)
    /\ GoTo(w, "claiming")
    /\ UNCHANGED raced
-----------------------------------------------------------------------------
(* Worker.RunOnce. *)

Claimable(j) == status[j] = "queued" /\ ~cancelReq[j] /\ delay[j] = 0

(* Mutation of Claim: attempt_count is not incremented. *)
ClaimUncounted(w, j) ==
    /\ pc[w] \in {"idle", "claiming"}
    /\ Claimable(j)
    /\ status' = [status EXCEPT ![j] = "running"]
    /\ owner' = [owner EXCEPT ![j] = OwnerOf[w]]
    /\ leaseAge' = [leaseAge EXCEPT ![j] = 0]
    /\ BumpVersion({j})
    /\ pc' = [pc EXCEPT ![w] = "handling"]
    /\ held' = [held EXCEPT ![w] = j]
    /\ heldAttempt' = [heldAttempt EXCEPT ![w] = attempts[j]]
    /\ UNCHANGED <<attempts, delay, cancelReq, outcome, raced>>

(* MySQLStore.Claim, in whatever order available_at gives.  A job without a
   handler goes straight to Fail, past the cancellation check. *)
Claim(w, j) ==
    /\ pc[w] \in {"idle", "claiming"}
    /\ Claimable(j)
    /\ status' = [status EXCEPT ![j] = "running"]
    /\ attempts' = [attempts EXCEPT ![j] = @ + 1]
    /\ owner' = [owner EXCEPT ![j] = OwnerOf[w]]
    /\ leaseAge' = [leaseAge EXCEPT ![j] = 0]
    /\ BumpVersion({j})
    /\ held' = [held EXCEPT ![w] = j]
    /\ heldAttempt' = [heldAttempt EXCEPT ![w] = attempts[j] + 1]
    /\ IF j \in Handled
         THEN pc' = [pc EXCEPT ![w] = "handling"] /\ UNCHANGED outcome
         ELSE pc' = [pc EXCEPT ![w] = "finishing"] /\ outcome' = [outcome EXCEPT ![w] = "failed"]
    /\ UNCHANGED <<delay, cancelReq, raced>>

ClaimNothing(w) ==
    /\ pc[w] = "claiming"
    /\ \A j \in Jobs : ~Claimable(j)
    /\ GoTo(w, "idle")
    /\ UNCHANGED <<row, raced>>

HandlerReturnsWith(w, o) ==
    /\ pc' = [pc EXCEPT ![w] = "checking"]
    /\ outcome' = [outcome EXCEPT ![w] = o]
    /\ UNCHANGED <<row, held, heldAttempt, raced>>

(* runHandler's ticker: the claim is kept for another lease ... *)
RenewLease(w) ==
    /\ pc[w] = "handling"
    /\ Owns(w)
    /\ leaseAge' = [leaseAge EXCEPT ![held[w]] = 0]
    /\ UNCHANGED <<status, attempts, owner, delay, cancelReq, seen, runner, raced>>

(* ... or, when the row is no longer this runner's or the statement fails, the
   handler is given up. *)
LoseLease(w) == pc[w] = "handling" /\ HandlerReturnsWith(w, "leaseLost")

(* The handler reports progress; it bumps the version of a row it owns. *)
UpdateProgress(w) ==
    /\ pc[w] = "handling"
    /\ Owns(w)
    /\ BumpVersion({held[w]})
    /\ UNCHANGED <<status, attempts, owner, leaseAge, delay, cancelReq, runner, raced>>

(* The handler returns a result, a DeferredError whose time is in the future or
   is not, or any other error. *)
HandlerReturns(w) ==
    /\ pc[w] = "handling"
    /\ \E o \in {"ok", "deferred", "badDeferral", "failed"} : HandlerReturnsWith(w, o)

(* Mutation of CheckCancel: the result of the handler is written at once. *)
SkipCheck(w) == pc[w] = "checking" /\ GoTo(w, "finishing") /\ UNCHANGED <<row, raced>>

(* IsCancelRequested, whatever runHandler returned. *)
CheckCancel(w) ==
    /\ pc[w] = "checking"
    /\ GoTo(w, IF cancelReq[held[w]] THEN "cancelling" ELSE "finishing")
    /\ UNCHANGED <<row, raced>>

(* MySQLStore.CancelClaim; cancel_requested_at is never cleared. *)
CancelClaim(w) == pc[w] = "cancelling" /\ WriteClaim(w, "cancelled", 0)

Succeed(w) ==
    /\ pc[w] = "finishing" /\ outcome[w] = "ok"
    /\ WriteClaim(w, "succeeded", 0)

(* Mutation of Reschedule: the attempts left are not looked at. *)
RescheduleAlways(w) ==
    /\ pc[w] = "finishing" /\ outcome[w] = "deferred"
    /\ \E wait \in 1..MaxDelay : WriteClaim(w, "queued", wait)

Reschedule(w) ==
    /\ pc[w] = "finishing" /\ outcome[w] = "deferred"
    /\ heldAttempt[w] < MaxAttempts[held[w]]
    /\ \E wait \in 1..MaxDelay : WriteClaim(w, "queued", wait)

Fail(w) ==
    /\ pc[w] = "finishing"
    /\ \/ outcome[w] \in {"failed", "badDeferral"}
       \/ outcome[w] = "deferred" /\ heldAttempt[w] >= MaxAttempts[held[w]]
    /\ WriteClaim(w, "failed", 0)

(* Mutation of DropLostLease: the claim is dropped and the loop goes on. *)
DropAndGoOn(w) ==
    /\ pc[w] = "finishing" /\ outcome[w] = "leaseLost"
    /\ held' = [held EXCEPT ![w] = NoJob]
    /\ UNCHANGED <<row, pc, heldAttempt, outcome, raced>>

DropLostLease(w) ==
    /\ pc[w] = "finishing" /\ outcome[w] = "leaseLost"
    /\ GoIdle(w)
    /\ UNCHANGED <<row, raced>>

(* The process stops, or a statement fails: the runner forgets its claim and
   starts again under the same WorkerID; the row stays as it is. *)
Abandon(w) ==
    /\ pc[w] # "idle"
    /\ GoIdle(w)
    /\ UNCHANGED <<row, raced>>
-----------------------------------------------------------------------------
Tick ==
    /\ \E j \in Jobs : delay[j] > 0 \/ (status[j] = "running" /\ leaseAge[j] < Lease)
    /\ leaseAge' = [j \in Jobs |-> IF status[j] = "running" /\ leaseAge[j] < Lease
                                     THEN leaseAge[j] + 1 ELSE leaseAge[j]]
    /\ delay' = [j \in Jobs |-> IF delay[j] > 0 THEN delay[j] - 1 ELSE 0]
    /\ UNCHANGED <<status, attempts, owner, cancelReq, seen, runner, raced>>

Recover(w) == StartRecovery(w) \/ ReclaimCancelled(w) \/ ReclaimExhausted(w) \/ ReclaimAbandoned(w)

Execute(w) ==
    \/ \E j \in Jobs : Claim(w, j)
    \/ ClaimNothing(w)
    \/ HandlerReturns(w)
    \/ CheckCancel(w)
    \/ CancelClaim(w)
    \/ Succeed(w)
    \/ Reschedule(w)
    \/ Fail(w)
    \/ DropLostLease(w)

Next ==
    \/ \E j \in Jobs : Enqueue(j) \/ Get(j) \/ RequestCancel(j)
    \/ \E w \in Workers : \/ Recover(w)
                          \/ Execute(w)
                          \/ RenewLease(w)
                          \/ LoseLease(w)
                          \/ UpdateProgress(w)
                          \/ Abandon(w)
    \/ Tick

Spec == Init /\ [][Next]_vars

(* startWorker calls RunOnce for ever, a handler returns, time passes; and a
   runner that is stopped and started again and again is not stopped before
   the same statement of recovery, or before Claim, every time. *)
Fairness ==
    /\ WF_vars(Tick)
    /\ \A w \in Workers : /\ WF_vars(Recover(w) \/ Execute(w))
                          /\ SF_vars(ReclaimCancelled(w))
                          /\ SF_vars(ReclaimExhausted(w))
                          /\ SF_vars(ReclaimAbandoned(w))
                          /\ SF_vars(\E j \in Jobs : Claim(w, j))

FairSpec == Spec /\ Fairness
-----------------------------------------------------------------------------
(* Properties. *)

(* Every runner has a WorkerID of its own: the use the guards on lock_owner
   are made for. *)
OwnersDistinct == \A v, w \in Workers : OwnerOf[v] = OwnerOf[w] => v = w

(* A lock_owner guard that lets a runner through means that the row still
   carries the very attempt the runner claimed: a claimant whose lease was
   recovered, and whose job may since have run again, is shut out of Succeed,
   Fail, Reschedule, CancelClaim, RenewLease and UpdateProgress. *)
GuardMeansOwnAttempt ==
    \A w \in Workers : Active(w) /\ Owns(w) => heldAttempt[w] = attempts[held[w]]

(* Two runners may execute one job at once (a stalled one and its successor),
   but never the same attempt of it. *)
AttemptsAreDistinct ==
    \A v, w \in Workers :
        /\ v # w
        /\ Active(v) /\ Active(w) /\ held[v] = held[w]
        => heldAttempt[v] # heldAttempt[w]

(* Claim does not look at max_attempts: whoever puts a job back in the queue
   must leave it an attempt, or the job runs more often than it may. *)
AttemptBudget ==
    \A j \in Jobs : /\ attempts[j] <= MaxAttempts[j]
                    /\ status[j] = "queued" => attempts[j] < MaxAttempts[j]

(* The version a client holds stands for the status it read with it, so an
   accepted RequestCancel acts on the job its caller saw: every statement that
   changes the status bumps the version. *)
VersionTellsStatus == \A j \in Jobs : seen[j] # "none" => seen[j] = status[j]

(* Cancellation wins: unless the request lands after the claimant's check, a
   job with an accepted cancellation ends cancelled and nothing else. *)
CancellationWins ==
    \A j \in Jobs : cancelReq[j] /\ ~raced[j] => status[j] \in {"running", "cancelled"}

(* What mysql_store.go says of recovery and runtime.go of the check in RunOnce:
   no job is queued that Claim will always omit. *)
NoUnclaimableJob == \A j \in Jobs : ~(status[j] = "queued" /\ cancelReq[j])

(* A running job is released by the runner that holds its current attempt, or
   after its lease ran out; a renewed lease is never taken away. *)
ReleasedByClaimantOrExpiry ==
    [][\A j \in Jobs :
         status[j] = "running" /\ status'[j] # "running" =>
            \/ leaseAge[j] = Lease
            \/ \E w \in Workers : Active(w) /\ ~Active(w)'
                                    /\ held[w] = j /\ heldAttempt[w] = attempts[j]]_vars

(* The runtime implements the job lifecycle: an ended job never moves again,
   an attempt starts only within the budget, and a job is requeued only with
   an attempt left. *)
Lifecycle == INSTANCE JobLifecycle
ImplementsLifecycle == Lifecycle!Spec

(* With runners that keep running, every job that is queued comes to an end,
   whatever crashes and lease losses it meets, unless a cancellation that
   raced with a reschedule made it unclaimable. *)
JobsEnd ==
    \A j \in Jobs : status[j] = "queued" ~> status[j] \in Ended \/ (cancelReq[j] /\ raced[j])

(* An accepted cancellation that did not race ends the job as cancelled. *)
CancellationTakesEffect ==
    \A j \in Jobs : cancelReq[j] /\ ~raced[j] ~> status[j] = "cancelled"
=============================================================================
