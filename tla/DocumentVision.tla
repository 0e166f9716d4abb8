--------------------------- MODULE DocumentVision ---------------------------
(***************************************************************************)
(* The visual fallback of one document of internal/platform/knowledge: the *)
(* attempts a client starts, their page ranges (tasks) submitted to a paid *)
(* external parser, the handler runs that submit and poll them, two        *)
(* operators who reconcile a submission nobody knows the outcome of, a     *)
(* client that cancels, and what JobStateReconciler does about all that.   *)
(* `submitted` stands for the status running of a task too, and "unsure"   *)
(* for the failure codes of documentVisionRequiresReconciliation.          *)
(***************************************************************************)
EXTENDS LeasedJob, Integers

CONSTANTS AttemptCount,   \* bound: attempts a client may start
          TaskCount,      \* page ranges of an attempt
          PagesOf         \* page_numbers of each range

Tasks == (1..AttemptCount) \X (1..TaskCount)

(* The jobs: one for each attempt, and one for each reconciled task. *)
ASSUME VisionAssumption ==
    /\ AttemptCount \in Nat \ {0}
    /\ TaskCount \in Nat \ {0}
    /\ JobCount = AttemptCount * (1 + TaskCount)
    /\ PagesOf \in [Tasks -> (SUBSET Nat) \ {{}}]

VARIABLES vision,      \* vision_fallback_status, and the kind of vision_error_code
          attempt,     \* vision_attempt_id; 0 is none
          task,        \* status of the rows of platform_knowledge_document_vision_tasks
          recon,       \* the last reconciliation of each task
          ready,       \* pages of the document with a result: their status is ready
          sent,        \* calls of SubmitPrepared for each task
          hand,        \* the task each run has in hand
          last,        \* the job that was created last
          after,       \* its updated_at is not before that of the document
          starter, canceller, reconciler    \* where each of them is

rows       == <<vision, attempt, task, recon>>
world      == <<ready, sent>>
clients    == <<starter, canceller, reconciler>>
visionVars == <<rows, world, hand, last, after, clients>>
vars       == <<leased, visionVars>>

Steps  == {"starting", "loading", "opening", "submitting", "sent", "unsent", "doubting",
           "polling", "storing", "finalizing", "reading", "whole", "missing", "failing",
           "unsure"}
InWork == {"queued", "running"}

AttemptOf(j)  == IF j <= AttemptCount THEN j ELSE (j - AttemptCount - 1) \div TaskCount + 1
JobOfTask(t)  == AttemptCount + (t[1] - 1) * TaskCount + t[2]
Mine(r)       == AttemptOf(r[1])
InHand(r)     == <<Mine(r), hand[r]>>

(* vision_selected_pages of an attempt, and page_numbers of its jobs. *)
Selected(a) == UNION {PagesOf[<<a, i>>] : i \in 1..TaskCount}

VisionType ==
    /\ LeasedType(Steps)
    /\ vision \in {"none", "failed", "unsure", "partial", "succeeded"} \cup InWork
    /\ attempt \in 0..AttemptCount
    /\ task \in [Tasks -> {"absent", "prepared", "submitting", "submitted", "unknown",
                           "failed", "completed"}]
    /\ recon \in [Tasks -> {"none", "accepted?", "refused?", "rejected", "applied",
                            "scheduled", "refused"}]
    /\ ready \in SUBSET Nat /\ sent \in [Tasks -> Nat]
    /\ hand \in [Runs -> 0..TaskCount]
    /\ last \in 0..JobCount /\ after \in BOOLEAN
    /\ starter \in {"idle", "starting", "scheduling"}
    /\ canceller \in {"idle", "marking"} /\ reconciler \in {"idle", "failed", "unsure"}

VisionInit ==
    /\ vision = "none" /\ attempt = 0
    /\ task = [t \in Tasks |-> "absent"] /\ recon = [t \in Tasks |-> "none"]
    /\ ready = {} /\ sent = [t \in Tasks |-> 0]
    /\ hand = [r \in Runs |-> 0]
    /\ last = 0 /\ after = FALSE
    /\ starter = "idle" /\ canceller = "idle" /\ reconciler = "idle"

SetVision(s) == vision' = s /\ after' = FALSE
SetTask(t, s) == task' = [task EXCEPT ![t] = s]
Hold(r, i) == hand' = [hand EXCEPT ![r] = i]
(* A step of the runtime. *)
JobsTouched == after' = (after \/ (last # 0 /\ status'[last] # status[last]))

(* markDocumentVisionFailed *)
MarkVisionFailed(code) ==
    IF vision \in InWork THEN SetVision(code) ELSE UNCHANGED <<vision, after>>

(* ScheduleDocumentVisionFallback, idempotent under its key. *)
Schedule(j) ==
    /\ Enqueue(j)
    /\ after' = (after \/ status[j] = "absent")
    /\ last' = IF status[j] = "absent" THEN j ELSE last
-----------------------------------------------------------------------------
(* RunDocumentVisionFallback. *)

ReadForStart ==
    /\ starter = "idle" /\ vision \in {"none", "failed", "partial"} /\ attempt < AttemptCount
    /\ starter' = "starting"
    /\ UNCHANGED <<leased, rows, world, hand, last, after, canceller, reconciler>>

(* The transaction asks only that no attempt is in work and none has succeeded.
   A page that is selected again loses its status. *)
BeginAttempt ==
    /\ starter = "starting"
    /\ IF vision \in InWork \cup {"succeeded"}
         THEN starter' = "idle" /\ UNCHANGED <<vision, after, attempt, task, ready>>
         ELSE /\ SetVision("queued")
              /\ attempt' = attempt + 1
              /\ task' = [t \in Tasks |-> IF t[1] = attempt + 1 THEN "prepared" ELSE task[t]]
              /\ ready' = ready \ Selected(attempt + 1)
              /\ starter' = "scheduling"
    /\ UNCHANGED <<leased, recon, sent, hand, last, canceller, reconciler>>

ScheduleAttempt ==
    /\ starter = "scheduling"
    /\ starter' = "idle"
    /\ \/ Schedule(attempt) /\ UNCHANGED vision
       \/ Fault /\ MarkVisionFailed("failed") /\ UNCHANGED <<jobs, last>>
    /\ UNCHANGED <<attempt, task, recon, world, hand, canceller, reconciler>>

StartStops ==
    /\ starter # "idle" /\ Fault
    /\ starter' = "idle"
    /\ UNCHANGED <<jobs, rows, world, hand, last, after, canceller, reconciler>>
-----------------------------------------------------------------------------
(* HandleDocumentVisionFallbackJob. *)

Quiet == UNCHANGED visionVars
Idle  == UNCHANGED <<attempt, recon, last, clients>>

HandlerFails(r) ==
    /\ pc[r] \in {"claimed", "starting", "loading", "opening", "polling", "finalizing"}
    /\ Slip(r, "rejected") /\ Quiet

LoadDocument(r) ==
    /\ pc[r] = "claimed"
    /\ Step(r, IF vision = "succeeded" \/ attempt # Mine(r) THEN "ok" ELSE "starting")
    /\ Quiet

(* A process without a parser: the document fails and the job succeeds. *)
VisionUnavailable(r) ==
    /\ pc[r] = "starting"
    /\ \/ Step(r, "ok") /\ MarkVisionFailed("failed")
       \/ Slip(r, "ok") /\ UNCHANGED <<vision, after>>
    /\ UNCHANGED <<task, world, hand>> /\ Idle

(* The update does not look at the row; the progress report fails for a run
   that lost its job. *)
StartRun(r) ==
    /\ pc[r] = "starting"
    /\ SetVision("running")
    /\ Step(r, IF Current(r) THEN "loading" ELSE "rejected")
    /\ UNCHANGED <<task, world, hand>> /\ Idle

(* The first task that must stop the run, else the first to submit, else the
   first to poll. *)
LoadTasks(r) ==
    LET state(i) == task[<<Mine(r), i>>]
        First(S) == CHOOSE i \in 1..TaskCount :
                       state(i) \in S /\ \A k \in 1..(i - 1) : state(k) \notin S
        Some(S)  == \E i \in 1..TaskCount : state(i) \in S
        Stop     == {"submitting", "unknown", "failed"}
        Take(i, label) == Hold(r, i) /\ Step(r, label)
    IN  /\ pc[r] = "loading"
        /\ \/ Some(Stop) /\ Take(First(Stop), IF state(First(Stop)) = "failed"
                                              THEN "failing" ELSE "doubting")
           \/ /\ ~Some(Stop) /\ Some({"prepared"})
              /\ Take(First({"prepared"}), "opening")
           \/ /\ ~Some(Stop \cup {"prepared"}) /\ Some({"submitted"})
              /\ Take(First({"submitted"}), "polling")
           \/ ~Some(Stop \cup {"prepared", "submitted"}) /\ Take(0, "finalizing")
        /\ UNCHANGED <<vision, after, task, world>> /\ Idle

(* The source or the intent is unusable, and no call is made. *)
SourceInvalid(r) ==
    /\ pc[r] = "opening"
    /\ \/ Step(r, "failing") /\ SetTask(InHand(r), "failed")
       \/ Slip(r, "failing") /\ UNCHANGED task
    /\ UNCHANGED <<vision, after, world, hand>> /\ Idle

(* Mutation of PersistIntent: AND status = 'prepared' is missing. *)
PersistIntentAnyway(r) ==
    /\ pc[r] = "opening"
    /\ SetTask(InHand(r), "submitting") /\ Step(r, "submitting")
    /\ UNCHANGED <<vision, after, world, hand>> /\ Idle

PersistIntent(r) ==
    /\ pc[r] = "opening"
    /\ IF task[InHand(r)] = "prepared"
         THEN SetTask(InHand(r), "submitting") /\ Step(r, "submitting")
         ELSE Step(r, "deferred") /\ UNCHANGED task
    /\ UNCHANGED <<vision, after, world, hand>> /\ Idle

SubmitPrepared(r) ==
    /\ pc[r] = "submitting"
    /\ sent' = [sent EXCEPT ![InHand(r)] = @ + 1]
    /\ \E answer \in {"sent", "unsent"} : Step(r, answer)
    /\ UNCHANGED <<vision, after, task, ready, hand>> /\ Idle

PersistSubmission(r) ==
    /\ pc[r] = "sent"
    /\ \/ /\ task[InHand(r)] = "submitting"
          /\ SetTask(InHand(r), "submitted") /\ Step(r, "deferred")
       \/ /\ task[InHand(r)] # "submitting"
          /\ Step(r, "unsure") /\ UNCHANGED task
       \/ Slip(r, "unsure") /\ UNCHANGED task
    /\ UNCHANGED <<vision, after, world, hand>> /\ Idle

(* Whatever the task is by now; an error of the update is not looked at. *)
MarkTaskUnknown(r) ==
    /\ pc[r] \in {"unsent", "doubting"}
    /\ \/ Step(r, "unsure") /\ SetTask(InHand(r), "unknown")
       \/ Slip(r, "unsure") /\ UNCHANGED task
    /\ UNCHANGED <<vision, after, world, hand>> /\ Idle

MarkFailed(r) ==
    /\ pc[r] \in {"failing", "unsure"}
    /\ \/ /\ Step(r, "rejected")
          /\ MarkVisionFailed(IF pc[r] = "unsure" THEN "unsure" ELSE "failed")
       \/ Slip(r, "rejected") /\ UNCHANGED <<vision, after>>
    /\ UNCHANGED <<task, world, hand>> /\ Idle

(* No answer, not done yet, failed, done with a result that is of no use, or done. *)
Poll(r) ==
    /\ pc[r] = "polling"
    /\ \/ Step(r, "deferred") /\ SetVision("running") /\ UNCHANGED task
       \/ /\ Step(r, "deferred") /\ UNCHANGED <<vision, task>>
          /\ after' = (after /\ attempt # Mine(r))
       \/ /\ Step(r, "failing") /\ UNCHANGED <<vision, after>>
          /\ SetTask(InHand(r), "failed")
       \/ /\ UNCHANGED <<vision, after, task>>
          /\ \E label \in {"failing", "rejected"} : Step(r, label)
       \/ Step(r, "storing") /\ UNCHANGED <<vision, after, task>>
    /\ UNCHANGED <<world, hand>> /\ Idle

(* One transaction, and the progress report that follows. The answer holds some
   of the pages that were asked for; whose attempt selected them is not looked at. *)
PersistTaskResult(r) ==
    /\ pc[r] = "storing"
    /\ \/ /\ task[InHand(r)] = "submitted"
          /\ SetTask(InHand(r), "completed")
          /\ \E found \in (SUBSET PagesOf[InHand(r)]) \ {{}} : ready' = ready \cup found
          /\ after' = (after /\ attempt # Mine(r))
          /\ Step(r, IF Current(r) THEN "deferred" ELSE "rejected")
       \/ /\ task[InHand(r)] # "submitted"
          /\ Step(r, "failing") /\ UNCHANGED <<task, ready, after>>
       \/ Slip(r, "failing") /\ UNCHANGED <<task, ready, after>>
    /\ UNCHANGED <<vision, sent, hand>> /\ Idle

(* finalizeDocumentVisionAttempt: two queries, and a transaction. *)

CountRemaining(r) ==
    /\ pc[r] = "finalizing"
    /\ \/ Step(r, IF ~Current(r) THEN "rejected"
                  ELSE IF \E i \in 1..TaskCount : task[<<Mine(r), i>>] # "completed" THEN "failing"
                  ELSE "reading")
       \/ Current(r) /\ Slip(r, "failing")
    /\ Quiet

(* Mutation of ReadPages: completed ranges are taken for complete ones. *)
ReadNoPages(r) == pc[r] = "reading" /\ Step(r, "whole") /\ Quiet

(* The pages of the attempt that are ready, whichever attempt they come from. *)
ReadPages(r) ==
    /\ pc[r] = "reading"
    /\ \/ Step(r, IF Selected(Mine(r)) \subseteq ready THEN "whole" ELSE "missing")
       \/ Slip(r, "failing")
    /\ Quiet

(* Mutation of Finalize: AND vision_attempt_id = ? is missing. *)
FinalizeAnyAttempt(r) ==
    /\ pc[r] \in {"whole", "missing"}
    /\ SetVision(IF pc[r] = "whole" THEN "succeeded" ELSE "partial") /\ Step(r, "ok")
    /\ UNCHANGED <<task, world, hand>> /\ Idle

(* The rows the update matched are not counted. Only pages that are not ready
   are marked as failed, so that `ready` stays as it is. *)
Finalize(r) ==
    /\ pc[r] \in {"whole", "missing"}
    /\ \/ /\ Step(r, "ok")
          /\ IF attempt = Mine(r)
               THEN SetVision(IF pc[r] = "whole" THEN "succeeded" ELSE "partial")
               ELSE UNCHANGED <<vision, after>>
       \/ Slip(r, "failing") /\ UNCHANGED <<vision, after>>
    /\ UNCHANGED <<task, world, hand>> /\ Idle
-----------------------------------------------------------------------------
(* Reconciliation: one operator proposes, another one confirms or rejects. *)

Uncertain(t) == t[1] = attempt /\ task[t] \in {"unknown", "submitting"} /\ vision = "unsure"

ProposeReconciliation(t) ==
    /\ Uncertain(t) /\ recon[t] \in {"none", "rejected"}
    /\ \E decision \in {"accepted?", "refused?"} : recon' = [recon EXCEPT ![t] = decision]
    /\ UNCHANGED <<leased, vision, attempt, task, world, hand, last, after, clients>>

RejectReconciliation(t) ==
    /\ recon[t] \in {"accepted?", "refused?"}
    /\ recon' = [recon EXCEPT ![t] = "rejected"]
    /\ UNCHANGED <<leased, vision, attempt, task, world, hand, last, after, clients>>

ConfirmReconciliation(t) ==
    /\ Uncertain(t)
    /\ \/ /\ recon[t] = "accepted?"
          /\ recon' = [recon EXCEPT ![t] = "applied"]
          /\ SetTask(t, "submitted") /\ SetVision("queued")
       \/ /\ recon[t] = "refused?"
          /\ recon' = [recon EXCEPT ![t] = "refused"]
          /\ SetTask(t, "failed") /\ SetVision("failed")
    /\ UNCHANGED <<leased, attempt, world, hand, last, clients>>

(* scheduleAppliedDocumentVisionReconciliation, called by the confirmation and
   by recoverOnePendingVisionReconciliation until it has taken place. *)
ScheduleApplied(t) ==
    /\ recon[t] = "applied" /\ t[1] = attempt
    /\ Schedule(JobOfTask(t))
    /\ UNCHANGED <<rows, world, hand, clients>>

(* Mutation of MarkScheduled: it is recorded before the job is enqueued, and
   the process stops in between. *)
MarkScheduledFirst(t) ==
    /\ recon[t] = "applied"
    /\ recon' = [recon EXCEPT ![t] = "scheduled"]
    /\ UNCHANGED <<leased, vision, attempt, task, world, hand, last, after, clients>>

MarkScheduled(t) ==
    /\ recon[t] = "applied" /\ status[JobOfTask(t)] # "absent"
    /\ recon' = [recon EXCEPT ![t] = "scheduled"]
    /\ UNCHANGED <<leased, vision, attempt, task, world, hand, last, after, clients>>
-----------------------------------------------------------------------------
(* CancelDocumentParse, for a document in visual fallback. *)

RequestVisionCancel ==
    /\ canceller = "idle" /\ vision \in InWork
    /\ \E j \in JobIds :
          /\ Active(j) /\ (Active(last) => j = last)
          /\ RequestCancel(j)
          /\ canceller' = IF status'[j] = "cancelled" THEN "marking" ELSE "idle"
    /\ JobsTouched
    /\ UNCHANGED <<rows, world, hand, last, starter, reconciler>>

MarkVisionCancelled ==
    /\ canceller = "marking"
    /\ canceller' = "idle"
    /\ MarkVisionFailed("failed")
    /\ UNCHANGED <<leased, attempt, task, recon, world, hand, last, starter, reconciler>>
-----------------------------------------------------------------------------
(* JobStateReconciler. *)

(* reconcileOneDocumentVisionJob; the code the job failed with becomes that of
   the document. *)
FindAbandoned ==
    /\ reconciler = "idle" /\ vision \in InWork
    /\ after /\ status[last] \in {"failed", "cancelled"}
    /\ \/ reconciler' = "failed"
       \/ status[last] = "failed" /\ reconciler' = "unsure"
    /\ UNCHANGED <<leased, rows, world, hand, last, after, starter, canceller>>

CloseAbandoned ==
    /\ reconciler # "idle"
    /\ reconciler' = "idle"
    /\ MarkVisionFailed(reconciler)
    /\ UNCHANGED <<leased, attempt, task, recon, world, hand, last, starter, canceller>>

(* recoverOneOrphanedVisionJob *)
RecoverOrphan ==
    /\ vision = "queued"
    /\ \A t \in Tasks : t[1] = attempt => recon[t] # "applied"
    /\ \A j \in JobIds : ~Active(j)
    /\ Schedule(attempt)
    /\ UNCHANGED <<rows, world, hand, clients>>
-----------------------------------------------------------------------------
HandlerStep(r) ==
    \/ LoadDocument(r) \/ VisionUnavailable(r) \/ StartRun(r) \/ LoadTasks(r)
    \/ SourceInvalid(r) \/ PersistIntent(r) \/ SubmitPrepared(r) \/ PersistSubmission(r)
    \/ MarkTaskUnknown(r) \/ MarkFailed(r) \/ Poll(r) \/ PersistTaskResult(r)
    \/ CountRemaining(r) \/ ReadPages(r) \/ Finalize(r)

VisionNext ==
    \/ ReadForStart \/ BeginAttempt \/ ScheduleAttempt \/ StartStops
    \/ \E r \in Runs : HandlerStep(r) \/ HandlerFails(r)
    \/ \E t \in Tasks : \/ ProposeReconciliation(t) \/ RejectReconciliation(t)
                        \/ ConfirmReconciliation(t) \/ ScheduleApplied(t) \/ MarkScheduled(t)
    \/ RequestVisionCancel \/ MarkVisionCancelled
    \/ FindAbandoned \/ CloseAbandoned \/ RecoverOrphan
    \/ /\ RuntimeStep /\ JobsTouched
       /\ hand' = [r \in Runs |-> IF pc'[r] = "off" THEN 0 ELSE hand[r]]
       /\ UNCHANGED <<rows, world, last, clients>>

Init == LeasedInit /\ VisionInit

Spec == Init /\ [][VisionNext]_vars
-----------------------------------------------------------------------------
(* Properties. *)

(* "cookies will not submit it again automatically": the external parser is
   called at most once for a page range of an attempt, whatever crashes, late
   runs, polls and reconciliations come in between. *)
SubmittedAtMostOnce == \A t \in Tasks : sent[t] <= 1

(* A visual fallback is shown as succeeded only with a result of every page that
   the attempt it names selected: not when the parser left pages out, and not
   when a run of an earlier attempt, which found its own pages complete, goes on
   after a client has selected them anew. *)
SuccessIsStored == vision = "succeeded" => Selected(attempt) \subseteq ready

(* A task two operators found accepted is polled again: its reconciliation is
   never recorded as scheduled without a job. *)
ScheduledHasJob == \A t \in Tasks : recon[t] = "scheduled" => status[JobOfTask(t)] # "absent"
=============================================================================
