-------------------------- MODULE KnowledgeDocument --------------------------
(***************************************************************************)
(* One document of internal/platform/knowledge and its parse jobs: the     *)
(* upload with the first job, the handler runs, a client that cancels, a   *)
(* client that retries under a new job, and JobStateReconciler, which      *)
(* closes documents of jobs that ended without their handler.              *)
(* Timestamps are reduced to the comparison the reconciler makes.          *)
(***************************************************************************)
EXTENDS LeasedJob

VARIABLES doc,        \* status of the row of platform_knowledge_documents
          chunks,     \* its chunk_count is positive
          after,      \* the job enqueued last has an updated_at not before that of the row
          canceller, retrier, reconciler,   \* where each of them is
          seen,       \* the state the retrier read
          fresh       \* the row was not written since the reconciler read it

document     == <<doc, chunks>>
retry        == <<retrier, seen>>
helpers      == <<canceller, retry, reconciler>>
times        == <<after, fresh>>
documentVars == <<document, times, helpers>>
vars         == <<leased, documentVars>>

Steps == {"scanning", "extracting", "checking", "chunking", "persisting",
          "failing", "retrying", "unpersisted"}

InProgress == {"parse_queued", "parsing"}
DocState   == {"absent", "ready", "partial", "parse_failed"} \cup InProgress

DocumentType ==
    /\ LeasedType(Steps)
    /\ doc \in DocState /\ chunks \in BOOLEAN
    /\ after \in BOOLEAN
    /\ canceller \in {"idle", "requesting", "closing", "marking"}
    /\ retrier \in {"idle", "moving", "scheduling", "unscheduled", "marking"}
    /\ reconciler \in {"idle", "closing"}
    /\ seen \in {"none"} \cup DocState
    /\ fresh \in BOOLEAN

DocumentInit ==
    /\ doc = "absent" /\ chunks = FALSE /\ after = FALSE
    /\ canceller = "idle" /\ retrier = "idle" /\ reconciler = "idle"
    /\ seen = "none" /\ fresh = FALSE

(* The job enqueued last, if any: NOT EXISTS newer. *)
Latest(j) == status[j] # "absent" /\ \A i \in JobIds : i > j => status[i] = "absent"

(* A write of the document sets updated_at; a step of the runtime may set that
   of a job. *)
WriteDoc(s)  == doc' = s /\ after' = FALSE /\ fresh' = FALSE
KeepDoc      == UNCHANGED <<doc, times>>
JobsTouched  == UNCHANGED fresh /\ after' = (after \/ \E j \in JobIds : /\ status'[j] # status[j]
                                                    /\ \A i \in JobIds : i > j => status'[i] = "absent")

(* What markDocumentParseFailed leaves: a document that has chunks keeps them. *)
FailedState == IF chunks THEN "partial" ELSE "parse_failed"

(* Its error is not looked at, so that the write may be lost. *)
MarkFailed ==
    /\ UNCHANGED chunks
    /\ \/ WriteDoc(FailedState) /\ UNCHANGED faults
       \/ KeepDoc /\ Fault
-----------------------------------------------------------------------------
(* CreateDocument stores the row and enqueues the first job; an enqueue that
   fails takes the row back, a crash in between leaves it.  Formats that are
   parsed within the request have no job. *)
CreateDocument ==
    /\ doc = "absent" /\ status[1] = "absent"
    /\ WriteDoc("parse_queued")
    /\ UNCHANGED <<leased, chunks, helpers>>

ScheduleDocumentParse ==
    /\ doc = "parse_queued" /\ status[1] = "absent"
    /\ Enqueue(1) /\ JobsTouched
    /\ UNCHANGED <<document, helpers>>

TakeDocumentBack ==
    /\ doc = "parse_queued" /\ status[1] = "absent" /\ Fault
    /\ WriteDoc("absent")
    /\ UNCHANGED <<jobs, chunks, helpers>>
-----------------------------------------------------------------------------
(* HandleDocumentParseJob. *)

Quiet == UNCHANGED documentVars

HandlerFails(r) ==
    /\ pc[r] \in {"claimed", "scanning", "extracting", "checking", "chunking"}
    /\ Slip(r, "rejected") /\ Quiet

LoadDocument(r) ==
    /\ pc[r] = "claimed"
    /\ Step(r, IF doc = "ready" THEN "ok" ELSE "scanning")
    /\ Quiet

(* updateDocumentParseCheckpoint, and what the handler does up to its next
   write: the source may be out of scope, not open, not parse or give no chunks. *)
Then == [scanning   |-> {"extracting", "failing"},
         extracting |-> {"checking", "failing", "retrying"},
         checking   |-> {"chunking", "failing"},
         chunking   |-> {"persisting"}]

(* The row is moved to parsing without a look at its state; the progress report
   that follows may fail, and does for a run that lost its job. *)
Checkpoint(r) ==
    /\ pc[r] \in DOMAIN Then
    /\ WriteDoc("parsing")
    /\ IF Current(r) THEN (\E next \in Then[pc[r]] : Step(r, next)) \/ Slip(r, "rejected")
                     ELSE Step(r, "rejected")
    /\ UNCHANGED <<chunks, helpers>>

(* Mutation of PersistParsed: the status is written before the chunks. *)
PersistStatusFirst(r) ==
    /\ pc[r] = "persisting"
    /\ \E s \in {"ready", "partial"} : WriteDoc(s)
    /\ \/ Step(r, "ok") /\ chunks' = TRUE
       \/ Slip(r, "unpersisted") /\ UNCHANGED chunks
    /\ UNCHANGED helpers

(* persistParsedDocument: chunks and status in one transaction. *)
PersistParsed(r) ==
    /\ pc[r] = "persisting"
    /\ \/ /\ \E s \in {"ready", "partial"} : WriteDoc(s)
          /\ chunks' = TRUE
          /\ Step(r, "ok") \/ Slip(r, "unpersisted")
       \/ Slip(r, "unpersisted") /\ KeepDoc /\ UNCHANGED chunks
    /\ UNCHANGED helpers

MarkParseFailed(r) ==
    /\ pc[r] \in {"failing", "unpersisted"} \/ (pc[r] = "retrying" /\ r[2] = MaxAttempts[r[1]])
    /\ MarkFailed
    /\ Go(r, IF pc[r] = "unpersisted" THEN "rejected" ELSE "ok") /\ UNCHANGED jobRow
    /\ UNCHANGED helpers

RecordRetry(r) ==
    /\ pc[r] = "retrying" /\ r[2] < MaxAttempts[r[1]]
    /\ \/ Step(r, "deferred") /\ WriteDoc("parse_queued")
       \/ Slip(r, "deferred") /\ KeepDoc
    /\ UNCHANGED <<chunks, helpers>>
-----------------------------------------------------------------------------
(* CancelDocumentParse. *)

ReadForCancel ==
    /\ canceller = "idle" /\ doc \in InProgress
    /\ canceller' = "requesting"
    /\ UNCHANGED <<leased, document, times, retry, reconciler>>

(* requestKnowledgeJobCancel, for the active job created last. *)
RequestParseCancel ==
    /\ canceller = "requesting"
    /\ \E j \in JobIds :
          /\ Active(j) /\ \A i \in JobIds : Active(i) => i <= j
          /\ RequestCancel(j)
          /\ canceller' = IF status'[j] = "cancelled" THEN "closing" ELSE "idle"
    /\ JobsTouched
    /\ UNCHANGED <<document, retry, reconciler>>

(* The two statements after the cancellation of a queued job; only the first
   looks at the state. *)
CloseCancelled ==
    /\ canceller = "closing"
    /\ IF doc \in InProgress THEN WriteDoc("parse_failed") ELSE KeepDoc
    /\ canceller' = "marking"
    /\ UNCHANGED <<leased, chunks, retry, reconciler>>

MarkCancelled ==
    /\ canceller = "marking"
    /\ MarkFailed
    /\ canceller' = "idle"
    /\ UNCHANGED <<jobs, retry, reconciler>>

CancelStops ==
    /\ canceller # "idle" /\ Fault
    /\ canceller' = "idle"
    /\ UNCHANGED <<jobs, document, times, retry, reconciler>>
-----------------------------------------------------------------------------
(* RetryDocumentParse. *)

ReadForRetry ==
    /\ retrier = "idle" /\ doc \in {"parse_failed", "partial"}
    /\ \E j \in JobIds : status[j] = "absent"       \* bound: JobCount
    /\ retrier' = "moving"
    /\ seen' = doc
    /\ UNCHANGED <<leased, document, times, canceller, reconciler>>

(* WHERE status is still the one that was read. *)
MoveToQueued ==
    /\ retrier = "moving"
    /\ IF doc = seen
         THEN WriteDoc("parse_queued") /\ retrier' = "scheduling"
         ELSE KeepDoc /\ retrier' = "idle"
    /\ seen' = "none"
    /\ UNCHANGED <<leased, chunks, canceller, reconciler>>

ScheduleRetry ==
    /\ retrier = "scheduling"
    /\ \/ /\ \E j \in JobIds : /\ status[j] = "absent"
                               /\ \A i \in JobIds : i < j => status[i] # "absent"
                               /\ Enqueue(j)
          /\ JobsTouched
          /\ retrier' = "idle"
       \/ retrier' = "unscheduled" /\ Fault /\ UNCHANGED <<jobs, times>>
    /\ UNCHANGED <<document, seen, canceller, reconciler>>

RetryUnscheduled ==
    /\ retrier = "unscheduled"
    /\ IF doc = "parse_queued" THEN WriteDoc("parse_failed") ELSE KeepDoc
    /\ retrier' = "marking"
    /\ UNCHANGED <<leased, chunks, seen, canceller, reconciler>>

MarkUnscheduled ==
    /\ retrier = "marking"
    /\ MarkFailed
    /\ retrier' = "idle"
    /\ UNCHANGED <<jobs, seen, canceller, reconciler>>

RetryStops ==
    /\ retrier # "idle" /\ Fault
    /\ retrier' = "idle"
    /\ seen' = "none"
    /\ UNCHANGED <<jobs, document, times, canceller, reconciler>>
-----------------------------------------------------------------------------
(* reconcileOneDocumentJob: a query, then a guarded update. *)

(* Mutation of Abandoned: cancelled jobs are left to the handler. *)
AbandonedByFailure(j) == doc \in InProgress /\ Latest(j) /\ status[j] = "failed" /\ after

Abandoned(j) ==
    /\ doc \in InProgress
    /\ Latest(j) /\ status[j] \in {"failed", "cancelled"} /\ after

FindAbandoned ==
    /\ reconciler = "idle"
    /\ \E j \in JobIds : Abandoned(j)
    /\ reconciler' = "closing" /\ fresh' = TRUE
    /\ UNCHANGED <<leased, document, after, canceller, retry>>

(* The document takes the updated_at of the job, so that `after` stays. *)
CloseAbandoned ==
    /\ reconciler = "closing"
    /\ doc' = IF doc \in InProgress /\ fresh THEN "parse_failed" ELSE doc
    /\ reconciler' = "idle" /\ fresh' = FALSE
    /\ UNCHANGED <<leased, chunks, after, canceller, retry>>

ReconcilerStops ==
    /\ reconciler # "idle" /\ Fault
    /\ reconciler' = "idle" /\ fresh' = FALSE
    /\ UNCHANGED <<jobs, document, after, canceller, retry>>
-----------------------------------------------------------------------------
HandlerStep(r) ==
    \/ LoadDocument(r) \/ Checkpoint(r) \/ PersistParsed(r) \/ MarkParseFailed(r) \/ RecordRetry(r)

DocumentNext ==
    \/ CreateDocument \/ ScheduleDocumentParse \/ TakeDocumentBack
    \/ \E r \in Runs : HandlerStep(r) \/ HandlerFails(r)
    \/ ReadForCancel \/ RequestParseCancel \/ CloseCancelled \/ MarkCancelled \/ CancelStops
    \/ ReadForRetry \/ MoveToQueued \/ ScheduleRetry \/ RetryUnscheduled \/ MarkUnscheduled
    \/ RetryStops
    \/ FindAbandoned \/ CloseAbandoned \/ ReconcilerStops
    \/ RuntimeStep /\ JobsTouched /\ UNCHANGED <<document, helpers>>

Init == LeasedInit /\ DocumentInit

(* The reconciler is a loop of the worker; a process that stops is restarted. *)
ReconcilerFairness == WF_vars(FindAbandoned) /\ SF_vars(CloseAbandoned)

Spec == Init /\ [][DocumentNext]_vars /\ ReconcilerFairness
-----------------------------------------------------------------------------
(* Properties. *)

(* A document is shown as ready or partial only with chunks behind it, whatever
   late runs, cancellations and failed retries write over it. *)
ShownDocumentHasChunks == doc \in {"ready", "partial"} => chunks

(* JobStateReconciler gives up what nobody works on: a document in progress
   whose last job was cancelled or failed after the last write of the document
   does not stay that way.  (A late run that writes after its job has ended
   takes the document out of its reach.) *)
AbandonedIsClosed ==
    LET Waiting == /\ doc \in InProgress
                   /\ \E j \in JobIds : Latest(j) /\ status[j] \in {"failed", "cancelled"} /\ after
    IN  Waiting ~> ~Waiting
=============================================================================
