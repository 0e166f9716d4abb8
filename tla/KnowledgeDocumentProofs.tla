----------------------- MODULE KnowledgeDocumentProofs -----------------------
(* Theorems about a document and its parse jobs, for any number of jobs,
   attempts and faults. *)
EXTENDS KnowledgeDocument, LeasedJobProofs

HelperType ==
    /\ canceller \in {"idle", "requesting", "closing", "marking"}
    /\ retrier \in {"idle", "moving", "scheduling", "unscheduled", "marking"}
    /\ reconciler \in {"idle", "closing"}
    /\ seen \in {"none"} \cup DocState

RowType == doc \in DocState /\ chunks \in BOOLEAN

TimesType == after \in BOOLEAN /\ fresh \in BOOLEAN

DocumentInv == LeasedInv(Steps) /\ HelperType /\ RowType /\ TimesType /\ ShownDocumentHasChunks

LEMMA NoReschedule == "reschedule" \notin Steps
BY DEF Steps

LEMMA DocumentStart == Init => DocumentInv
<1> SUFFICES ASSUME Init PROVE DocumentInv
  OBVIOUS
<1>1. LeasedInv(Steps)
  BY LeasedStart DEF Init
<1>2. QED
  BY <1>1 DEF Init, DocumentInit, DocumentInv, HelperType, RowType, TimesType, DocState, ShownDocumentHasChunks

(* The writes of the document and of the comparisons. *)
RowKept == RowType' /\ ShownDocumentHasChunks'

LEMMA WriteKeeps ==
    ASSUME DocumentInv, NEW s \in DocState, WriteDoc(s),
           chunks' = chunks \/ chunks' = TRUE, s \in {"ready", "partial"} => chunks'
    PROVE  RowKept /\ TimesType'
BY DEF DocumentInv, WriteDoc, RowType, TimesType, ShownDocumentHasChunks, RowKept

LEMMA NoWriteKeeps ==
    ASSUME DocumentInv, UNCHANGED doc, chunks' = chunks \/ chunks' = TRUE PROVE RowKept
BY DEF DocumentInv, RowType, ShownDocumentHasChunks, RowKept

LEMMA MarkFailedKeeps ==
    ASSUME DocumentInv, MarkFailed
    PROVE  RowKept /\ TimesType' /\ (UNCHANGED faults \/ Fault)
<1>1. CASE UNCHANGED chunks /\ WriteDoc(FailedState) /\ UNCHANGED faults
  <2>1. FailedState \in DocState /\ (FailedState \in {"ready", "partial"} => chunks)
    BY DEF FailedState, DocState, InProgress, DocumentInv, RowType
  <2>2. QED
    BY <1>1, <2>1, WriteKeeps
<1>2. CASE UNCHANGED chunks /\ KeepDoc /\ Fault
  BY <1>2, NoWriteKeeps DEF KeepDoc, times, DocumentInv, TimesType
<1>3. QED
  BY <1>1, <1>2 DEF MarkFailed

LEMMA TouchedTyped == ASSUME DocumentInv, JobsTouched PROVE TimesType'
<1>1. fresh' \in BOOLEAN
  BY DEF JobsTouched, DocumentInv, TimesType
<1>2. after' \in BOOLEAN
  BY DEF JobsTouched
<1>3. QED
  BY <1>1, <1>2 DEF TimesType

LEMMA FaultKeeps == ASSUME DocumentInv, UNCHANGED jobs, UNCHANGED faults \/ Fault PROVE LeasedInv(Steps)'
<1>1. faults' \in 0..MaxFaults
  BY LeasedAssumption DEF Fault, DocumentInv, LeasedInv, LeasedType
<1>2. QED
  BY <1>1 DEF jobs, jobRow, DocumentInv, LeasedInv, LeasedType, BudgetInv

LEMMA CreateKeeps ==
    ASSUME DocumentInv, CreateDocument \/ ScheduleDocumentParse \/ TakeDocumentBack PROVE DocumentInv'
<1>1. CASE CreateDocument
  <2>1. LeasedInv(Steps)' /\ HelperType'
    BY <1>1, StutterKeeps DEF CreateDocument, helpers, retry, HelperType, DocumentInv
  <2>2. RowKept /\ TimesType'
    BY <1>1, WriteKeeps DEF CreateDocument, DocState, InProgress
  <2>3. QED
    BY <2>1, <2>2 DEF DocumentInv, RowKept
<1>2. CASE ScheduleDocumentParse
  <2>1. 1 \in JobIds
    BY LeasedAssumption DEF JobIds
  <2>2. LeasedInv(Steps)' /\ HelperType'
    BY <1>2, <2>1, EnqueueKeeps DEF ScheduleDocumentParse, helpers, retry, HelperType, DocumentInv
  <2>3. RowKept /\ TimesType'
    BY <1>2, NoWriteKeeps, TouchedTyped DEF ScheduleDocumentParse, document
  <2>4. QED
    BY <2>2, <2>3 DEF DocumentInv, RowKept
<1>3. CASE TakeDocumentBack
  <2>1. LeasedInv(Steps)' /\ HelperType'
    BY <1>3, FaultKeeps DEF TakeDocumentBack, helpers, retry, HelperType, DocumentInv
  <2>2. RowKept /\ TimesType'
    BY <1>3, WriteKeeps DEF TakeDocumentBack, DocState
  <2>3. QED
    BY <2>1, <2>2 DEF DocumentInv, RowKept
<1>4. QED
  BY <1>1, <1>2, <1>3

LEMMA HandlerKeeps == ASSUME DocumentInv, NEW r \in Runs, HandlerStep(r) \/ HandlerFails(r) PROVE DocumentInv'
<1>1. CASE LoadDocument(r) \/ HandlerFails(r)
  <2>1. PICK label \in {"ok", "scanning", "rejected"} : Go(r, label)
    BY <1>1 DEF LoadDocument, HandlerFails, Step, Slip
  <2>2. UNCHANGED jobRow /\ (UNCHANGED faults \/ Fault) /\ Quiet
    BY <1>1 DEF LoadDocument, HandlerFails, Step, Slip
  <2>3. LeasedInv(Steps)'
    BY <2>1, <2>2, HandlerStepKeeps, NoReschedule DEF DocumentInv, Returned, Steps
  <2>4. QED
    BY <2>2, <2>3 DEF Quiet, documentVars, document, times, helpers, retry, DocumentInv, HelperType, RowType,
                      TimesType, ShownDocumentHasChunks
<1>2. CASE Checkpoint(r)
  <2>1. PICK label \in {"rejected", "extracting", "failing", "checking", "retrying", "chunking", "persisting"} :
           Go(r, label)
    BY <1>2 DEF Checkpoint, Step, Slip, Then
  <2>2. UNCHANGED jobRow /\ (UNCHANGED faults \/ Fault)
    BY <1>2 DEF Checkpoint, Step, Slip
  <2>3. LeasedInv(Steps)'
    BY <2>1, <2>2, HandlerStepKeeps, NoReschedule DEF DocumentInv, Returned, Steps
  <2>4. RowKept /\ TimesType'
    BY <1>2, WriteKeeps DEF Checkpoint, DocState, InProgress
  <2>5. QED
    BY <1>2, <2>3, <2>4 DEF Checkpoint, helpers, retry, DocumentInv, HelperType, RowKept
<1>3. CASE PersistParsed(r)
  <2>1. PICK label \in {"ok", "unpersisted"} : Go(r, label)
    BY <1>3 DEF PersistParsed, Step, Slip
  <2>2. UNCHANGED jobRow /\ (UNCHANGED faults \/ Fault)
    BY <1>3 DEF PersistParsed, Step, Slip
  <2>3. LeasedInv(Steps)'
    BY <2>1, <2>2, HandlerStepKeeps, NoReschedule DEF DocumentInv, Returned, Steps
  <2>4. CASE KeepDoc /\ UNCHANGED chunks
    BY <1>3, <2>3, <2>4, NoWriteKeeps
       DEF PersistParsed, KeepDoc, times, helpers, retry, DocumentInv, HelperType, RowKept, TimesType
  <2>5. CASE chunks' = TRUE /\ \E s \in {"ready", "partial"} : WriteDoc(s)
    <3>1. RowKept /\ TimesType'
      BY <2>5, WriteKeeps DEF DocState
    <3>2. QED
      BY <1>3, <2>3, <3>1 DEF PersistParsed, helpers, retry, DocumentInv, HelperType, RowKept
  <2>6. QED
    BY <1>3, <2>4, <2>5 DEF PersistParsed
<1>4. CASE MarkParseFailed(r)
  <2>1. PICK label \in {"ok", "rejected"} : Go(r, label)
    BY <1>4 DEF MarkParseFailed
  <2>2. UNCHANGED jobRow /\ MarkFailed /\ UNCHANGED helpers
    BY <1>4 DEF MarkParseFailed
  <2>3. RowKept /\ TimesType' /\ (UNCHANGED faults \/ Fault)
    BY <2>2, MarkFailedKeeps
  <2>4. LeasedInv(Steps)'
    BY <2>1, <2>2, <2>3, HandlerStepKeeps, NoReschedule DEF DocumentInv, Returned
  <2>5. QED
    BY <2>2, <2>3, <2>4 DEF helpers, retry, DocumentInv, HelperType, RowKept
<1>5. CASE RecordRetry(r)
  <2>1. Go(r, "deferred") /\ UNCHANGED jobRow /\ (UNCHANGED faults \/ Fault) /\ UNCHANGED <<chunks, helpers>>
    BY <1>5 DEF RecordRetry, Step, Slip
  <2>2. LeasedInv(Steps)'
    BY <2>1, HandlerStepKeeps, NoReschedule DEF DocumentInv, Returned
  <2>3. RowKept /\ TimesType'
    <3>1. CASE WriteDoc("parse_queued")
      BY <2>1, <3>1, WriteKeeps DEF DocState, InProgress
    <3>2. CASE KeepDoc
      BY <2>1, <3>2, NoWriteKeeps DEF KeepDoc, times, DocumentInv, TimesType
    <3>3. QED
      BY <1>5, <3>1, <3>2 DEF RecordRetry
  <2>4. QED
    BY <2>1, <2>2, <2>3 DEF helpers, retry, DocumentInv, HelperType, RowKept
<1>6. QED
  BY <1>1, <1>2, <1>3, <1>4, <1>5 DEF HandlerStep

LEMMA CancelKeeps ==
    ASSUME DocumentInv, ReadForCancel \/ RequestParseCancel \/ CloseCancelled \/ MarkCancelled \/ CancelStops
    PROVE  DocumentInv'
<1>1. HelperType'
  BY DEF ReadForCancel, RequestParseCancel, CloseCancelled, MarkCancelled, CancelStops, retry, DocumentInv, HelperType
<1>2. CASE ReadForCancel
  BY <1>1, <1>2, StutterKeeps, NoWriteKeeps
     DEF ReadForCancel, document, times, DocumentInv, TimesType, RowKept
<1>3. CASE RequestParseCancel
  <2>1. PICK j \in JobIds : RequestCancel(j)
    BY <1>3 DEF RequestParseCancel
  <2>2. LeasedInv(Steps)'
    BY <2>1, RequestCancelKeeps DEF DocumentInv
  <2>3. QED
    BY <1>1, <1>3, <2>2, TouchedTyped, NoWriteKeeps DEF RequestParseCancel, document, DocumentInv, RowKept
<1>4. CASE CloseCancelled
  <2>1. LeasedInv(Steps)' /\ UNCHANGED chunks
    BY <1>4, StutterKeeps DEF CloseCancelled, DocumentInv
  <2>2. RowKept /\ TimesType'
    <3>1. CASE WriteDoc("parse_failed")
      BY <2>1, <3>1, WriteKeeps DEF DocState
    <3>2. CASE KeepDoc
      BY <2>1, <3>2, NoWriteKeeps DEF KeepDoc, times, DocumentInv, TimesType
    <3>3. QED
      BY <1>4, <3>1, <3>2 DEF CloseCancelled
  <2>3. QED
    BY <1>1, <2>1, <2>2 DEF DocumentInv, RowKept
<1>5. CASE MarkCancelled
  BY <1>1, <1>5, MarkFailedKeeps, FaultKeeps DEF MarkCancelled, DocumentInv, RowKept
<1>6. CASE CancelStops
  BY <1>1, <1>6, FaultKeeps, NoWriteKeeps DEF CancelStops, document, times, DocumentInv, TimesType, RowKept
<1>7. QED
  BY <1>2, <1>3, <1>4, <1>5, <1>6

LEMMA RetryKeeps ==
    ASSUME DocumentInv,
           \/ ReadForRetry \/ MoveToQueued \/ ScheduleRetry \/ RetryUnscheduled \/ MarkUnscheduled
           \/ RetryStops
    PROVE  DocumentInv'
<1>1. HelperType'
  BY DEF ReadForRetry, MoveToQueued, ScheduleRetry, RetryUnscheduled, MarkUnscheduled, RetryStops,
         DocumentInv, HelperType, DocState
<1>2. CASE ReadForRetry
  BY <1>1, <1>2, StutterKeeps, NoWriteKeeps DEF ReadForRetry, document, times, DocumentInv, TimesType, RowKept
<1>3. CASE MoveToQueued \/ RetryUnscheduled
  <2>1. LeasedInv(Steps)' /\ UNCHANGED chunks
    BY <1>3, StutterKeeps DEF MoveToQueued, RetryUnscheduled, DocumentInv
  <2>2. RowKept /\ TimesType'
    <3>1. ASSUME NEW s \in {"parse_failed", "parse_queued"}, WriteDoc(s) PROVE RowKept /\ TimesType'
      BY <2>1, <3>1, WriteKeeps DEF DocState, InProgress
    <3>2. CASE KeepDoc
      BY <2>1, <3>2, NoWriteKeeps DEF KeepDoc, times, DocumentInv, TimesType
    <3>3. QED
      BY <1>3, <3>1, <3>2 DEF MoveToQueued, RetryUnscheduled
  <2>3. QED
    BY <1>1, <2>1, <2>2 DEF DocumentInv, RowKept
<1>4. CASE ScheduleRetry
  <2>1. RowKept
    BY <1>4, NoWriteKeeps DEF ScheduleRetry, document
  <2>2. CASE (\E j \in JobIds : Enqueue(j)) /\ JobsTouched
    BY <1>1, <2>1, <2>2, EnqueueKeeps, TouchedTyped DEF DocumentInv, RowKept
  <2>3. CASE Fault /\ UNCHANGED <<jobs, times>>
    BY <1>1, <2>1, <2>3, FaultKeeps DEF times, DocumentInv, TimesType, RowKept
  <2>4. QED
    BY <1>4, <2>2, <2>3 DEF ScheduleRetry
<1>5. CASE MarkUnscheduled
  BY <1>1, <1>5, MarkFailedKeeps, FaultKeeps DEF MarkUnscheduled, DocumentInv, RowKept
<1>6. CASE RetryStops
  BY <1>1, <1>6, FaultKeeps, NoWriteKeeps DEF RetryStops, document, times, DocumentInv, TimesType, RowKept
<1>7. QED
  BY <1>2, <1>3, <1>4, <1>5, <1>6

LEMMA ReconcilerKeeps ==
    ASSUME DocumentInv, FindAbandoned \/ CloseAbandoned \/ ReconcilerStops PROVE DocumentInv'
<1>1. HelperType' /\ TimesType'
  BY DEF FindAbandoned, CloseAbandoned, ReconcilerStops, retry, DocumentInv, HelperType, TimesType
<1>2. LeasedInv(Steps)'
  BY StutterKeeps, FaultKeeps DEF FindAbandoned, CloseAbandoned, ReconcilerStops, DocumentInv
<1>3. UNCHANGED chunks /\ doc' \in {doc, "parse_failed"}
  BY DEF FindAbandoned, CloseAbandoned, ReconcilerStops, document
<1>4. QED
  BY <1>1, <1>2, <1>3 DEF DocumentInv, RowType, DocState, ShownDocumentHasChunks

LEMMA DocumentStep == DocumentInv /\ [DocumentNext]_vars => DocumentInv'
<1> SUFFICES ASSUME DocumentInv, [DocumentNext]_vars PROVE DocumentInv'
  OBVIOUS
<1>1. CASE UNCHANGED vars
  <2>1. LeasedInv(Steps)'
    BY <1>1, StutterKeeps DEF vars, DocumentInv
  <2>2. QED
    BY <1>1, <2>1 DEF vars, documentVars, document, times, helpers, retry, DocumentInv, HelperType, RowType,
                      TimesType, ShownDocumentHasChunks
<1>2. CASE RuntimeStep /\ JobsTouched /\ UNCHANGED <<document, helpers>>
  <2>1. LeasedInv(Steps)'
    BY <1>2, RuntimeKeeps, NoReschedule DEF DocumentInv
  <2>2. QED
    BY <1>2, <2>1, TouchedTyped DEF document, helpers, retry, DocumentInv, HelperType, RowType, ShownDocumentHasChunks
<1>3. QED
  BY <1>1, <1>2, CreateKeeps, HandlerKeeps, CancelKeeps, RetryKeeps, ReconcilerKeeps DEF DocumentNext

LEMMA DocumentInvariant == Spec => []DocumentInv
BY DocumentStart, DocumentStep, PTL DEF Spec
-----------------------------------------------------------------------------
(* The rows of the document and its jobs stay in their domains. *)
THEOREM DocumentTypeCorrect == Spec => []DocumentType
<1>1. DocumentInv => DocumentType
  BY DEF DocumentInv, LeasedInv, HelperType, RowType, TimesType, DocumentType
<1>2. QED
  BY <1>1, DocumentInvariant, PTL

(* What is shown as parsed has chunks, for any number of jobs and late runs. *)
THEOREM DocumentShownHasChunks == Spec => []ShownDocumentHasChunks
<1>1. DocumentInv => ShownDocumentHasChunks
  BY DEF DocumentInv
<1>2. QED
  BY <1>1, DocumentInvariant, PTL

(* The parse jobs move as JobLifecycle says. *)
THEOREM DocumentFollowsLifecycle == Spec => FollowsLifecycle
<1>1. Init => Lifecycle!Init
  BY LifecycleStart DEF Init
<1>2. DocumentInv /\ [DocumentNext]_vars => [Lifecycle!Next]_(Lifecycle!vars)
  <2> SUFFICES ASSUME DocumentInv, [DocumentNext]_vars PROVE LifecycleStep
    BY DEF LifecycleStep
  <2>1. ASSUME UNCHANGED jobRow PROVE LifecycleStep
    BY <2>1, NoJobStep
  <2>2. CASE UNCHANGED vars
    BY <2>1, <2>2 DEF vars, leased, jobs
  <2>3. CASE CreateDocument \/ ScheduleDocumentParse \/ TakeDocumentBack
    <3>1. 1 \in JobIds
      BY LeasedAssumption DEF JobIds
    <3>2. QED
      BY <2>1, <2>3, <3>1, EnqueueIsCreate
         DEF CreateDocument, ScheduleDocumentParse, TakeDocumentBack, leased, jobs, DocumentInv
  <2>4. ASSUME NEW r \in Runs, HandlerStep(r) \/ HandlerFails(r) PROVE LifecycleStep
    BY <2>1, <2>4 DEF HandlerStep, HandlerFails, LoadDocument, Checkpoint, PersistParsed, MarkParseFailed, RecordRetry,
                      Step, Slip
  <2>5. CASE ReadForCancel \/ RequestParseCancel \/ CloseCancelled \/ MarkCancelled \/ CancelStops
    BY <2>1, <2>5, RequestCancelIsWithdraw
       DEF ReadForCancel, RequestParseCancel, CloseCancelled, MarkCancelled, CancelStops, leased, jobs, DocumentInv
  <2>6. CASE ReadForRetry \/ MoveToQueued \/ ScheduleRetry \/ RetryUnscheduled \/ MarkUnscheduled \/ RetryStops
    BY <2>1, <2>6, EnqueueIsCreate
       DEF ReadForRetry, MoveToQueued, ScheduleRetry, RetryUnscheduled, MarkUnscheduled, RetryStops, leased, jobs,
           DocumentInv
  <2>7. CASE FindAbandoned \/ CloseAbandoned \/ ReconcilerStops
    BY <2>1, <2>7 DEF FindAbandoned, CloseAbandoned, ReconcilerStops, leased, jobs
  <2>8. CASE RuntimeStep
    BY <2>8, RuntimeFollows DEF DocumentInv
  <2>9. QED
    BY <2>2, <2>3, <2>4, <2>5, <2>6, <2>7, <2>8 DEF DocumentNext
<1>3. QED
  BY <1>1, <1>2, DocumentInvariant, PTL DEF Spec, FollowsLifecycle, Lifecycle!Spec
=============================================================================
