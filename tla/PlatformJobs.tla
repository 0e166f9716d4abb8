---------------------------- MODULE PlatformJobs ----------------------------
(***************************************************************************)
(* The domains whose handlers work under JobRuntime, over the jobs of      *)
(* LeasedJob: the visual fallback of a document, its parsing, and agent    *)
(* tasks.  Worker.RunOnce picks the handler by the kind of the job, and no *)
(* two kinds share a row, so that one kind is at work in a behaviour.  The *)
(* instances are of the modules with the lemmas of each domain.            *)
(***************************************************************************)
EXTENDS DocumentVision

CONSTANT Dispatchers, Kinds

VARIABLES kind,                                        \* the kind of job of this behaviour
          agentTask, linked, dispatch, dpc, client,    \* AgentTask
          doc, chunks, docAfter, docCanceller, retrier, docReconciler, seen, fresh
                                                       \* KnowledgeDocument

Agent    == INSTANCE AgentTaskProofs WITH task <- agentTask
Document == INSTANCE KnowledgeDocumentProofs
                WITH after <- docAfter, canceller <- docCanceller, reconciler <- docReconciler

agentRows    == <<agentTask, linked, dispatch, dpc, client>>
documentRows == <<doc, chunks, docAfter, docCanceller, retrier, docReconciler, seen, fresh>>
all          == <<leased, kind, agentRows, documentRows, visionVars>>

PlatformInit == kind \in Kinds /\ Init /\ Agent!Init /\ Document!Init

AgentMoves    == kind = "agent" /\ Agent!AgentNext /\ UNCHANGED <<kind, documentRows, visionVars>>
DocumentMoves == kind = "document" /\ Document!DocumentNext /\ UNCHANGED <<kind, agentRows, visionVars>>
VisionMoves   == kind = "vision" /\ VisionNext /\ UNCHANGED <<kind, agentRows, documentRows>>

PlatformNext == AgentMoves \/ DocumentMoves \/ VisionMoves

(* The fairness of KnowledgeDocument. *)
PlatformFairness ==
    /\ WF_all(kind = "document" /\ Document!FindAbandoned /\ UNCHANGED <<kind, agentRows, visionVars>>)
    /\ SF_all(kind = "document" /\ Document!CloseAbandoned /\ UNCHANGED <<kind, agentRows, visionVars>>)

PlatformSpec == PlatformInit /\ [][PlatformNext]_all /\ PlatformFairness
-----------------------------------------------------------------------------
(* Properties. *)

(* The rows of the job and of its domain stay in their domains. *)
TypeOK ==
    /\ kind = "agent" => Agent!AgentType
    /\ kind = "document" => Document!DocumentType
    /\ kind = "vision" => VisionType

(* AgentTask: RuntimeHandler reports success of the job only for a task that is
   recorded as succeeded, whatever runs, dispatchers and cancellations race. *)
JobSuccessIsRecorded == kind = "agent" => Agent!JobSuccessIsRecorded

(* AgentTask: runs, dispatchers and a client write the task; it ends once. *)
TaskEndsOnce == [][(agentTask \in Agent!EndedTask) => (agentTask' = agentTask)]_all

(* KnowledgeDocument: a document is shown as ready or partial only with chunks,
   whatever late runs, cancellations and failed retries write over it. *)
ShownDocumentHasChunks == kind = "document" => Document!ShownDocumentHasChunks

(* KnowledgeDocument: JobStateReconciler gives up what nobody works on. *)
AbandonedIsClosed == Document!AbandonedIsClosed
=============================================================================
