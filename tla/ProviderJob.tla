----------------------------- MODULE ProviderJob -----------------------------
(***************************************************************************)
(* One public image job of internal/platform/provider and the handler runs *)
(* that advance it.  Attempt k of the platform job that executes it is run *)
(* k of RuntimeHandler; a run that lost its lease may still be going when  *)
(* its successor starts.  Each action is one transaction on provider_jobs, *)
(* one call of the model provider or one call of the Assets intake, and a  *)
(* run may stop between any two of them.                                   *)
(*                                                                         *)
(* Abstractions.  The version column of provider_jobs is modelled by       *)
(* fresh[k]: the row is still the one run k read or wrote last.  A fresh   *)
(* copy equals the row, so only what a run changes in memory over several  *)
(* calls, the outputs of ProcessImageJob, is kept apart (view).  The       *)
(* platform job is reduced to what JobLifecycle allows it, and an intake   *)
(* to its status and the request it was created with.                      *)
(***************************************************************************)
EXTENDS Naturals

CONSTANTS MaxAttempts,   \* max_attempts of the platform job
          OutputCount,   \* outputs the model provider returns
          Routed         \* the job has a route: the adapter gateway submits it

ASSUME ProviderAssumption ==
    /\ MaxAttempts \in Nat \ {0}
    /\ OutputCount \in Nat \ {0}
    /\ Routed \in BOOLEAN

Attempts == 1..MaxAttempts
Outputs  == 1..OutputCount

VARIABLES
    job,         \* the row of provider_jobs and its provider_outputs
    execution,   \* status of the platform job
    attempt,     \* its attempt_count
    intake,      \* status of the generated intake of an output
    intakeFrom,  \* the run whose generated_at its request carries; 0: none yet
    sent,        \* calls of ImageAdapter.Submit
    pc, fresh, view, at   \* the runs: next step, copy of the row is current,
                          \* outputs in memory, index of the intake loop

platform == <<execution, attempt>>
assets   == <<intake, intakeFrom>>
vars     == <<job, platform, assets, sent, pc, fresh, view, at>>

Terminal    == {"succeeded", "partially_succeeded", "failed"}
Ended       == {"succeeded", "failed"}
OutputState == {"none", "ready", "ingesting", "succeeded", "failed"}
Results     == {"ok", "deferred", "rejected"}
PCs         == {"off", "claimed", "recording", "executing", "submitting", "sending",
                "unanswered", "refused", "accepted", "polling", "stillRunning",
                "providerFailed", "delivered", "processing", "handing",
                "rejecting", "failing"} \cup Results

JobRow ==
    [provider   : {"absent", "submitted", "running", "outputs_ready", "ingesting"} \cup Terminal,
     submission : {"not_started", "in_flight", "completed", "unknown"},
     outputs    : [Outputs -> OutputState],
     recorded   : 0..MaxAttempts]

TypeOK ==
    /\ job \in JobRow
    /\ execution \in {"absent", "queued", "running"} \cup Ended
    /\ attempt \in 0..MaxAttempts
    /\ intake \in [Outputs -> {"absent", "queued", "succeeded", "failed"}]
    /\ intakeFrom \in [Outputs -> 0..MaxAttempts]
    /\ sent \in Nat
    /\ pc \in [Attempts -> PCs]
    /\ fresh \in [Attempts -> BOOLEAN]
    /\ view \in [Attempts -> [Outputs -> OutputState]]
    /\ at \in [Attempts -> 1..OutputCount + 1]

NoOutputs == [o \in Outputs |-> "none"]

Init ==
    /\ job = [provider |-> "absent", submission |-> "not_started",
              outputs |-> NoOutputs, recorded |-> 0]
    /\ execution = "absent"
    /\ attempt = 0
    /\ intake = [o \in Outputs |-> "absent"]
    /\ intakeFrom = [o \in Outputs |-> 0]
    /\ sent = 0
    /\ pc = [k \in Attempts |-> "off"]
    /\ fresh = [k \in Attempts |-> FALSE]
    /\ view = [k \in Attempts |-> NoOutputs]
    /\ at = [k \in Attempts |-> 1]
-----------------------------------------------------------------------------
(* Pieces of the steps. *)

Pending(s) == s \in {"ready", "ingesting"}

(* finalizeImageJob: the public status follows from the outputs. *)
Verdict(outs) ==
    LET done == {o \in Outputs : outs[o] = "succeeded"}
    IN IF done = Outputs THEN "succeeded"
       ELSE IF done # {} THEN "partially_succeeded" ELSE "failed"

(* Mutation of FailPending: an output that is being ingested is left as it is. *)
FailReady(outs) == [o \in Outputs |-> IF outs[o] = "ready" THEN "failed" ELSE outs[o]]

(* What FailImageJob and FailImageJobAfterExecutionExhausted do to outputs. *)
FailPending(outs) == [o \in Outputs |-> IF Pending(outs[o]) THEN "failed" ELSE outs[o]]

Go(k, label) == pc' = [pc EXCEPT ![k] = label]

(* MySQLStore.Get, then the step the copy calls for. *)
Load(k, label) == fresh' = [fresh EXCEPT ![k] = TRUE] /\ Go(k, label)

(* Mutation of Update: the version is not compared. *)
UpdateAnyVersion(k, row, done, lost) ==
    /\ job' = row
    /\ Go(k, done)
    /\ UNCHANGED <<platform, assets, sent, fresh, view, at>>

(* MySQLStore.Update: WHERE ... AND version = ?, outputs and event in the same
   transaction.  The commit may land although its answer is lost. *)
Update(k, row, done, lost) ==
    /\ \/ /\ fresh[k]
          /\ job' = row
          /\ fresh' = [r \in Attempts |-> r = k]
          /\ \E label \in {done, lost} : Go(k, label)
       \/ UNCHANGED <<job, fresh>> /\ Go(k, lost)
    /\ UNCHANGED <<platform, assets, sent, view, at>>

Rest(k) ==
    /\ Go(k, "off")
    /\ fresh' = [fresh EXCEPT ![k] = FALSE]
    /\ view' = [view EXCEPT ![k] = NoOutputs]
    /\ at' = [at EXCEPT ![k] = 1]
-----------------------------------------------------------------------------
(* The caller and the platform job. *)

(* CreateImageJob stores the job ... *)
CreateImageJob ==
    /\ job.provider = "absent"
    /\ job' = [job EXCEPT !.provider = "submitted"]
    /\ UNCHANGED <<platform, assets, sent, pc, fresh, view, at>>

(* ... and enqueues its execution; a failure in between is made good by the
   caller's next try, under a key derived from the job. *)
Schedule ==
    /\ job.provider # "absent" /\ execution = "absent"
    /\ execution' = "queued"
    /\ UNCHANGED <<job, attempt, assets, sent, pc, fresh, view, at>>

Claim ==
    /\ execution = "queued"
    /\ execution' = "running"
    /\ attempt' = attempt + 1
    /\ Go(attempt + 1, "claimed")
    /\ UNCHANGED <<job, assets, sent, fresh, view, at>>

(* Mutations of Recover: no budget; no way out of the last attempt. *)
RecoverAlways ==
    /\ execution = "running"
    /\ execution' = "queued"
    /\ UNCHANGED <<job, attempt, assets, sent, pc, fresh, view, at>>
RecoverWithBudget ==
    /\ execution = "running" /\ attempt < MaxAttempts
    /\ execution' = "queued"
    /\ UNCHANGED <<job, attempt, assets, sent, pc, fresh, view, at>>

(* The lease of the current attempt runs out, whether its run is dead or slow. *)
Recover ==
    /\ execution = "running"
    /\ execution' = IF attempt < MaxAttempts THEN "queued" ELSE "failed"
    /\ UNCHANGED <<job, attempt, assets, sent, pc, fresh, view, at>>

(* The runner of the current attempt writes what its handler returned; a
   deferral is refused on the last attempt.  Other runs are shut out. *)
Settle(k) ==
    /\ pc[k] \in Results
    /\ Rest(k)
    /\ execution' = IF execution # "running" \/ attempt # k THEN execution
                    ELSE IF pc[k] = "ok" THEN "succeeded"
                    ELSE IF pc[k] = "deferred" /\ k < MaxAttempts THEN "queued"
                    ELSE "failed"
    /\ UNCHANGED <<job, attempt, assets, sent>>

(* The process stops, or the context of a run without its lease is cancelled. *)
Crash(k) ==
    /\ pc[k] # "off"
    /\ Rest(k)
    /\ UNCHANGED <<job, platform, assets, sent>>

(* The intake worker of Assets ends an intake (module AssetIntake). *)
IntakeEnds(o) ==
    /\ intake[o] = "queued"
    /\ \E s \in {"succeeded", "failed"} : intake' = [intake EXCEPT ![o] = s]
    /\ UNCHANGED <<job, platform, intakeFrom, sent, pc, fresh, view, at>>
-----------------------------------------------------------------------------
(* RuntimeHandler. *)

(* Any error but a non-retryable ExecutionError: the handler defers.  It comes
   from a query, from media sources, from Prepare, Poll or the intake client. *)
OrdinaryError(k) ==
    /\ pc[k] \in {"claimed", "executing", "submitting", "polling", "processing", "handing"}
    /\ Go(k, "deferred")
    /\ UNCHANGED <<job, platform, assets, sent, fresh, view, at>>

(* The last attempt only finalizes. *)
AfterRecord(k) == IF k < MaxAttempts THEN "executing" ELSE "rejecting"

(* RecordImageExecutionAttempt *)
LoadForRecord(k) ==
    /\ pc[k] = "claimed"
    /\ Load(k, IF job.provider \in Terminal \/ job.recorded = k THEN AfterRecord(k)
               ELSE "recording")
    /\ UNCHANGED <<job, platform, assets, sent, view, at>>

RecordAttempt(k) ==
    /\ pc[k] = "recording"
    /\ Update(k, [job EXCEPT !.recorded = k], AfterRecord(k), "deferred")

(* ExecuteImageJob, up to its switch; submitImageJob, up to its own. *)
Execute(k) ==
    /\ pc[k] = "executing"
    /\ Load(k, IF job.provider \in Terminal THEN "ok"
               ELSE IF job.provider = "running" THEN "polling"
               ELSE IF job.provider # "submitted" THEN "processing"
               ELSE IF ~Routed THEN "sending"
               ELSE IF job.submission = "not_started" THEN "submitting"
               ELSE "rejecting")
    /\ UNCHANGED <<job, platform, assets, sent, view, at>>

(* Mutation of MarkInFlight: the submission is recorded only afterwards. *)
SubmitUnmarked(k) ==
    /\ pc[k] = "submitting"
    /\ Go(k, "sending")
    /\ UNCHANGED <<job, platform, assets, sent, fresh, view, at>>

(* submitImageJob: the submission is recorded before it is made. *)
MarkInFlight(k) ==
    /\ pc[k] = "submitting"
    /\ Update(k, [job EXCEPT !.submission = "in_flight"], "sending", "deferred")

(* ImageSubmissionPreparer.Prepare refuses for good. *)
PrepareRefuses(k) ==
    /\ pc[k] = "submitting"
    /\ Go(k, "rejecting")
    /\ UNCHANGED <<job, platform, assets, sent, fresh, view, at>>

(* ImageAdapter.Submit: a task, its outputs, an error that may be retried or
   not, or an answer that does not validate. *)
Submit(k) ==
    /\ pc[k] = "sending"
    /\ sent' = sent + 1
    /\ \E answer \in {"accepted", "delivered", "deferred"}
                       \cup (IF Routed THEN {"unanswered", "refused"} ELSE {"rejecting"}) :
          Go(k, answer)
    /\ UNCHANGED <<job, platform, assets, fresh, view, at>>

RecordUnknown(k) ==
    /\ pc[k] \in {"unanswered", "refused"}
    /\ Update(k, [job EXCEPT !.submission = "unknown"],
              IF pc[k] = "refused" THEN "rejecting" ELSE "deferred", "deferred")

Completed == IF Routed THEN "completed" ELSE job.submission

RecordAccepted(k) ==
    /\ pc[k] = "accepted"
    /\ Update(k, [job EXCEPT !.provider = "running", !.submission = Completed],
              "deferred", "deferred")

(* Outputs in hand, from Submit or from Poll. *)
RecordDelivered(k) ==
    /\ pc[k] = "delivered"
    /\ Update(k, [job EXCEPT !.provider = "outputs_ready", !.submission = Completed,
                             !.outputs = [o \in Outputs |-> "ready"]],
              "processing", "deferred")

(* pollImageJob *)
Poll(k) ==
    /\ pc[k] = "polling"
    /\ \E answer \in {"stillRunning", "delivered", "providerFailed", "rejecting"} : Go(k, answer)
    /\ UNCHANGED <<job, platform, assets, sent, fresh, view, at>>

RecordStillRunning(k) ==
    /\ pc[k] = "stillRunning"
    /\ Update(k, [job EXCEPT !.provider = "running"], "deferred", "deferred")

(* Mutation of RecordProviderFailed: a write that failed is reported as done. *)
ReportFailedAnyway(k) ==
    /\ pc[k] = "providerFailed"
    /\ Update(k, [job EXCEPT !.provider = "failed"], "ok", "ok")

RecordProviderFailed(k) ==
    /\ pc[k] = "providerFailed"
    /\ Update(k, [job EXCEPT !.provider = "failed"], "ok", "deferred")
-----------------------------------------------------------------------------
(* ProcessImageJob. *)

LoadForProcess(k) ==
    /\ pc[k] = "processing"
    /\ Load(k, IF job.provider \in Terminal THEN "ok"
               ELSE IF job.provider \in {"outputs_ready", "ingesting"} THEN "handing"
               ELSE "deferred")
    /\ view' = [view EXCEPT ![k] = job.outputs]
    /\ UNCHANGED <<job, platform, assets, sent, at>>

(* Mutations of Response: an accepted intake counts as an asset; the status of
   the intake is taken as the status of the output. *)
ResponseTrusted(s) == IF s = "queued" THEN "succeeded" ELSE s
ResponseVerbatim(s) == s

(* applyIntakeResponse *)
Response(s) == IF s = "queued" THEN "ingesting" ELSE s

Apply(k, s) ==
    /\ view' = [view EXCEPT ![k][at[k]] = Response(s)]
    /\ at' = [at EXCEPT ![k] = @ + 1]

(* GeneratedIntakeService.Create under the key of the output: the request hash
   covers generated_at, the time of this call of ProcessImageJob, so that the
   intake of another run is an idempotency conflict. *)
CreateIntake(k) ==
    /\ pc[k] = "handing" /\ at[k] \in Outputs /\ view[k][at[k]] = "ready"
    /\ IF intakeFrom[at[k]] \in {0, k}
         THEN /\ intake' = [intake EXCEPT ![at[k]] = IF @ = "absent" THEN "queued" ELSE @]
              /\ intakeFrom' = [intakeFrom EXCEPT ![at[k]] = k]
              /\ Apply(k, intake'[at[k]])
              /\ UNCHANGED pc
         ELSE Go(k, "deferred") /\ UNCHANGED <<assets, view, at>>
    /\ UNCHANGED <<job, platform, sent, fresh>>

GetIntake(k) ==
    /\ pc[k] = "handing" /\ at[k] \in Outputs /\ view[k][at[k]] # "ready"
    /\ IF view[k][at[k]] = "ingesting"
         THEN Apply(k, intake[at[k]])
         ELSE at' = [at EXCEPT ![k] = @ + 1] /\ UNCHANGED view
    /\ UNCHANGED <<job, platform, assets, sent, pc, fresh>>

Finalize(k) ==
    /\ pc[k] = "handing" /\ at[k] = OutputCount + 1
    /\ IF \E o \in Outputs : Pending(view[k][o])
         THEN Update(k, [job EXCEPT !.provider = "ingesting", !.outputs = view[k]],
                     "deferred", "deferred")
         ELSE Update(k, [job EXCEPT !.provider = Verdict(view[k]), !.outputs = view[k]],
                     "ok", "deferred")
-----------------------------------------------------------------------------
(* FailImageJob after an error that must not be retried, and
   FailImageJobAfterExecutionExhausted on the last attempt. *)

LoadToFail(k) ==
    /\ pc[k] = "rejecting"
    /\ \/ Load(k, IF job.provider \in Terminal THEN "rejected" ELSE "failing")
       \/ Go(k, "rejected") /\ UNCHANGED fresh
    /\ UNCHANGED <<job, platform, assets, sent, view, at>>

FailImageJob(k) ==
    /\ pc[k] = "failing"
    /\ Update(k, [job EXCEPT !.provider = Verdict(FailPending(job.outputs)),
                             !.outputs = FailPending(job.outputs)],
              "rejected", "rejected")

Run(k) ==
    \/ LoadForRecord(k)
    \/ RecordAttempt(k)
    \/ Execute(k)
    \/ MarkInFlight(k)
    \/ PrepareRefuses(k)
    \/ Submit(k)
    \/ RecordUnknown(k)
    \/ RecordAccepted(k)
    \/ RecordDelivered(k)
    \/ Poll(k)
    \/ RecordStillRunning(k)
    \/ RecordProviderFailed(k)
    \/ LoadForProcess(k)
    \/ CreateIntake(k)
    \/ GetIntake(k)
    \/ Finalize(k)
    \/ LoadToFail(k)
    \/ FailImageJob(k)
    \/ OrdinaryError(k)
    \/ Settle(k)

Next ==
    \/ CreateImageJob
    \/ Schedule
    \/ Claim
    \/ Recover
    \/ \E k \in Attempts : Run(k) \/ Crash(k)
    \/ \E o \in Outputs : IntakeEnds(o)

Spec == Init /\ [][Next]_vars

(* Runners claim and handlers run (JobRuntime); the intake worker works. *)
Fairness ==
    /\ WF_vars(Claim)
    /\ WF_vars(Recover)
    /\ \A k \in Attempts : WF_vars(Run(k))
    /\ \A o \in Outputs : WF_vars(IntakeEnds(o))

FairSpec == Spec /\ Fairness
-----------------------------------------------------------------------------
(* Properties. *)

(* A routed job is submitted to the adapter gateway at most once, however many
   runs, stale or crashed, come by: the gateway offers no way to tell whether
   an unanswered submission was accepted. *)
AtMostOneSubmission == Routed => sent <= 1

(* A terminal public job never changes again, status and outputs: a run that
   read the job before it ended cannot overwrite the verdict. *)
TerminalIsFinal == [][job.provider \in Terminal => job'.provider = job.provider
                                                     /\ job'.outputs = job.outputs]_vars

(* A job that ended has no pending output, and its public status is what the
   outputs say: succeeded only if every output became an asset. *)
VerdictIsTruthful ==
    job.provider \in Terminal => /\ \A o \in Outputs : ~Pending(job.outputs[o])
                                 /\ job.provider = Verdict(job.outputs)

(* The outputs agree with Assets: an output counts as succeeded only when its
   intake did, and an intake exists only for an output that was persisted. *)
HandoffAgrees ==
    \A o \in Outputs :
        /\ job.outputs[o] = "succeeded" => intake[o] = "succeeded"
        /\ job.outputs[o] = "ingesting" => intake[o] # "absent"
        /\ intake[o] # "absent" => job.outputs[o] # "none"

(* A platform job that succeeded left the public job in a terminal state. *)
SuccessMeansTerminal == execution = "succeeded" => job.provider \in Terminal

(* The execution of the job is used as JobLifecycle allows. *)
Platform == INSTANCE JobLifecycle
              WITH Jobs <- {"job"}, MaxAttempts <- [j \in {"job"} |-> MaxAttempts],
                   status <- [j \in {"job"} |-> execution],
                   attempts <- [j \in {"job"} |-> attempt]
FollowsLifecycle == Platform!Spec

(* ... and so are the intakes of Assets, as module IntakeLifecycle promises them. *)
Assets == INSTANCE IntakeLifecycle WITH Intakes <- Outputs
FollowsIntakes == Assets!Spec

(* Every scheduled execution comes to an end, whatever crashes and lease
   losses it meets. *)
ExecutionEnds == execution = "queued" ~> execution \in Ended

(* FailImageJobAfterExecutionExhausted: it moves the public job to a terminal
   state when its shared runtime has exhausted its attempts. *)
PublicJobEnds ==
    execution \in Ended /\ (\A k \in Attempts : pc[k] = "off") => job.provider \in Terminal

(* The same comment: an output that is already ingested is retained. *)
IngestedIsRetained ==
    [][\A o \in Outputs : intake[o] = "succeeded" /\ Pending(job.outputs[o])
                            => job'.outputs[o] # "failed"]_vars
=============================================================================
