-------------------------- MODULE ProviderJobProofs --------------------------
(* Theorems about the public provider job, for any number of attempts and
   outputs, routed or not. *)
EXTENDS ProviderJob, TLAPS

LEMMA TypeUpdate ==
    ASSUME TypeOK, NEW k \in Attempts, NEW r \in JobRow, NEW done \in PCs, NEW lost \in PCs,
           Update(k, r, done, lost)
    PROVE  TypeOK'
<1>1. job' \in JobRow
  BY DEF Update, TypeOK
<1>2. fresh' \in [Attempts -> BOOLEAN]
  BY DEF Update, TypeOK
<1>3. pc' \in [Attempts -> PCs]
  BY DEF Update, Go, TypeOK
<1>4. QED
  BY <1>1, <1>2, <1>3 DEF Update, platform, assets, TypeOK

(* A step that only moves the run, reading the row or not. *)
LEMMA TypeMove ==
    ASSUME TypeOK, NEW k \in Attempts, NEW l \in PCs,
           Go(k, l), fresh' = fresh \/ fresh' = [fresh EXCEPT ![k] = TRUE],
           view' \in [Attempts -> [Outputs -> OutputState]], at' \in [Attempts -> 1..OutputCount + 1],
           sent' \in Nat, UNCHANGED <<job, platform, assets>>
    PROVE  TypeOK'
<1>1. fresh' \in [Attempts -> BOOLEAN]
  BY DEF TypeOK
<1>2. pc' \in [Attempts -> PCs]
  BY DEF Go, TypeOK
<1>3. QED
  BY <1>1, <1>2 DEF platform, assets, TypeOK

LEMMA TypeRest ==
    ASSUME TypeOK, NEW k \in Attempts, Rest(k)
    PROVE  /\ pc' \in [Attempts -> PCs]
           /\ fresh' \in [Attempts -> BOOLEAN]
           /\ view' \in [Attempts -> [Outputs -> OutputState]]
           /\ at' \in [Attempts -> 1..OutputCount + 1]
<1>1. 1 \in 1..OutputCount + 1 /\ NoOutputs \in [Outputs -> OutputState]
  BY ProviderAssumption DEF NoOutputs, OutputState
<1>2. pc' \in [Attempts -> PCs]
  BY DEF Rest, Go, TypeOK, PCs
<1>3. fresh' \in [Attempts -> BOOLEAN]
  BY DEF Rest, TypeOK
<1>4. QED
  BY <1>1, <1>2, <1>3 DEF Rest, TypeOK

LEMMA VerdictIsTerminal == \A outs : Verdict(outs) \in Terminal
BY DEF Verdict, Terminal

LEMMA FailPendingType ==
    ASSUME NEW outs \in [Outputs -> OutputState] PROVE FailPending(outs) \in [Outputs -> OutputState]
BY DEF FailPending, OutputState

LEMMA TypePlatform ==
    ASSUME TypeOK, CreateImageJob \/ Schedule \/ Recover PROVE TypeOK'
<1>1. CASE CreateImageJob
  BY <1>1 DEF CreateImageJob, platform, assets, TypeOK, JobRow
<1>2. CASE Schedule \/ Recover
  BY <1>2 DEF Schedule, Recover, assets, TypeOK, Ended
<1>3. QED
  BY <1>1, <1>2

(* The actions, by what they do to the row and to the run. *)
Moves(k) ==
    \/ LoadForRecord(k) \/ Execute(k) \/ PrepareRefuses(k) \/ Submit(k) \/ Poll(k)
    \/ OrdinaryError(k) \/ LoadToFail(k)
Records(k) ==
    \/ RecordAttempt(k) \/ MarkInFlight(k) \/ RecordUnknown(k) \/ RecordAccepted(k)
    \/ RecordDelivered(k) \/ RecordStillRunning(k) \/ RecordProviderFailed(k)
Verdicts(k) == Finalize(k) \/ FailImageJob(k)
Intakes(k)  == CreateIntake(k) \/ GetIntake(k)
Rests(k)    == Settle(k) \/ Crash(k)
Outside ==
    \/ CreateImageJob \/ Schedule \/ Claim \/ Recover
    \/ \E o \in Outputs : IntakeEnds(o)

Keeps(r) == r.provider = job.provider /\ r.outputs = job.outputs

(* Every write of the row: where the run is, what it writes, where it goes. *)
Writes(k, r, done, lost) ==
    \/ /\ pc[k] = "recording" /\ Keeps(r) /\ r.submission = job.submission
       /\ done \in {"executing", "rejecting"} /\ lost = "deferred"
    \/ /\ pc[k] = "submitting" /\ Keeps(r) /\ r.submission = "in_flight"
       /\ done = "sending" /\ lost = "deferred"
    \/ /\ pc[k] \in {"unanswered", "refused"} /\ Keeps(r) /\ r.submission = "unknown"
       /\ done \in {"rejecting", "deferred"} /\ lost = "deferred"
    \/ /\ pc[k] = "accepted" /\ r.provider = "running" /\ r.outputs = job.outputs
       /\ r.submission = Completed /\ done = "deferred" /\ lost = "deferred"
    \/ /\ pc[k] = "delivered" /\ r.provider = "outputs_ready"
       /\ r.outputs = [o \in Outputs |-> "ready"]
       /\ r.submission = Completed /\ done = "processing" /\ lost = "deferred"
    \/ /\ pc[k] = "stillRunning" /\ r.provider = "running" /\ r.outputs = job.outputs
       /\ r.submission = job.submission /\ done = "deferred" /\ lost = "deferred"
    \/ /\ pc[k] = "providerFailed" /\ r.provider = "failed" /\ r.outputs = job.outputs
       /\ r.submission = job.submission /\ done = "ok" /\ lost = "deferred"
    \/ /\ pc[k] = "handing" /\ r.provider = "ingesting" /\ r.outputs = view[k]
       /\ r.submission = job.submission /\ done = "deferred" /\ lost = "deferred"
    \/ /\ pc[k] = "handing" /\ r.provider = Verdict(view[k]) /\ r.outputs = view[k]
       /\ \A o \in Outputs : ~Pending(view[k][o])
       /\ r.submission = job.submission /\ done = "ok" /\ lost = "deferred"
    \/ /\ pc[k] = "failing" /\ r.outputs = FailPending(job.outputs)
       /\ r.provider = Verdict(FailPending(job.outputs))
       /\ r.submission = job.submission /\ done = "rejected" /\ lost = "rejected"

LEMMA WritesOfRow ==
    ASSUME TypeOK, NEW k \in Attempts, Records(k) \/ Verdicts(k)
    PROVE  \E r \in JobRow, done \in PCs, lost \in PCs :
              Update(k, r, done, lost) /\ Writes(k, r, done, lost)
<1> USE DEF PCs, Results
<1>0. job \in JobRow /\ view[k] \in [Outputs -> OutputState]
  BY DEF TypeOK
<1>1. CASE RecordAttempt(k)
  <2> DEFINE r == [job EXCEPT !.recorded = k]
  <2>1. k \in 0..MaxAttempts /\ AfterRecord(k) \in {"executing", "rejecting"}
    BY ProviderAssumption DEF Attempts, AfterRecord
  <2>2. r \in JobRow /\ Keeps(r) /\ r.submission = job.submission
    BY <1>0, <2>1 DEF JobRow, Keeps
  <2>3. Update(k, r, AfterRecord(k), "deferred") /\ pc[k] = "recording"
    BY <1>1 DEF RecordAttempt
  <2> HIDE DEF r
  <2>4. Writes(k, r, AfterRecord(k), "deferred")
    BY <2>1, <2>2, <2>3 DEF Writes
  <2>5. QED
    BY <2>1, <2>2, <2>3, <2>4
<1>2. CASE MarkInFlight(k)
  <2> DEFINE r == [job EXCEPT !.submission = "in_flight"]
  <2>2. r \in JobRow /\ Keeps(r) /\ r.submission = "in_flight"
    BY <1>0 DEF JobRow, Keeps
  <2>3. Update(k, r, "sending", "deferred") /\ pc[k] = "submitting"
    BY <1>2 DEF MarkInFlight
  <2> HIDE DEF r
  <2>4. Writes(k, r, "sending", "deferred")
    BY <2>2, <2>3 DEF Writes
  <2>5. QED
    BY <2>2, <2>3, <2>4
<1>3. CASE RecordUnknown(k)
  <2> DEFINE r == [job EXCEPT !.submission = "unknown"]
  <2>2. r \in JobRow /\ Keeps(r) /\ r.submission = "unknown"
    BY <1>0 DEF JobRow, Keeps
  <2>3. PICK l \in {"rejecting", "deferred"} : Update(k, r, l, "deferred")
    BY <1>3 DEF RecordUnknown
  <2>4. pc[k] \in {"unanswered", "refused"}
    BY <1>3 DEF RecordUnknown
  <2> HIDE DEF r
  <2>5. Writes(k, r, l, "deferred")
    BY <2>2, <2>4 DEF Writes
  <2>6. QED
    BY <2>2, <2>3, <2>5
<1>4. CASE RecordAccepted(k)
  <2> DEFINE r == [job EXCEPT !.provider = "running", !.submission = Completed]
  <2>2. /\ r \in JobRow /\ r.provider = "running" /\ r.outputs = job.outputs
        /\ r.submission = Completed
    BY <1>0 DEF JobRow, Completed
  <2>3. Update(k, r, "deferred", "deferred") /\ pc[k] = "accepted"
    BY <1>4 DEF RecordAccepted
  <2> HIDE DEF r
  <2>4. Writes(k, r, "deferred", "deferred")
    BY <2>2, <2>3 DEF Writes
  <2>5. QED
    BY <2>2, <2>3, <2>4
<1>5. CASE RecordDelivered(k)
  <2> DEFINE r == [job EXCEPT !.provider = "outputs_ready", !.submission = Completed,
                              !.outputs = [o \in Outputs |-> "ready"]]
  <2>2. /\ r \in JobRow /\ r.provider = "outputs_ready" /\ r.submission = Completed
        /\ r.outputs = [o \in Outputs |-> "ready"]
    BY <1>0 DEF JobRow, Completed, OutputState
  <2>3. Update(k, r, "processing", "deferred") /\ pc[k] = "delivered"
    BY <1>5 DEF RecordDelivered
  <2> HIDE DEF r
  <2>4. Writes(k, r, "processing", "deferred")
    BY <2>2, <2>3 DEF Writes
  <2>5. QED
    BY <2>2, <2>3, <2>4
<1>6. CASE RecordStillRunning(k)
  <2> DEFINE r == [job EXCEPT !.provider = "running"]
  <2>2. /\ r \in JobRow /\ r.provider = "running" /\ r.outputs = job.outputs
        /\ r.submission = job.submission
    BY <1>0 DEF JobRow, Terminal
  <2>3. Update(k, r, "deferred", "deferred") /\ pc[k] = "stillRunning"
    BY <1>6 DEF RecordStillRunning
  <2> HIDE DEF r
  <2>4. Writes(k, r, "deferred", "deferred")
    BY <2>2, <2>3 DEF Writes
  <2>5. QED
    BY <2>2, <2>3, <2>4
<1>7. CASE RecordProviderFailed(k)
  <2> DEFINE r == [job EXCEPT !.provider = "failed"]
  <2>2. /\ r \in JobRow /\ r.provider = "failed" /\ r.outputs = job.outputs
        /\ r.submission = job.submission
    BY <1>0 DEF JobRow, Terminal
  <2>3. Update(k, r, "ok", "deferred") /\ pc[k] = "providerFailed"
    BY <1>7 DEF RecordProviderFailed
  <2> HIDE DEF r
  <2>4. Writes(k, r, "ok", "deferred")
    BY <2>2, <2>3 DEF Writes
  <2>5. QED
    BY <2>2, <2>3, <2>4
<1>8. CASE FailImageJob(k)
  <2> DEFINE r == [job EXCEPT !.provider = Verdict(FailPending(job.outputs)),
                              !.outputs = FailPending(job.outputs)]
  <2>1. /\ FailPending(job.outputs) \in [Outputs -> OutputState]
        /\ Verdict(FailPending(job.outputs)) \in Terminal
    BY <1>0, FailPendingType, VerdictIsTerminal DEF JobRow
  <2>2. /\ r \in JobRow /\ r.submission = job.submission
        /\ r.outputs = FailPending(job.outputs)
        /\ r.provider = Verdict(FailPending(job.outputs))
    BY <1>0, <2>1 DEF JobRow
  <2>3. Update(k, r, "rejected", "rejected") /\ pc[k] = "failing"
    BY <1>8 DEF FailImageJob
  <2> HIDE DEF r
  <2>4. Writes(k, r, "rejected", "rejected")
    BY <2>2, <2>3 DEF Writes
  <2>5. QED
    BY <2>2, <2>3, <2>4
<1>9. CASE Finalize(k) /\ \E o \in Outputs : Pending(view[k][o])
  <2> DEFINE r == [job EXCEPT !.provider = "ingesting", !.outputs = view[k]]
  <2>1. Verdict(view[k]) \in Terminal
    BY VerdictIsTerminal
  <2>2. /\ r \in JobRow /\ r.submission = job.submission
        /\ r.outputs = view[k] /\ r.provider = "ingesting"
    BY <1>0, <2>1 DEF JobRow
  <2>3. Update(k, r, "deferred", "deferred") /\ pc[k] = "handing"
    BY <1>9 DEF Finalize
  <2> HIDE DEF r
  <2>4. Writes(k, r, "deferred", "deferred")
    BY <1>9, <2>2, <2>3 DEF Writes
  <2>5. QED
    BY <2>2, <2>3, <2>4
<1>10. CASE Finalize(k) /\ ~\E o \in Outputs : Pending(view[k][o])
  <2> DEFINE r == [job EXCEPT !.provider = Verdict(view[k]), !.outputs = view[k]]
  <2>1. Verdict(view[k]) \in Terminal
    BY VerdictIsTerminal
  <2>2. /\ r \in JobRow /\ r.submission = job.submission
        /\ r.outputs = view[k] /\ r.provider = Verdict(view[k])
    BY <1>0, <2>1 DEF JobRow
  <2>3. Update(k, r, "ok", "deferred") /\ pc[k] = "handing"
    BY <1>10 DEF Finalize
  <2> HIDE DEF r
  <2>4. Writes(k, r, "ok", "deferred")
    BY <1>10, <2>2, <2>3 DEF Writes
  <2>5. QED
    BY <2>2, <2>3, <2>4
<1>11. QED
  BY <1>1, <1>2, <1>3, <1>4, <1>5, <1>6, <1>7, <1>8, <1>9, <1>10 DEF Records, Verdicts

LEMMA TypeMoves ==
    ASSUME TypeOK, NEW k \in Attempts,
           LoadForRecord(k) \/ Execute(k) \/ PrepareRefuses(k) \/ Submit(k) \/ Poll(k)
           \/ LoadForProcess(k) \/ OrdinaryError(k) \/ LoadToFail(k)
    PROVE  TypeOK'
<1> USE DEF PCs, Results
<1>1. CASE LoadForRecord(k)
  <2>1. AfterRecord(k) \in PCs
    BY DEF AfterRecord
  <2>2. PICK l \in PCs : Load(k, l)
    BY <1>1, <2>1 DEF LoadForRecord
  <2>3. QED
    BY <1>1, <2>2, TypeMove DEF LoadForRecord, Load, TypeOK
<1>2. CASE Execute(k)
  <2>1. PICK l \in PCs : Load(k, l)
    BY <1>2 DEF Execute
  <2>2. QED
    BY <1>2, <2>1, TypeMove DEF Execute, Load, TypeOK
<1>3. CASE PrepareRefuses(k)
  BY <1>3, TypeMove DEF PrepareRefuses, TypeOK
<1>4. CASE Submit(k)
  <2>1. PICK l \in PCs : Go(k, l)
    BY <1>4 DEF Submit
  <2>2. sent' \in Nat
    BY <1>4 DEF Submit, TypeOK
  <2>3. QED
    BY <1>4, <2>1, <2>2, TypeMove DEF Submit, TypeOK
<1>5. CASE Poll(k)
  <2>1. PICK l \in PCs : Go(k, l)
    BY <1>5 DEF Poll
  <2>2. QED
    BY <1>5, <2>1, TypeMove DEF Poll, TypeOK
<1>6. CASE LoadForProcess(k)
  <2>1. PICK l \in PCs : Load(k, l)
    BY <1>6 DEF LoadForProcess
  <2>2. view' \in [Attempts -> [Outputs -> OutputState]]
    BY <1>6 DEF LoadForProcess, TypeOK, JobRow
  <2>3. QED
    BY <1>6, <2>1, <2>2, TypeMove DEF LoadForProcess, Load, TypeOK
<1>7. CASE OrdinaryError(k)
  BY <1>7, TypeMove DEF OrdinaryError, TypeOK
<1>8. CASE LoadToFail(k)
  <2>1. PICK l \in PCs : Load(k, l) \/ (Go(k, l) /\ UNCHANGED fresh)
    BY <1>8 DEF LoadToFail
  <2>2. QED
    BY <1>8, <2>1, TypeMove DEF LoadToFail, Load, TypeOK
<1>9. QED
  BY <1>1, <1>2, <1>3, <1>4, <1>5, <1>6, <1>7, <1>8

(* Applying the answer of an intake to the output the loop is at. *)
LEMMA TypeApply ==
    ASSUME TypeOK, NEW k \in Attempts, at[k] \in Outputs,
           NEW s \in {"absent", "queued", "succeeded", "failed"}, s # "absent", Apply(k, s)
    PROVE  /\ view' \in [Attempts -> [Outputs -> OutputState]]
           /\ at' \in [Attempts -> 1..OutputCount + 1]
<1>1. Response(s) \in OutputState
  BY DEF Response, OutputState
<1>2. [view[k] EXCEPT ![at[k]] = Response(s)] \in [Outputs -> OutputState]
  BY <1>1 DEF TypeOK
<1>3. at[k] + 1 \in 1..OutputCount + 1
  BY ProviderAssumption DEF Outputs
<1>4. QED
  BY <1>2, <1>3 DEF Apply, TypeOK

(* Why TypeOK is inductive: a queued execution has an attempt left, and the
   outputs, persisted or in the memory of a run, agree with the intakes. *)
QueuedHasBudget ==
    /\ execution = "absent" => attempt = 0
    /\ execution = "queued" => attempt < MaxAttempts

Backed(outs, its) ==
    \A o \in Outputs : /\ outs[o] = "succeeded" => its[o] = "succeeded"
                       /\ outs[o] = "ingesting" => its[o] # "absent"

Filled(outs) == \A o \in Outputs : outs[o] # "none"

OutputsAgree ==
    /\ Backed(job.outputs, intake)
    /\ \A k \in Attempts : Backed(view[k], intake)
    /\ \A k \in Attempts : pc[k] = "handing" => Filled(view[k]) /\ Filled(job.outputs)
    /\ job.provider \in {"outputs_ready", "ingesting"} => Filled(job.outputs)
    /\ \A o \in Outputs : intake[o] # "absent" => job.outputs[o] # "none"

TypeInv == TypeOK /\ QueuedHasBudget /\ OutputsAgree

LEMMA TypeIntakes ==
    ASSUME TypeInv, NEW k \in Attempts, CreateIntake(k) \/ GetIntake(k)
    PROVE  TypeOK'
<1> USE DEF TypeInv
<1>1. CASE CreateIntake(k) /\ intakeFrom[at[k]] \in {0, k}
  <2>1. at[k] \in Outputs
    BY <1>1 DEF CreateIntake
  <2>2. /\ intake' = [intake EXCEPT ![at[k]] = IF @ = "absent" THEN "queued" ELSE @]
        /\ intakeFrom' = [intakeFrom EXCEPT ![at[k]] = k]
        /\ Apply(k, intake'[at[k]])
        /\ UNCHANGED <<pc, job, platform, sent, fresh>>
    BY <1>1 DEF CreateIntake
  <2>3. k \in 0..MaxAttempts
    BY ProviderAssumption DEF Attempts
  <2>4. /\ intake' \in [Outputs -> {"absent", "queued", "succeeded", "failed"}]
        /\ intake'[at[k]] \in {"absent", "queued", "succeeded", "failed"} \ {"absent"}
    BY <2>1, <2>2 DEF TypeOK
  <2>5. intakeFrom' \in [Outputs -> 0..MaxAttempts]
    BY <2>2, <2>3 DEF TypeOK
  <2>6. /\ view' \in [Attempts -> [Outputs -> OutputState]]
        /\ at' \in [Attempts -> 1..OutputCount + 1]
    BY <2>1, <2>2, <2>4, TypeApply
  <2>7. QED
    BY <2>2, <2>4, <2>5, <2>6 DEF TypeOK, platform
<1>2. CASE CreateIntake(k) /\ intakeFrom[at[k]] \notin {0, k}
  <2>1. Go(k, "deferred") /\ UNCHANGED <<job, platform, assets, sent, fresh, view, at>>
    BY <1>2 DEF CreateIntake
  <2>2. QED
    BY <2>1, TypeMove DEF TypeOK, PCs, Results
<1>3. CASE GetIntake(k) /\ view[k][at[k]] = "ingesting"
  <2>1. /\ at[k] \in Outputs
        /\ Apply(k, intake[at[k]])
        /\ UNCHANGED <<job, platform, assets, sent, pc, fresh>>
    BY <1>3 DEF GetIntake
  <2>2. intake[at[k]] # "absent"
    BY <1>3, <2>1 DEF OutputsAgree, Backed
  <2>3. intake[at[k]] \in {"absent", "queued", "succeeded", "failed"}
    BY <2>1 DEF TypeOK
  <2>4. /\ view' \in [Attempts -> [Outputs -> OutputState]]
        /\ at' \in [Attempts -> 1..OutputCount + 1]
    BY <2>1, <2>2, <2>3, TypeApply
  <2>5. QED
    BY <2>1, <2>4 DEF TypeOK, platform, assets
<1>4. CASE GetIntake(k) /\ view[k][at[k]] # "ingesting"
  <2>1. at[k] + 1 \in 1..OutputCount + 1
    BY <1>4, ProviderAssumption DEF GetIntake, Outputs
  <2>2. at' \in [Attempts -> 1..OutputCount + 1]
    BY <1>4, <2>1 DEF GetIntake, TypeOK
  <2>3. QED
    BY <1>4, <2>2 DEF GetIntake, TypeOK, platform, assets
<1>5. QED
  BY <1>1, <1>2, <1>3, <1>4

LEMMA TypeOthers ==
    ASSUME TypeInv,
           Claim \/ (\E k \in Attempts : Settle(k) \/ Crash(k)) \/ (\E o \in Outputs : IntakeEnds(o))
    PROVE  TypeOK'
<1> USE DEF TypeInv
<1>1. CASE Claim
  <2>1. attempt + 1 \in Attempts /\ attempt + 1 \in 0..MaxAttempts
    BY <1>1, ProviderAssumption DEF Claim, QueuedHasBudget, TypeOK, Attempts
  <2>2. pc' \in [Attempts -> PCs]
    BY <1>1, <2>1 DEF Claim, Go, TypeOK, PCs
  <2>3. QED
    BY <1>1, <2>1, <2>2 DEF Claim, TypeOK, assets
<1>2. ASSUME NEW k \in Attempts, Settle(k) PROVE TypeOK'
  <2>1. execution' \in {"absent", "queued", "running"} \cup Ended
    BY <1>2 DEF Settle, TypeOK, Ended
  <2>2. QED
    BY <1>2, <2>1, TypeRest DEF Settle, TypeOK, assets
<1>3. ASSUME NEW k \in Attempts, Crash(k) PROVE TypeOK'
  BY <1>3, TypeRest DEF Crash, TypeOK, assets, platform
<1>4. ASSUME NEW o \in Outputs, IntakeEnds(o) PROVE TypeOK'
  BY <1>4 DEF IntakeEnds, TypeOK, platform
<1>5. QED
  BY <1>1, <1>2, <1>3, <1>4

LEMMA StepKinds ==
    ASSUME [Next]_vars
    PROVE  \/ Outside
           \/ \E k \in Attempts : \/ Moves(k) \/ LoadForProcess(k) \/ Records(k) \/ Verdicts(k)
                                  \/ Intakes(k) \/ Rests(k)
           \/ UNCHANGED vars
<1>1. CASE \E k \in Attempts : Run(k) \/ Crash(k)
  BY <1>1 DEF Run, Moves, Records, Verdicts, Intakes, Rests
<1>2. QED
  BY <1>1 DEF Next, Outside

LEMMA TypeStep ==
    ASSUME TypeInv, [Next]_vars PROVE TypeOK'
<1> USE DEF TypeInv
<1>1. CASE Outside
  BY <1>1, TypePlatform, TypeOthers DEF Outside
<1>2. ASSUME NEW k \in Attempts, Moves(k) \/ LoadForProcess(k) PROVE TypeOK'
  BY <1>2, TypeMoves DEF Moves
<1>3. ASSUME NEW k \in Attempts, Records(k) \/ Verdicts(k) PROVE TypeOK'
  BY <1>3, WritesOfRow, TypeUpdate
<1>4. ASSUME NEW k \in Attempts, Intakes(k) PROVE TypeOK'
  BY <1>4, TypeIntakes DEF Intakes
<1>5. ASSUME NEW k \in Attempts, Rests(k) PROVE TypeOK'
  BY <1>5, TypeOthers DEF Rests
<1>6. CASE UNCHANGED vars
  BY <1>6 DEF vars, platform, assets, TypeOK
<1>7. QED
  BY <1>1, <1>2, <1>3, <1>4, <1>5, <1>6, StepKinds

(* Only these steps touch the platform job. *)
LEMMA PlatformSteps ==
    ASSUME [Next]_vars
    PROVE  \/ UNCHANGED <<execution, attempt>>
           \/ Schedule \/ Claim \/ Recover \/ \E k \in Attempts : Settle(k)
<1>1. CASE Outside
  BY <1>1 DEF Outside, CreateImageJob, IntakeEnds, platform
<1>2. ASSUME NEW k \in Attempts, Moves(k) \/ LoadForProcess(k) PROVE UNCHANGED <<execution, attempt>>
  BY <1>2 DEF Moves, LoadForRecord, Execute, PrepareRefuses, Submit, Poll, OrdinaryError,
              LoadToFail, LoadForProcess, platform
<1>3. ASSUME NEW k \in Attempts, Records(k) PROVE UNCHANGED <<execution, attempt>>
  BY <1>3 DEF Records, RecordAttempt, MarkInFlight, RecordUnknown, RecordAccepted,
              RecordDelivered, RecordStillRunning, RecordProviderFailed, Update, platform
<1>4. ASSUME NEW k \in Attempts, Verdicts(k) \/ Intakes(k) PROVE UNCHANGED <<execution, attempt>>
  BY <1>4 DEF Verdicts, Intakes, Finalize, FailImageJob, CreateIntake, GetIntake, Update, platform
<1>5. ASSUME NEW k \in Attempts, Crash(k) PROVE UNCHANGED <<execution, attempt>>
  BY <1>5 DEF Crash, platform
<1>6. CASE UNCHANGED vars
  BY <1>6 DEF vars, platform
<1>7. QED
  BY <1>1, <1>2, <1>3, <1>4, <1>5, <1>6, StepKinds DEF Rests

LEMMA BudgetStep ==
    ASSUME TypeOK, QueuedHasBudget, [Next]_vars PROVE QueuedHasBudget'
<1>1. CASE UNCHANGED <<execution, attempt>>
  BY <1>1 DEF QueuedHasBudget
<1>2. CASE Schedule \/ Claim \/ Recover
  BY <1>2, ProviderAssumption DEF Schedule, Claim, Recover, QueuedHasBudget
<1>3. ASSUME NEW k \in Attempts, Settle(k) PROVE QueuedHasBudget'
  BY <1>3, ProviderAssumption DEF Settle, QueuedHasBudget, TypeOK, Attempts
<1>4. QED
  BY <1>1, <1>2, <1>3, PlatformSteps

(* A write of the row keeps OutputsAgree if the new outputs are backed by the
   intakes and none that existed is dropped. *)
LEMMA AgreeUpdate ==
    ASSUME TypeOK, OutputsAgree, NEW k \in Attempts, NEW r, NEW done, NEW lost,
           Update(k, r, done, lost), done # "handing", lost # "handing",
           Backed(r.outputs, intake),
           \A o \in Outputs : job.outputs[o] # "none" => r.outputs[o] # "none",
           r.provider \in {"outputs_ready", "ingesting"} => Filled(r.outputs)
    PROVE  OutputsAgree'
<1>1. UNCHANGED <<view, intake>> /\ job' \in {job, r}
  BY DEF Update, assets
<1>2. \A n \in Attempts : pc'[n] = "handing" => pc[n] = "handing"
  BY DEF Update, Go, TypeOK
<1>3. \A o \in Outputs : job.outputs[o] # "none" => job'.outputs[o] # "none"
  BY <1>1
<1>4. Backed(job.outputs, intake)' /\ \A n \in Attempts : Backed(view[n], intake)'
  BY <1>1 DEF OutputsAgree, Backed
<1>5. \A n \in Attempts : pc'[n] = "handing" => Filled(view[n])' /\ Filled(job.outputs)'
  BY <1>1, <1>2, <1>3 DEF OutputsAgree, Filled
<1>6. job'.provider \in {"outputs_ready", "ingesting"} => Filled(job.outputs)'
  BY <1>1 DEF OutputsAgree, Filled
<1>7. \A o \in Outputs : intake'[o] # "absent" => job'.outputs[o] # "none"
  BY <1>1, <1>3 DEF OutputsAgree
<1>8. QED
  BY <1>4, <1>5, <1>6, <1>7 DEF OutputsAgree

LEMMA AgreeWrites ==
    ASSUME TypeOK, OutputsAgree, NEW k \in Attempts, Records(k) \/ Verdicts(k)
    PROVE  OutputsAgree'
<1>1. PICK r \in JobRow, done \in PCs, lost \in PCs :
         Update(k, r, done, lost) /\ Writes(k, r, done, lost)
  BY WritesOfRow
<1>2. Backed(r.outputs, intake)
  BY <1>1 DEF Writes, Keeps, OutputsAgree, Backed, FailPending
<1>3. \A o \in Outputs : job.outputs[o] # "none" => r.outputs[o] # "none"
  BY <1>1 DEF Writes, Keeps, OutputsAgree, Filled, FailPending
<1>4. r.provider \in {"outputs_ready", "ingesting"} => Filled(r.outputs)
  BY <1>1, VerdictIsTerminal DEF Writes, Keeps, OutputsAgree, Filled, Terminal
<1>5. done # "handing" /\ lost # "handing"
  BY <1>1 DEF Writes
<1>6. QED
  BY <1>1, <1>2, <1>3, <1>4, <1>5, AgreeUpdate

LEMMA AgreeMoves ==
    ASSUME TypeOK, OutputsAgree, NEW k \in Attempts, Moves(k) \/ LoadForProcess(k)
    PROVE  OutputsAgree'
<1>1. UNCHANGED <<job, intake>>
  BY DEF Moves, LoadForRecord, Execute, PrepareRefuses, Submit, Poll, OrdinaryError,
         LoadToFail, LoadForProcess, assets
<1>2. CASE Moves(k)
  <2>1. UNCHANGED view
    BY <1>2 DEF Moves, LoadForRecord, Execute, PrepareRefuses, Submit, Poll, OrdinaryError, LoadToFail
  <2>2. PICK l \in PCs \ {"handing"} : Go(k, l)
    BY <1>2 DEF Moves, LoadForRecord, Execute, PrepareRefuses, Submit, Poll, OrdinaryError,
                LoadToFail, Load, AfterRecord, PCs, Results
  <2>3. \A n \in Attempts : pc'[n] = "handing" => pc[n] = "handing"
    BY <2>2 DEF Go, TypeOK
  <2>4. QED
    BY <1>1, <2>1, <2>3 DEF OutputsAgree, Backed, Filled
<1>3. CASE LoadForProcess(k)
  <2>1. view' = [view EXCEPT ![k] = job.outputs]
    BY <1>3 DEF LoadForProcess
  <2>2. PICK l : Load(k, l) /\ (l = "handing" => job.provider \in {"outputs_ready", "ingesting"})
    BY <1>3 DEF LoadForProcess
  <2>3. \A n \in Attempts \ {k} : view'[n] = view[n] /\ pc'[n] = pc[n]
    BY <2>1, <2>2 DEF Load, Go, TypeOK
  <2>4. view'[k] = job.outputs /\ (pc'[k] = "handing" => Filled(job.outputs))
    BY <2>1, <2>2 DEF Load, Go, TypeOK, OutputsAgree
  <2>5. \A n \in Attempts : Backed(view[n], intake)'
    BY <1>1, <2>3, <2>4 DEF OutputsAgree, Backed
  <2>6. \A n \in Attempts : pc'[n] = "handing" => Filled(view[n])' /\ Filled(job.outputs)'
    BY <1>1, <2>3, <2>4 DEF OutputsAgree, Filled
  <2>7. QED
    BY <1>1, <2>5, <2>6 DEF OutputsAgree, Backed, Filled
<1>4. QED
  BY <1>2, <1>3

(* The answer of an intake that exists is applied to a run that is handing over. *)
LEMMA AgreeApply ==
    ASSUME TypeOK, OutputsAgree, NEW k \in Attempts, UNCHANGED <<job, pc>>,
           at[k] \in Outputs, pc[k] = "handing",
           \A o \in Outputs : intake[o] # "absent" => intake'[o] = intake[o],
           \A o \in Outputs \ {at[k]} : intake'[o] = intake[o],
           intake'[at[k]] \in {"queued", "succeeded", "failed"}, Apply(k, intake'[at[k]])
    PROVE  OutputsAgree'
<1>1. /\ \A n \in Attempts \ {k} : view'[n] = view[n]
      /\ \A o \in Outputs \ {at[k]} : view'[k][o] = view[k][o]
      /\ view'[k][at[k]] = Response(intake'[at[k]])
  BY DEF Apply, TypeOK
<1>2. /\ Response(intake'[at[k]]) # "none"
      /\ Response(intake'[at[k]]) = "succeeded" => intake'[at[k]] = "succeeded"
  BY DEF Response
<1>3. \A outs : Backed(outs, intake) => Backed(outs, intake')
  BY DEF Backed
<1>4. Backed(view'[k], intake')
  BY <1>1, <1>2 DEF OutputsAgree, Backed
<1>5. \A n \in Attempts : Backed(view[n], intake)'
  BY <1>1, <1>3, <1>4 DEF OutputsAgree
<1>6. Backed(job.outputs, intake)'
  BY <1>3 DEF OutputsAgree
<1>7. \A n \in Attempts : pc'[n] = "handing" => Filled(view[n])' /\ Filled(job.outputs)'
  BY <1>1, <1>2 DEF OutputsAgree, Filled
<1>8. \A o \in Outputs : intake'[o] # "absent" => job'.outputs[o] # "none"
  BY DEF OutputsAgree, Filled
<1>9. job'.provider \in {"outputs_ready", "ingesting"} => Filled(job.outputs)'
  BY DEF OutputsAgree, Filled
<1>10. QED
  BY <1>5, <1>6, <1>7, <1>8, <1>9 DEF OutputsAgree

LEMMA AgreeIntakes ==
    ASSUME TypeOK, OutputsAgree, NEW k \in Attempts, Intakes(k) PROVE OutputsAgree'
<1>0. pc[k] = "handing" /\ at[k] \in Outputs /\ job' = job
  BY DEF Intakes, CreateIntake, GetIntake
<1>1. CASE CreateIntake(k) /\ intakeFrom[at[k]] \in {0, k}
  <2>1. /\ intake' = [intake EXCEPT ![at[k]] = IF @ = "absent" THEN "queued" ELSE @]
        /\ Apply(k, intake'[at[k]]) /\ UNCHANGED pc
    BY <1>1 DEF CreateIntake
  <2>2. intake'[at[k]] \in {"queued", "succeeded", "failed"}
    BY <1>0, <2>1 DEF TypeOK
  <2>3. QED
    BY <1>0, <2>1, <2>2, AgreeApply DEF TypeOK
<1>2. CASE GetIntake(k) /\ view[k][at[k]] = "ingesting"
  <2>1. Apply(k, intake[at[k]]) /\ UNCHANGED <<intake, pc>>
    BY <1>2 DEF GetIntake, assets
  <2>2. intake[at[k]] \in {"queued", "succeeded", "failed"}
    BY <1>0, <1>2 DEF OutputsAgree, Backed, TypeOK
  <2>3. QED
    BY <1>0, <2>1, <2>2, AgreeApply
<1>3. CASE \/ CreateIntake(k) /\ intakeFrom[at[k]] \notin {0, k}
           \/ GetIntake(k) /\ view[k][at[k]] # "ingesting"
  <2>1. UNCHANGED <<intake, view>> /\ (UNCHANGED pc \/ Go(k, "deferred"))
    BY <1>3 DEF CreateIntake, GetIntake, assets
  <2>2. \A n \in Attempts : pc'[n] = "handing" => pc[n] = "handing"
    BY <2>1 DEF Go, TypeOK
  <2>3. QED
    BY <1>0, <2>1, <2>2 DEF OutputsAgree, Backed, Filled
<1>4. QED
  BY <1>1, <1>2, <1>3 DEF Intakes

LEMMA AgreeRests ==
    ASSUME TypeOK, OutputsAgree, NEW k \in Attempts, Rests(k) PROVE OutputsAgree'
<1>1. UNCHANGED <<job, intake>> /\ Rest(k)
  BY DEF Rests, Settle, Crash, assets
<1>2. \A n \in Attempts : pc'[n] = "handing" => pc[n] = "handing" /\ view'[n] = view[n]
  BY <1>1 DEF Rest, Go, TypeOK
<1>3. \A n \in Attempts : Backed(view'[n], intake)
  BY <1>1 DEF Rest, NoOutputs, OutputsAgree, Backed, TypeOK
<1>4. QED
  BY <1>1, <1>2, <1>3 DEF OutputsAgree, Backed, Filled

LEMMA AgreeOutside ==
    ASSUME TypeOK, QueuedHasBudget, OutputsAgree, Outside PROVE OutputsAgree'
<1>1. CASE CreateImageJob
  <2>1. /\ job'.outputs = job.outputs /\ job'.provider = "submitted"
        /\ UNCHANGED <<intake, view, pc>>
    BY <1>1 DEF CreateImageJob, assets, TypeOK, JobRow
  <2>2. QED
    BY <2>1 DEF OutputsAgree, Backed, Filled
<1>2. CASE Schedule \/ Recover
  BY <1>2 DEF Schedule, Recover, assets, OutputsAgree, Backed, Filled
<1>3. CASE Claim
  <2>1. \A n \in Attempts : pc'[n] = "handing" => pc[n] = "handing"
    BY <1>3 DEF Claim, Go, TypeOK
  <2>2. QED
    BY <1>3, <2>1 DEF Claim, assets, OutputsAgree, Backed, Filled
<1>4. ASSUME NEW o \in Outputs, IntakeEnds(o) PROVE OutputsAgree'
  <2>1. /\ intake[o] = "queued" /\ intake'[o] \in {"succeeded", "failed"}
        /\ \A p \in Outputs \ {o} : intake'[p] = intake[p]
        /\ UNCHANGED <<job, view, pc>>
    BY <1>4 DEF IntakeEnds, TypeOK
  <2>2. \A outs : Backed(outs, intake) => Backed(outs, intake')
    BY <2>1 DEF Backed
  <2>3. QED
    BY <2>1, <2>2 DEF OutputsAgree, Filled
<1>5. QED
  BY <1>1, <1>2, <1>3, <1>4 DEF Outside

LEMMA TypeInvariant == Spec => []TypeInv
<1>1. Init => TypeInv
  <2> SUFFICES ASSUME Init PROVE TypeInv
    OBVIOUS
  <2>1. 0 \in 0..MaxAttempts /\ 1 \in 1..OutputCount + 1 /\ 0 < MaxAttempts
    BY ProviderAssumption
  <2>2. job \in JobRow
    BY <2>1 DEF Init, JobRow, NoOutputs, OutputState
  <2>3. TypeOK
    BY <2>1, <2>2 DEF Init, TypeOK, NoOutputs, OutputState, PCs
  <2>4. QueuedHasBudget /\ OutputsAgree
    BY <2>1 DEF Init, QueuedHasBudget, OutputsAgree, Backed, Filled, NoOutputs
  <2>5. QED
    BY <2>3, <2>4 DEF TypeInv
<1>2. TypeInv /\ [Next]_vars => TypeInv'
  <2> SUFFICES ASSUME TypeInv, [Next]_vars PROVE TypeInv'
    OBVIOUS
  <2> USE DEF TypeInv
  <2>1. TypeOK' /\ QueuedHasBudget'
    BY TypeStep, BudgetStep
  <2>2. CASE UNCHANGED vars
    BY <2>1, <2>2 DEF vars, assets, OutputsAgree, Backed, Filled
  <2>3. CASE Outside
    BY <2>1, <2>3, AgreeOutside
  <2>4. ASSUME NEW k \in Attempts,
               Moves(k) \/ LoadForProcess(k) \/ Records(k) \/ Verdicts(k) \/ Intakes(k) \/ Rests(k)
        PROVE OutputsAgree'
    BY <2>4, AgreeMoves, AgreeWrites, AgreeIntakes, AgreeRests
  <2>5. QED
    BY <2>1, <2>2, <2>3, <2>4, StepKinds
<1>3. QED
  BY <1>1, <1>2, PTL DEF Spec

(* Every variable keeps its type: in particular no intake is asked for an
   output that has none, so that no status of an intake becomes an output's. *)
THEOREM TypeCorrect == Spec => []TypeOK
BY TypeInvariant, PTL DEF TypeInv

(* The public job never claims an asset Assets did not ingest, and Assets
   never ingests for an output that is not on record, whatever runs crash,
   stall or overlap. *)
THEOREM HandoffHolds == Spec => []HandoffAgrees
<1>1. TypeInv => HandoffAgrees
  BY DEF TypeInv, OutputsAgree, Backed, HandoffAgrees
<1>2. QED
  BY <1>1, TypeInvariant, PTL
-----------------------------------------------------------------------------
(* What a run whose copy of the row is current knows about it: the step it is
   at was chosen from this copy, and nobody wrote the row since. *)
Fits(label, status) ==
    /\ label \in {"recording", "handing", "failing"} => status \notin Terminal
    /\ label \in {"submitting", "sending", "unanswered", "refused", "accepted"}
          => status = "submitted"
    /\ label \in {"polling", "stillRunning", "providerFailed"} => status = "running"
    /\ label = "delivered" => status \in {"submitted", "running"}

CopyTells == \A k \in Attempts : fresh[k] => Fits(pc[k], job.provider)

NoOutputsYet ==
    job.provider \in {"absent", "submitted", "running"} => job.outputs = NoOutputs

VerdictInv == CopyTells /\ NoOutputsYet /\ VerdictIsTruthful

(* The public status and the outputs are written by these steps only. *)
LEMMA RowSteps ==
    ASSUME TypeOK, [Next]_vars
    PROVE  \/ UNCHANGED job
           \/ CreateImageJob
           \/ \E k \in Attempts : Records(k) \/ Verdicts(k)
<1>1. CASE Outside
  BY <1>1 DEF Outside, Schedule, Claim, Recover, IntakeEnds
<1>2. ASSUME NEW k \in Attempts, Moves(k) \/ LoadForProcess(k) \/ Intakes(k) \/ Rests(k)
      PROVE  UNCHANGED job
  BY <1>2 DEF Moves, LoadForRecord, Execute, PrepareRefuses, Submit, Poll, OrdinaryError,
              LoadToFail, LoadForProcess, Intakes, CreateIntake, GetIntake, Rests, Settle, Crash
<1>3. CASE UNCHANGED vars
  BY <1>3 DEF vars
<1>4. QED
  BY <1>1, <1>2, <1>3, StepKinds

(* A write that lands is made on a job that has not ended. *)
LEMMA WritesOpenJob ==
    ASSUME TypeOK, CopyTells, NEW k \in Attempts, NEW r, NEW done, NEW lost,
           Update(k, r, done, lost), Writes(k, r, done, lost), job' # job
    PROVE  job.provider \notin Terminal
<1>1. fresh[k]
  BY DEF Update
<1>2. QED
  BY <1>1 DEF Writes, CopyTells, Fits, Terminal

LEMMA CopyWrites ==
    ASSUME TypeOK, VerdictInv, NEW k \in Attempts, Records(k) \/ Verdicts(k)
    PROVE  VerdictInv'
<1>1. PICK r \in JobRow, done \in PCs, lost \in PCs :
         Update(k, r, done, lost) /\ Writes(k, r, done, lost)
  BY WritesOfRow
<1>2. CASE UNCHANGED <<job, fresh>> /\ Go(k, lost)
  <2>1. lost \in {"deferred", "rejected"}
    BY <1>1 DEF Writes
  <2>2. pc'[k] = lost /\ \A n \in Attempts \ {k} : pc'[n] = pc[n]
    BY <1>2 DEF Go, TypeOK
  <2>3. CopyTells'
    BY <1>2, <2>1, <2>2 DEF VerdictInv, CopyTells, Fits
  <2>4. QED
    BY <1>2, <2>3 DEF VerdictInv, NoOutputsYet, VerdictIsTruthful
<1>3. CASE fresh[k] /\ job' = r /\ fresh' = [n \in Attempts |-> n = k]
           /\ \E label \in {done, lost} : Go(k, label)
  <2>1. pc'[k] \in {done, lost}
    BY <1>3 DEF Go, TypeOK
  <2>2. Fits(pc[k], job.provider)
    BY <1>3 DEF VerdictInv, CopyTells
  <2>3. Fits(pc'[k], job'.provider)
    BY <1>1, <1>3, <2>1, <2>2 DEF Writes, Keeps, Fits, Terminal
  <2>4. CopyTells'
    BY <1>3, <2>3 DEF CopyTells
  <2>5. NoOutputsYet'
    BY <1>1, <1>3, <2>2, VerdictIsTerminal DEF Writes, Keeps, VerdictInv, Fits, NoOutputsYet, Terminal
  <2>6. VerdictIsTruthful'
    <3>1. r.provider \in Terminal
             => r.provider = Verdict(r.outputs) /\ \A o \in Outputs : ~Pending(r.outputs[o])
      <4>1. pc[k] = "providerFailed" => job.outputs = NoOutputs
        BY <2>2 DEF VerdictInv, Fits, NoOutputsYet
      <4>2. Verdict(NoOutputs) = "failed" /\ \A o \in Outputs : ~Pending(NoOutputs[o])
        BY ProviderAssumption DEF Verdict, NoOutputs, Pending, Outputs
      <4>3. Keeps(r) /\ pc[k] \in {"recording", "submitting", "unanswered", "refused"}
               => job.provider \notin Terminal /\ r.provider = job.provider
        BY <2>2 DEF Fits, Keeps, Terminal
      <4>4. \A o \in Outputs : ~Pending(FailPending(job.outputs)[o])
        BY DEF FailPending, Pending
      <4>5. QED
        BY <1>1, <4>1, <4>2, <4>3, <4>4 DEF Writes, Terminal
    <3>2. QED
      BY <1>3, <3>1 DEF VerdictIsTruthful
  <2>7. QED
    BY <2>4, <2>5, <2>6 DEF VerdictInv
<1>4. QED
  BY <1>1, <1>2, <1>3 DEF Update

(* Steps that write no row leave every current copy as it is, but for the run
   that moves. *)
LEMMA CopyMoves ==
    ASSUME TypeOK, VerdictInv, NEW k \in Attempts, Moves(k) \/ LoadForProcess(k) PROVE CopyTells'
<1>1. /\ job' = job
      /\ \A n \in Attempts \ {k} : pc'[n] = pc[n] /\ fresh'[n] = fresh[n]
  BY DEF Moves, LoadForRecord, Execute, PrepareRefuses, Submit, Poll, OrdinaryError,
         LoadToFail, LoadForProcess, Load, Go, TypeOK
<1>2. fresh'[k] => Fits(pc'[k], job.provider)
  <2>1. CASE LoadForRecord(k) \/ LoadForProcess(k)
    BY <2>1 DEF LoadForRecord, LoadForProcess, AfterRecord, Load, Go, TypeOK, Fits, Terminal
  <2>2. CASE Execute(k)
    BY <2>2 DEF Execute, Load, Go, TypeOK, JobRow, Fits, Terminal
  <2>3. CASE LoadToFail(k)
    BY <2>3 DEF LoadToFail, Load, Go, TypeOK, Fits, Terminal
  <2>4. CASE PrepareRefuses(k) \/ OrdinaryError(k)
    BY <2>4 DEF PrepareRefuses, OrdinaryError, Go, TypeOK, Fits
  <2>5. CASE Submit(k)
    <3>1. fresh'[k] => job.provider = "submitted"
      BY <2>5 DEF Submit, VerdictInv, CopyTells, Fits
    <3>2. pc'[k] \in {"accepted", "delivered", "deferred", "unanswered", "refused", "rejecting"}
      BY <2>5 DEF Submit, Go, TypeOK
    <3>3. QED
      BY <3>1, <3>2 DEF Fits, Terminal
  <2>6. CASE Poll(k)
    <3>1. fresh'[k] => job.provider = "running"
      BY <2>6 DEF Poll, VerdictInv, CopyTells, Fits
    <3>2. pc'[k] \in {"stillRunning", "delivered", "providerFailed", "rejecting"}
      BY <2>6 DEF Poll, Go, TypeOK
    <3>3. QED
      BY <3>1, <3>2 DEF Fits, Terminal
  <2>7. QED
    BY <2>1, <2>2, <2>3, <2>4, <2>5, <2>6 DEF Moves
<1>3. QED
  BY <1>1, <1>2 DEF VerdictInv, CopyTells

LEMMA CopyOthers ==
    ASSUME TypeInv, VerdictInv,
           Schedule \/ Claim \/ Recover \/ (\E o \in Outputs : IntakeEnds(o))
           \/ \E k \in Attempts : Intakes(k) \/ Rests(k)
    PROVE  CopyTells'
<1> USE DEF TypeInv
<1>1. CASE Schedule \/ Recover \/ \E o \in Outputs : IntakeEnds(o)
  BY <1>1 DEF Schedule, Recover, IntakeEnds, VerdictInv, CopyTells
<1>2. CASE Claim
  <2>1. job' = job /\ fresh' = fresh /\ \A n \in Attempts : pc'[n] = pc[n] \/ pc'[n] = "claimed"
    BY <1>2 DEF Claim, Go, TypeOK
  <2>2. Fits("claimed", job.provider)
    BY DEF Fits
  <2>3. QED
    BY <2>1, <2>2 DEF VerdictInv, CopyTells
<1>3. ASSUME NEW k \in Attempts, Intakes(k) PROVE CopyTells'
  <2>1. job' = job /\ fresh' = fresh /\ \A n \in Attempts : pc'[n] = pc[n] \/ pc'[n] = "deferred"
    BY <1>3 DEF Intakes, CreateIntake, GetIntake, Go, TypeOK
  <2>2. Fits("deferred", job.provider)
    BY DEF Fits
  <2>3. QED
    BY <2>1, <2>2 DEF VerdictInv, CopyTells
<1>4. ASSUME NEW k \in Attempts, Rests(k) PROVE CopyTells'
  <2>1. /\ job' = job /\ fresh'[k] = FALSE
        /\ \A n \in Attempts \ {k} : pc'[n] = pc[n] /\ fresh'[n] = fresh[n]
    BY <1>4 DEF Rests, Settle, Crash, Rest, Go, TypeOK
  <2>2. QED
    BY <2>1 DEF VerdictInv, CopyTells
<1>5. QED
  BY <1>1, <1>2, <1>3, <1>4

LEMMA CopyCreate ==
    ASSUME TypeOK, VerdictInv, CreateImageJob PROVE VerdictInv'
<1>1. /\ job'.provider = "submitted" /\ job'.outputs = job.outputs
      /\ job.provider = "absent" /\ UNCHANGED <<pc, fresh>>
  BY DEF CreateImageJob, TypeOK, JobRow
<1>2. \A label : Fits(label, "absent") => Fits(label, "submitted")
  BY DEF Fits, Terminal
<1>3. CopyTells'
  BY <1>1, <1>2 DEF VerdictInv, CopyTells
<1>4. NoOutputsYet' /\ VerdictIsTruthful'
  BY <1>1 DEF VerdictInv, NoOutputsYet, VerdictIsTruthful, Terminal
<1>5. QED
  BY <1>3, <1>4 DEF VerdictInv

LEMMA VerdictInvariant == Spec => []VerdictInv
<1>1. Init => VerdictInv
  BY DEF Init, VerdictInv, CopyTells, Fits, NoOutputsYet, VerdictIsTruthful, Terminal
<1>2. TypeInv /\ VerdictInv /\ [Next]_vars => VerdictInv'
  <2> SUFFICES ASSUME TypeInv, VerdictInv, [Next]_vars PROVE VerdictInv'
    OBVIOUS
  <2>0. TypeOK
    BY DEF TypeInv
  <2>1. ASSUME job' = job, CopyTells' PROVE VerdictInv'
    BY <2>1 DEF VerdictInv, NoOutputsYet, VerdictIsTruthful
  <2>2. CASE UNCHANGED vars
    BY <2>1, <2>2 DEF vars, VerdictInv, CopyTells
  <2>3. CASE CreateImageJob
    BY <2>0, <2>3, CopyCreate
  <2>4. CASE Schedule \/ Claim \/ Recover \/ \E o \in Outputs : IntakeEnds(o)
    <3>1. job' = job
      BY <2>4 DEF Schedule, Claim, Recover, IntakeEnds
    <3>2. QED
      BY <2>1, <2>4, <3>1, CopyOthers
  <2>5. ASSUME NEW k \in Attempts, Moves(k) \/ LoadForProcess(k) \/ Intakes(k) \/ Rests(k)
        PROVE  VerdictInv'
    <3>1. job' = job
      BY <2>5 DEF Moves, LoadForRecord, Execute, PrepareRefuses, Submit, Poll, OrdinaryError,
                  LoadToFail, LoadForProcess, Intakes, CreateIntake, GetIntake, Rests, Settle, Crash
    <3>2. CopyTells'
      BY <2>0, <2>5, CopyMoves, CopyOthers
    <3>3. QED
      BY <2>1, <3>1, <3>2
  <2>6. ASSUME NEW k \in Attempts, Records(k) \/ Verdicts(k) PROVE VerdictInv'
    BY <2>0, <2>6, CopyWrites
  <2>7. QED
    BY <2>2, <2>3, <2>4, <2>5, <2>6, StepKinds DEF Outside
<1>3. QED
  BY <1>1, <1>2, TypeInvariant, PTL DEF Spec

(* A public job that ended has the status its outputs call for, and none of
   them is pending, whichever of several runs ended it. *)
THEOREM VerdictHolds == Spec => []VerdictIsTruthful
BY VerdictInvariant, PTL DEF VerdictInv

(* A run that read the job before it ended cannot overwrite its verdict. *)
THEOREM TerminalStaysFinal == Spec => TerminalIsFinal
<1> DEFINE Final == job.provider \in Terminal
                      => job'.provider = job.provider /\ job'.outputs = job.outputs
<1>1. TypeInv /\ VerdictInv /\ [Next]_vars => [Final]_vars
  <2> SUFFICES ASSUME TypeInv, VerdictInv, [Next]_vars PROVE Final
    OBVIOUS
  <2>0. TypeOK /\ CopyTells
    BY DEF TypeInv, VerdictInv
  <2>1. CASE UNCHANGED job
    BY <2>1
  <2>2. CASE CreateImageJob
    BY <2>2 DEF CreateImageJob, Terminal
  <2>3. ASSUME NEW k \in Attempts, Records(k) \/ Verdicts(k), job' # job PROVE Final
    BY <2>0, <2>3, WritesOfRow, WritesOpenJob
  <2>4. QED
    BY <2>0, <2>1, <2>2, <2>3, RowSteps
<1>2. QED
  BY <1>1, TypeInvariant, VerdictInvariant, PTL DEF Spec, TerminalIsFinal
-----------------------------------------------------------------------------
(* Why a routed job is submitted once: before the mark nobody submits, the
   mark is set by one run only, and that run submits once. *)
SubmissionInv ==
    Routed =>
      /\ sent <= 1
      /\ job.submission = "not_started" => sent = 0 /\ \A k \in Attempts : pc[k] # "sending"
      /\ \A k \in Attempts : pc[k] = "sending" => sent = 0
      /\ \A k, n \in Attempts : pc[k] = "sending" /\ pc[n] = "sending" => k = n
      /\ \A k \in Attempts : pc[k] = "submitting" /\ fresh[k] => job.submission = "not_started"

(* A step that neither submits nor marks. *)
LEMMA NoNewSubmission ==
    ASSUME TypeOK, SubmissionInv, sent' = sent,
           \/ job'.submission = job.submission
           \/ job'.submission # "not_started" /\ \A k \in Attempts : fresh'[k] => pc'[k] # "submitting",
           \A k \in Attempts : pc'[k] = "sending" => pc[k] = "sending",
           \A k \in Attempts : pc'[k] = "submitting" /\ fresh'[k]
              => \/ pc[k] = "submitting" /\ fresh[k]
                 \/ job'.submission = "not_started"
    PROVE  SubmissionInv'
BY DEF SubmissionInv

LEMMA SubmissionWrites ==
    ASSUME TypeOK, SubmissionInv, Routed, NEW k \in Attempts, Records(k) \/ Verdicts(k)
    PROVE  SubmissionInv'
<1>1. PICK r \in JobRow, done \in PCs, lost \in PCs :
         Update(k, r, done, lost) /\ Writes(k, r, done, lost)
  BY WritesOfRow
<1>2. sent' = sent
  BY <1>1 DEF Update
<1>3. CASE UNCHANGED <<job, fresh>> /\ Go(k, lost)
  <2>1. lost \in {"deferred", "rejected"}
    BY <1>1 DEF Writes
  <2>2. \A n \in Attempts : pc'[n] \in {"sending", "submitting"} => pc'[n] = pc[n]
    BY <1>3, <2>1 DEF Go, TypeOK
  <2>3. QED
    BY <1>2, <1>3, <2>2, NoNewSubmission
<1>4. CASE fresh[k] /\ job' = r /\ fresh' = [n \in Attempts |-> n = k]
           /\ \E label \in {done, lost} : Go(k, label)
  <2>1. pc'[k] \in {done, lost} /\ \A n \in Attempts \ {k} : pc'[n] = pc[n]
    BY <1>4 DEF Go, TypeOK
  <2>2. CASE pc[k] = "submitting"
    <3>1. job.submission = "not_started"
      BY <1>4, <2>2 DEF SubmissionInv
    <3>2. sent = 0 /\ \A n \in Attempts : pc[n] # "sending"
      BY <3>1 DEF SubmissionInv
    <3>3. r.submission = "in_flight" /\ done = "sending" /\ lost = "deferred"
      BY <1>1, <2>2 DEF Writes
    <3>4. QED
      BY <1>2, <1>4, <2>1, <3>2, <3>3 DEF SubmissionInv
  <2>3. CASE pc[k] # "submitting"
    <3>1. done \notin {"sending", "submitting"} /\ lost \notin {"sending", "submitting"}
      BY <1>1, <2>3 DEF Writes
    <3>2. r.submission = job.submission \/ r.submission # "not_started"
      BY <1>1, <2>3 DEF Writes, Completed
    <3>3. \A n \in Attempts : fresh'[n] => pc'[n] # "submitting"
      BY <1>4, <2>1, <3>1
    <3>4. \A n \in Attempts : pc'[n] = "sending" => pc[n] = "sending"
      BY <2>1, <3>1
    <3>5. QED
      BY <1>2, <1>4, <3>2, <3>3, <3>4, NoNewSubmission
  <2>4. QED
    BY <2>2, <2>3
<1>5. QED
  BY <1>1, <1>3, <1>4 DEF Update

LEMMA SubmissionMoves ==
    ASSUME TypeOK, SubmissionInv, Routed, NEW k \in Attempts, Moves(k) \/ LoadForProcess(k)
    PROVE  SubmissionInv'
<1>1. job' = job /\ \A n \in Attempts \ {k} : pc'[n] = pc[n] /\ fresh'[n] = fresh[n]
  BY DEF Moves, LoadForRecord, Execute, PrepareRefuses, Submit, Poll, OrdinaryError,
         LoadToFail, LoadForProcess, Load, Go, TypeOK
<1>2. CASE Submit(k)
  <2>1. pc[k] = "sending" /\ sent' = sent + 1
    BY <1>2 DEF Submit
  <2>2. pc'[k] \notin {"sending", "submitting"}
    BY <1>2 DEF Submit, Go, TypeOK
  <2>3. sent = 0 /\ \A n \in Attempts \ {k} : pc[n] # "sending"
    BY <2>1 DEF SubmissionInv
  <2>4. QED
    BY <1>1, <2>1, <2>2, <2>3 DEF SubmissionInv
<1>3. CASE Execute(k)
  <2>1. pc'[k] # "sending" /\ (pc'[k] = "submitting" => job.submission = "not_started")
    BY <1>3 DEF Execute, Load, Go, TypeOK
  <2>2. sent' = sent
    BY <1>3 DEF Execute
  <2>3. QED
    BY <1>1, <2>1, <2>2, NoNewSubmission
<1>4. CASE ~Submit(k) /\ ~Execute(k)
  <2>1. sent' = sent /\ pc'[k] \notin {"sending", "submitting"}
    BY <1>4 DEF Moves, LoadForRecord, PrepareRefuses, Poll, OrdinaryError, LoadToFail,
                LoadForProcess, AfterRecord, Load, Go, TypeOK
  <2>2. QED
    BY <1>1, <2>1, NoNewSubmission
<1>5. QED
  BY <1>2, <1>3, <1>4

LEMMA SubmissionOthers ==
    ASSUME TypeInv, SubmissionInv,
           Outside \/ (\E k \in Attempts : Intakes(k) \/ Rests(k)) \/ UNCHANGED vars
    PROVE  SubmissionInv'
<1> USE DEF TypeInv
<1>1. sent' = sent /\ job'.submission = job.submission
  BY DEF Outside, CreateImageJob, Schedule, Claim, Recover, IntakeEnds, Intakes, CreateIntake,
         GetIntake, Rests, Settle, Crash, vars, TypeOK, JobRow
<1>2. \A n \in Attempts : pc'[n] \in {"sending", "submitting"} => pc'[n] = pc[n] /\ fresh'[n] = fresh[n]
  <2>1. CASE CreateImageJob \/ Schedule \/ Recover \/ (\E o \in Outputs : IntakeEnds(o)) \/ UNCHANGED vars
    BY <2>1 DEF CreateImageJob, Schedule, Recover, IntakeEnds, vars
  <2>2. CASE Claim
    BY <2>2 DEF Claim, Go, TypeOK
  <2>3. ASSUME NEW k \in Attempts, Intakes(k)
        PROVE  \A n \in Attempts : pc'[n] \in {"sending", "submitting"}
                                      => pc'[n] = pc[n] /\ fresh'[n] = fresh[n]
    BY <2>3 DEF Intakes, CreateIntake, GetIntake, Go, TypeOK
  <2>4. ASSUME NEW k \in Attempts, Rests(k)
        PROVE  \A n \in Attempts : pc'[n] \in {"sending", "submitting"}
                                      => pc'[n] = pc[n] /\ fresh'[n] = fresh[n]
    BY <2>4 DEF Rests, Settle, Crash, Rest, Go, TypeOK
  <2>5. QED
    BY <2>1, <2>2, <2>3, <2>4 DEF Outside
<1>3. QED
  BY <1>1, <1>2, NoNewSubmission

(* A routed job is handed to the gateway at most once, for any number of
   attempts, crashed, stalled or overlapping. *)
THEOREM SubmittedAtMostOnce == Spec => []AtMostOneSubmission
<1>1. Init => SubmissionInv
  BY DEF Init, SubmissionInv
<1>2. TypeInv /\ SubmissionInv /\ [Next]_vars => SubmissionInv'
  <2> SUFFICES ASSUME TypeInv, SubmissionInv, [Next]_vars PROVE SubmissionInv'
    OBVIOUS
  <2>1. TypeOK
    BY DEF TypeInv
  <2>2. CASE ~Routed
    BY <2>2 DEF SubmissionInv
  <2>3. ASSUME Routed, NEW k \in Attempts,
               Moves(k) \/ LoadForProcess(k) \/ Records(k) \/ Verdicts(k)
        PROVE  SubmissionInv'
    BY <2>1, <2>3, SubmissionMoves, SubmissionWrites
  <2>4. QED
    BY <2>2, <2>3, StepKinds, SubmissionOthers
<1>3. SubmissionInv => AtMostOneSubmission
  BY DEF SubmissionInv, AtMostOneSubmission
<1>4. QED
  BY <1>1, <1>2, <1>3, TypeInvariant, PTL DEF Spec
-----------------------------------------------------------------------------
(* A run reports success only of a job that ended. *)
OkOfEnded == \A k \in Attempts : pc[k] = "ok" => job.provider \in Terminal

LEMMA EndedStays ==
    ASSUME TypeOK, CopyTells, [Next]_vars, job.provider \in Terminal PROVE job'.provider \in Terminal
<1>1. CASE CreateImageJob
  BY <1>1 DEF CreateImageJob, Terminal
<1>2. ASSUME NEW k \in Attempts, Records(k) \/ Verdicts(k), job' # job PROVE FALSE
  BY <1>2, WritesOfRow, WritesOpenJob
<1>3. QED
  BY <1>1, <1>2, RowSteps

LEMMA OkStep ==
    ASSUME TypeInv, VerdictInv, OkOfEnded, [Next]_vars PROVE OkOfEnded'
<1>0. TypeOK /\ CopyTells
  BY DEF TypeInv, VerdictInv
<1>1. SUFFICES ASSUME NEW n \in Attempts, pc'[n] = "ok", pc[n] # "ok" PROVE job'.provider \in Terminal
  BY <1>0, EndedStays DEF OkOfEnded
<1>2. CASE Outside \/ UNCHANGED vars
  BY <1>0, <1>1, <1>2 DEF Outside, CreateImageJob, Schedule, Claim, Recover, IntakeEnds, vars, Go, TypeOK
<1>3. ASSUME NEW k \in Attempts, Moves(k) \/ LoadForProcess(k) PROVE job'.provider \in Terminal
  BY <1>0, <1>1, <1>3 DEF Moves, LoadForRecord, Execute, PrepareRefuses, Submit, Poll, OrdinaryError,
         LoadToFail, LoadForProcess, AfterRecord, Load, Go, TypeOK
<1>4. ASSUME NEW k \in Attempts, Records(k) \/ Verdicts(k) PROVE job'.provider \in Terminal
  <2>1. PICK r \in JobRow, done \in PCs, lost \in PCs :
           Update(k, r, done, lost) /\ Writes(k, r, done, lost)
    BY <1>0, <1>4, WritesOfRow
  <2>2. lost # "ok" /\ pc'[n] \in {done, lost}
    BY <1>0, <1>1, <2>1 DEF Writes, Update, Go, TypeOK
  <2>3. done = "ok" /\ job' = r
    BY <1>0, <1>1, <2>1, <2>2 DEF Update, Go, TypeOK
  <2>4. QED
    BY <2>1, <2>3, VerdictIsTerminal DEF Writes, Terminal
<1>5. ASSUME NEW k \in Attempts, Intakes(k) \/ Rests(k) PROVE job'.provider \in Terminal
  BY <1>0, <1>1, <1>5 DEF Intakes, CreateIntake, GetIntake, Rests, Settle, Crash, Rest, Go, TypeOK
<1>6. QED
  BY <1>2, <1>3, <1>4, <1>5, StepKinds

(* The platform job never reports success while the public job is open: what
   the caller polls has ended when its execution has. *)
THEOREM SuccessIsOfEndedJob == Spec => []SuccessMeansTerminal
<1> DEFINE I == OkOfEnded /\ SuccessMeansTerminal
<1>1. Init => I
  BY DEF Init, OkOfEnded, SuccessMeansTerminal
<1>2. TypeInv /\ VerdictInv /\ I /\ [Next]_vars => I'
  <2> SUFFICES ASSUME TypeInv, VerdictInv, OkOfEnded, SuccessMeansTerminal, [Next]_vars
               PROVE  OkOfEnded' /\ SuccessMeansTerminal'
    OBVIOUS
  <2>1. TypeOK /\ CopyTells
    BY DEF TypeInv, VerdictInv
  <2>2. execution' = "succeeded"
           => execution = "succeeded" \/ \E k \in Attempts : pc[k] = "ok"
    BY PlatformSteps DEF Schedule, Claim, Recover, Settle
  <2>3. execution' = "succeeded" => job.provider \in Terminal
    BY <2>2 DEF OkOfEnded, SuccessMeansTerminal
  <2>4. QED
    BY <2>1, <2>3, EndedStays, OkStep DEF SuccessMeansTerminal
<1>3. QED
  BY <1>1, <1>2, TypeInvariant, VerdictInvariant, PTL DEF Spec

LEMMA LifecycleMove ==
    ASSUME NEW from \in {"absent", "queued", "running"}, NEW to, execution = from, execution' = to
    PROVE  Platform!Move({"job"}, from, to)
BY DEF Platform!Move

(* What this module takes for granted of the platform job is what JobLifecycle,
   and so JobRuntime, grants. *)
THEOREM ExecutionFollowsLifecycle == Spec => FollowsLifecycle
<1>1. Init => Platform!Init
  BY DEF Init, Platform!Init
<1>2. TypeInv /\ [Next]_vars => [Platform!Next]_(Platform!vars)
  <2> SUFFICES ASSUME TypeInv, [Next]_vars PROVE [Platform!Next]_(Platform!vars)
    OBVIOUS
  <2>0. TypeOK /\ QueuedHasBudget
    BY DEF TypeInv
  <2>1. CASE UNCHANGED <<execution, attempt>>
    BY <2>1 DEF Platform!vars
  <2>2. CASE Schedule
    <3>1. Platform!Create({"job"})
      BY <2>2, LifecycleMove DEF Schedule, Platform!Create
    <3>2. QED
      BY <3>1 DEF Platform!Next
  <2>3. CASE Claim
    <3>1. attempt < MaxAttempts /\ attempt' = attempt + 1 /\ Platform!Move({"job"}, "queued", "running")
      BY <2>0, <2>3, LifecycleMove DEF Claim, QueuedHasBudget
    <3>2. Platform!Start("job")
      BY <3>1 DEF Platform!Start
    <3>3. QED
      BY <3>2 DEF Platform!Next
  <2>4. ASSUME execution = "running", attempt' = attempt,
               execution' \in Ended \/ (execution' = "queued" /\ attempt < MaxAttempts)
        PROVE  Platform!Next
    <3>1. CASE execution' \in Ended
      <4>1. Platform!End({"job"}, execution')
        BY <2>4, <3>1, LifecycleMove DEF Platform!End, Platform!Ended, Ended
      <4>2. execution' \in Platform!Ended
        BY <3>1 DEF Platform!Ended, Ended
      <4>3. QED
        BY <4>1, <4>2 DEF Platform!Next
    <3>2. CASE execution' = "queued" /\ attempt < MaxAttempts
      <4>1. Platform!Requeue({"job"})
        BY <2>4, <3>2, LifecycleMove DEF Platform!Requeue
      <4>2. QED
        BY <4>1 DEF Platform!Next
    <3>3. QED
      BY <2>4, <3>1, <3>2
  <2>5. CASE Recover
    BY <2>0, <2>4, <2>5 DEF Recover, Ended
  <2>6. ASSUME NEW k \in Attempts, Settle(k), execution' # execution PROVE Platform!Next
    <3>1. execution = "running" /\ attempt = k /\ attempt' = attempt
      BY <2>6 DEF Settle
    <3>2. execution' \in Ended \/ (execution' = "queued" /\ attempt < MaxAttempts)
      BY <2>6, <3>1 DEF Settle, Ended
    <3>3. QED
      BY <2>4, <3>1, <3>2
  <2>7. ASSUME NEW k \in Attempts, Settle(k), execution' = execution
        PROVE  UNCHANGED <<execution, attempt>>
    BY <2>7 DEF Settle
  <2>8. QED
    BY <2>1, <2>2, <2>3, <2>5, <2>6, <2>7, PlatformSteps
<1>3. QED
  BY <1>1, <1>2, TypeInvariant, PTL DEF Spec, FollowsLifecycle, Platform!Spec

(* What this module takes for granted of the intakes is what IntakeLifecycle, and
   so AssetIntake, grants, whatever runs ask for them. *)
THEOREM IntakesFollowTheirPromise == Spec => FollowsIntakes
<1>1. Init => Assets!Init
  BY DEF Init, Assets!Init
<1>2. TypeInv /\ [Next]_vars => [Assets!Next]_intake
  <2> SUFFICES ASSUME TypeInv, [Next]_vars PROVE Assets!Next \/ UNCHANGED intake
    OBVIOUS
  <2>0. TypeOK
    BY DEF TypeInv
  <2>1. ASSUME NEW k \in Attempts, CreateIntake(k) PROVE Assets!Next \/ UNCHANGED intake
    <3>1. CASE intake' = intake
      BY <3>1
    <3>2. CASE intake' # intake
      <4>1. at[k] \in Outputs /\ intake[at[k]] = "absent" /\ intake' = [intake EXCEPT ![at[k]] = "queued"]
        BY <2>0, <2>1, <3>2 DEF CreateIntake, TypeOK, assets
      <4>2. QED
        BY <4>1 DEF Assets!Create, Assets!Next
    <3>3. QED
      BY <3>1, <3>2
  <2>2. ASSUME NEW o \in Outputs, IntakeEnds(o) PROVE Assets!Next
    BY <2>2 DEF IntakeEnds, Assets!End, Assets!Ended, Assets!Next
  <2>3. ASSUME NEW k \in Attempts, Records(k) \/ Verdicts(k) PROVE UNCHANGED intake
    BY <2>0, <2>3, WritesOfRow DEF Update, assets
  <2>4. ASSUME NEW k \in Attempts, Moves(k) \/ LoadForProcess(k) \/ Rests(k) \/ GetIntake(k)
        PROVE  UNCHANGED intake
    BY <2>4 DEF Moves, LoadForProcess, Rests, Settle, Crash, GetIntake, assets,
                LoadForRecord, Execute, PrepareRefuses, Submit, Poll, OrdinaryError, LoadToFail
  <2>5. QED
    BY <2>1, <2>2, <2>3, <2>4, StepKinds DEF Outside, Intakes, CreateImageJob, Schedule, Claim, Recover,
       vars, assets
<1>3. QED
  BY <1>1, <1>2, TypeInvariant, PTL DEF Spec, FollowsIntakes, Assets!Spec
=============================================================================
