----------------------------- MODULE BrowserRun -----------------------------
(***************************************************************************)
(* One controlled execution of Delivery that creates objects on the        *)
(* advertising platform, and the browser runs that do it: workers prepare  *)
(* a form, an operator confirms it, a worker clicks once, and what it saw  *)
(* is recorded or reconciled later (internal/platform/browserautomation).  *)
(* A failed run is released for another one when its evidence is safe      *)
(* (internal/systems/delivery).  Runner and platform are the outcomes of   *)
(* ClickFinal and Query.  The manual writes of a takeover are left out.    *)
(***************************************************************************)
EXTENDS Naturals, FiniteSets

CONSTANTS RunCount,        \* bound: runs of the execution
          ObjectCount,     \* the project and its promotions, created in this order
          ConfirmCount,    \* bound: final confirmations
          Workers,         \* calls of Prepare, Submit and Reconcile at a time
          Controlled,      \* bound: runs the operator pauses, takes over and cancels
          MaxFaults        \* bound: calls that stop, writes that fail, leases that run
                           \* out, and times the operator steps in

ASSUME BrowserAssumption ==
    /\ RunCount \in Nat \ {0} /\ ObjectCount \in Nat \ {0} /\ ConfirmCount \in Nat
    /\ Controlled \subseteq 1..RunCount /\ MaxFaults \in Nat

VARIABLES execution,    \* status of the row of delivery_controlled_executions
          bound,        \* its browser_rpa_run_id; 0 is none
          mapping,      \* the run the mapping of each object names; 0 is none
          confirmed,    \* objects whose mapping is confirmed
          run,          \* state of each row of browser_rpa_runs
          held,         \* its paused and takeover_active
          lease,        \* the lease it names
          step,         \* its latest step
          noEffect,     \* it has evidence of a click without effect
          token,        \* final confirmations, each with its attempt once consumed
          worker,       \* calls in progress
          written,      \* creations of each object on the platform
          interrupted,  \* an operator took a run away from a submit in progress
          outrun,       \* a run went on although a query of it had found no effect
          faults

rows     == <<execution, bound, mapping, confirmed>>
evidence == <<step, noEffect, token>>
world    == <<written, interrupted, outrun>>
vars     == <<rows, run, held, lease, evidence, worker, world, faults>>

BrowserRuns == 1..RunCount
Objects     == 1..ObjectCount
Tokens      == 1..ConfirmCount
Terminal    == {"succeeded", "failed", "partial", "result_unknown", "cancelled"}
Attempt     == {"authorized", "failed", "verified", "drifted", "unknown"}
Answers     == {"error", "lost", "unknown", "noeffect", "success", "drift"}
Free        == [at |-> "idle", run |-> 0, token |-> 0, object |-> 0, answer |-> "error",
                fresh |-> FALSE, owner |-> FALSE]

RunState ==
    {"absent", "queued", "environment_check", "awaiting_takeover", "preparing",
     "awaiting_confirmation", "submitting", "verifying"} \cup Terminal
Confirmation ==
    [run : 0..RunCount, is : {"unissued", "usable", "void"} \cup Attempt, shown : SUBSET (0..ObjectCount)]
Call ==
    [at : {"idle", "preparing", "requested", "authorized", "clicking", "answered", "verifying",
           "storing", "mapping", "releasing", "continuing", "closing", "querying", "reverifying",
           "rechecked"},
     run : 0..RunCount, token : 0..ConfirmCount, object : 0..ObjectCount,
     answer : Answers, fresh : BOOLEAN, owner : BOOLEAN]

(* Rows and calls; only a pending execution is without a run. *)
BrowserType ==
    /\ execution \in {"pending", "running", "succeeded", "cancelled"} /\ bound \in 0..RunCount
    /\ (execution = "pending") <=> (bound = 0)
    /\ mapping \in [Objects -> 0..RunCount] /\ confirmed \subseteq Objects
    /\ run \in [BrowserRuns -> RunState]
    /\ held \in [BrowserRuns -> {"no", "paused", "taken"}]
    /\ lease \in [BrowserRuns -> {"none", "valid", "expired"}]
    /\ step \in [BrowserRuns -> {"none", "open", "prepareFailed", "failed", "listed"}]
    /\ noEffect \in [BrowserRuns -> BOOLEAN]
    /\ token \in [Tokens -> Confirmation]
    /\ worker \in [Workers -> Call]
    /\ written \in [Objects -> Nat] /\ interrupted \in BOOLEAN /\ outrun \in BOOLEAN
    /\ faults \in 0..MaxFaults

BrowserInit ==
    /\ execution = "pending" /\ bound = 0
    /\ mapping = [o \in Objects |-> 0] /\ confirmed = {}
    /\ run = [r \in BrowserRuns |-> "absent"] /\ held = [r \in BrowserRuns |-> "no"]
    /\ lease = [r \in BrowserRuns |-> "none"]
    /\ step = [r \in BrowserRuns |-> "none"]
    /\ noEffect = [r \in BrowserRuns |-> FALSE]
    /\ token = [c \in Tokens |-> [run |-> 0, is |-> "unissued", shown |-> {}]]
    /\ worker = [w \in Workers |-> Free]
    /\ written = [o \in Objects |-> 0] /\ interrupted = FALSE /\ outrun = FALSE
    /\ faults = 0
-----------------------------------------------------------------------------
Fault == faults < MaxFaults /\ faults' = faults + 1

Pending    == Objects \ confirmed
FirstOf(S) == CHOOSE o \in S : \A p \in S : o <= p
Used(r)    == {c \in Tokens : token[c].run = r /\ token[c].is \in Attempt}
Issued(r)  == {c \in Tokens : token[c].run = r}

R(w) == worker[w].run

(* A write of the row of a run is a version conflict for those who read it before. *)
Bumped(r) == [w \in Workers |-> IF R(w) = r THEN [worker[w] EXCEPT !.fresh = FALSE] ELSE worker[w]]

(* ... and so is a new step for those who put the latest one before. *)
Outdated(r) == [w \in Workers |-> IF R(w) = r THEN [worker[w] EXCEPT !.owner = FALSE] ELSE worker[w]]

To(w, label) == [worker[w] EXCEPT !.at = label]
Ending(w, label, answer) == [worker[w] EXCEPT !.at = label, !.answer = answer, !.token = 0, !.object = 0]

(* Service.TransitionRun with the version the worker holds. *)
TransitionRun(w, state, next) ==
    IF worker[w].fresh
      THEN /\ run' = [run EXCEPT ![R(w)] = state]
           /\ worker' = [Bumped(R(w)) EXCEPT ![w] = next]
      ELSE worker' = [worker EXCEPT ![w] = Free] /\ UNCHANGED run

(* PutStep: a new step, which is the latest of its run from now on, and a later
   status of the step a worker has put. *)
NewStep(r, s) == step' = [step EXCEPT ![r] = s]
SetStep(w, s) == step' = IF worker[w].owner THEN [step EXCEPT ![R(w)] = s] ELSE step

Void(r) == token' = [c \in Tokens |-> IF token[c].run = r /\ token[c].is = "usable"
                                      THEN [token[c] EXCEPT !.is = "void"] ELSE token[c]]

(* VerifyAuthority *)
Authorized(r) == bound = r /\ execution = "running"
-----------------------------------------------------------------------------
(* StartBrowserRpaExecution and CreateBoundRun. *)

(* The first run, or one under an identity of its own when the first failed. *)
CreateRun(r) ==
    /\ execution = "pending" /\ run[r] = "absent"
    /\ r = 1 \/ run[1] = "failed"
    /\ run' = [run EXCEPT ![r] = "queued"]
    /\ UNCHANGED <<rows, held, lease, evidence, worker, world, faults>>

(* AttachBrowserRpaRun; a replay attaches a run whatever its state. *)
AttachRun(r) ==
    /\ run[r] # "absent" /\ execution = "pending"
    /\ bound' = r /\ execution' = "running"
    /\ UNCHANGED <<mapping, confirmed, run, held, lease, evidence, worker, world, faults>>

(* inspectPendingMappingRecovery, for a failed run of this execution.  It asks
   for evidence, which every run has that was prepared; `shown` is what there is
   of the clicks. *)
SafeToRebind(r, o) ==
    /\ run[r] = "failed" /\ lease[r] # "valid" /\ held[r] # "taken"
    /\ \/ Issued(r) = {}
       \/ /\ Used(r) # {}
          /\ \A c \in Used(r) : token[c].is = "failed" /\ token[c].shown = {}
       \/ /\ Used(r) # {} /\ Issued(r) = Used(r)
          /\ \A c \in Used(r) : token[c].shown # {} /\ o \notin token[c].shown

(* initializeStagedMappings, one object after the other. *)
BindMapping(o) ==
    /\ execution = "running" /\ bound # 0
    /\ o \in Pending /\ mapping[o] # bound
    /\ \A p \in Pending : p < o => mapping[p] = bound
    /\ mapping[o] # 0 => run[bound] = "queued" /\ SafeToRebind(mapping[o], o)
    /\ mapping' = [mapping EXCEPT ![o] = bound]
    /\ lease' = IF mapping[o] = 0 THEN lease ELSE [lease EXCEPT ![mapping[o]] = "none"]
    /\ UNCHANGED <<execution, bound, confirmed, run, held, evidence, worker, world, faults>>

(* Mutation of SafeToReset: that the run has failed is taken for enough. *)
FailedIsEnough(r) == run[r] = "failed"

(* The conditions of ResetSafeFailedBrowserRpaExecution on the run. *)
SafeToReset(r) ==
    /\ run[r] = "failed" /\ held[r] # "taken" /\ lease[r] # "valid"
    /\ step[r] # "none"
    /\ \/ step[r] = "prepareFailed"
       \/ noEffect[r] /\ step[r] \in {"listed", "failed"}
       \/ \A c \in Used(r) : token[c].is = "failed" /\ token[c].shown = {}

(* Mutation of ResetExecution: browser_rpa_run_id is kept. *)
ResetKeepsRun ==
    /\ execution = "running" /\ bound # 0 /\ SafeToReset(bound)
    /\ execution' = "pending"
    /\ UNCHANGED <<bound, mapping, confirmed, run, held, lease, evidence, worker, world, faults>>

ResetExecution ==
    /\ execution = "running" /\ bound # 0 /\ SafeToReset(bound)
    /\ execution' = "pending" /\ bound' = 0
    /\ Void(bound)
    /\ lease' = [lease EXCEPT ![bound] = "none"]
    /\ worker' = IF lease[bound] = "none" THEN worker ELSE Bumped(bound)
    /\ UNCHANGED <<mapping, confirmed, run, held, step, noEffect, world, faults>>

(* InvalidateCalibratedControlledChangeSet *)
InvalidateExecution ==
    /\ execution = "running" /\ bound # 0
    /\ run[bound] = "cancelled" /\ lease[bound] = "none" /\ Used(bound) = {}
    /\ execution' = "cancelled"
    /\ Void(bound)
    /\ UNCHANGED <<bound, mapping, confirmed, run, held, lease, step, noEffect, worker, world, faults>>
-----------------------------------------------------------------------------
(* Leases, one for the browser profile, and the controls of the operator. *)

AcquireLease(r) ==
    /\ run[r] \notin {"absent"} \cup Terminal
    /\ \A q \in BrowserRuns : lease[q] # "valid"
    /\ lease' = [lease EXCEPT ![r] = "valid"]
    /\ worker' = Bumped(r)
    /\ UNCHANGED <<rows, run, held, evidence, world, faults>>

LeaseRunsOut(r) ==
    /\ lease[r] = "valid" /\ Fault
    /\ lease' = [lease EXCEPT ![r] = "expired"]
    /\ UNCHANGED <<rows, run, held, evidence, worker, world>>

ReleaseLease(r) ==
    /\ lease[r] # "none" /\ Fault
    /\ lease' = [lease EXCEPT ![r] = "none"]
    /\ worker' = Bumped(r)
    /\ UNCHANGED <<rows, run, held, evidence, world>>

(* Mutation of ControlRun: the version of the row is kept. *)
ControlKeepsVersion(r) ==
    /\ r \in Controlled /\ run[r] \notin {"absent"} \cup Terminal /\ Fault
    /\ \E control \in {<<run[r], "paused">>, <<"awaiting_takeover", "taken">>, <<"cancelled", "no">>} :
          /\ run' = [run EXCEPT ![r] = control[1]]
          /\ held' = [held EXCEPT ![r] = control[2]]
    /\ interrupted' = (interrupted \/ run[r] \in {"submitting", "verifying"})
    /\ UNCHANGED <<rows, lease, evidence, worker, written, outrun>>

(* ControlRun does not look at CanTransition. *)
ControlRun(r) ==
    /\ r \in Controlled /\ run[r] # "absent"
    /\ \/ /\ run[r] \notin Terminal /\ Fault
          /\ \E control \in {<<run[r], "paused">>, <<"awaiting_takeover", "taken">>, <<"cancelled", "no">>} :
                /\ run' = [run EXCEPT ![r] = control[1]]
                /\ held' = [held EXCEPT ![r] = control[2]]
       \/ /\ held[r] # "no" /\ UNCHANGED faults
          /\ run' = [run EXCEPT ![r] = "environment_check"]
          /\ held' = [held EXCEPT ![r] = "no"]
    /\ interrupted' = (interrupted \/ run[r] \in {"submitting", "verifying"})
    /\ worker' = Bumped(r)
    /\ UNCHANGED <<rows, lease, evidence, written, outrun>>

(* IssueFinalConfirmation, also for the operator who has taken over. *)
IssueConfirmation(r, c) ==
    /\ \/ run[r] = "awaiting_confirmation" /\ held[r] = "no"
       \/ run[r] = "awaiting_takeover" /\ held[r] = "taken"
    /\ Authorized(r)
    /\ token[c].is = "unissued" /\ \A d \in Tokens : d < c => token[d].is # "unissued"
    /\ token' = [d \in Tokens |->
                    IF d = c THEN [run |-> r, is |-> "usable", shown |-> {}]
                    ELSE IF token[d].run = r /\ token[d].is = "usable"
                         THEN [token[d] EXCEPT !.is = "void"] ELSE token[d]]
    /\ UNCHANGED <<rows, run, held, lease, step, noEffect, worker, world, faults>>
-----------------------------------------------------------------------------
(* Worker.Prepare. *)

CheckEnvironment(r) ==
    /\ run[r] = "queued" /\ held[r] = "no"
    /\ run' = [run EXCEPT ![r] = "environment_check"]
    /\ worker' = Bumped(r)
    /\ UNCHANGED <<rows, held, lease, evidence, world, faults>>

BeginPrepare(w, r) ==
    /\ worker[w].at = "idle"
    /\ run[r] = "environment_check" /\ held[r] = "no"
    /\ run' = [run EXCEPT ![r] = "preparing"]
    /\ worker' = [v \in Workers |->
                     IF v = w THEN [Free EXCEPT !.at = "preparing", !.run = r, !.fresh = TRUE, !.owner = TRUE]
                     ELSE IF R(v) = r THEN [worker[v] EXCEPT !.fresh = FALSE, !.owner = FALSE] ELSE worker[v]]
    /\ NewStep(r, "open")
    /\ UNCHANGED <<rows, held, lease, noEffect, token, world, faults>>

(* There is no form to fill when every object is confirmed. *)
Prepared(w) ==
    /\ worker[w].at = "preparing" /\ Pending # {}
    /\ TransitionRun(w, "awaiting_confirmation", Free)
    /\ UNCHANGED <<rows, held, lease, evidence, world, faults>>

(* Drift of the page or an environment that is not available; another account
   blocks the run for another reason. *)
PrepareFails(w) ==
    /\ worker[w].at = "preparing"
    /\ \E s \in {"prepareFailed", "failed"} : SetStep(w, s)
    /\ worker' = [worker EXCEPT ![w] = Ending(w, "closing", "error")]
    /\ UNCHANGED <<rows, run, held, lease, noEffect, token, world, faults>>
-----------------------------------------------------------------------------
(* Worker.Submit. *)

(* The step is stored before anything is checked. *)
ReadForSubmit(w, r, c) ==
    /\ worker[w].at = "idle" /\ run[r] # "absent"
    /\ token[c].run = r
    /\ worker' = [Outdated(r) EXCEPT ![w] = [Free EXCEPT !.at = "requested", !.run = r, !.token = c,
                                                      !.fresh = TRUE, !.owner = TRUE]]
    /\ NewStep(r, "open")
    /\ UNCHANGED <<rows, run, held, lease, noEffect, token, world, faults>>

(* What AuthorizeControlledAction asks of run, authority, lease and confirmation. *)
MayAct(r, c) ==
    /\ run[r] = "awaiting_confirmation" /\ held[r] = "no"
    /\ Authorized(r) /\ lease[r] = "valid" /\ token[c].is = "usable"

(* Mutation of AuthorizeAction: the confirmation is not consumed. *)
AuthorizeUnconsumed(w) ==
    /\ worker[w].at = "requested"
    /\ worker' = [worker EXCEPT ![w] = IF MayAct(R(w), worker[w].token) THEN To(w, "authorized") ELSE Free]
    /\ UNCHANGED <<rows, run, held, lease, evidence, world, faults>>

(* AuthorizeAction and AuthorizeControlledAction: the confirmation is consumed
   and the attempt stored in one transaction. *)
AuthorizeAction(w) ==
    LET c == worker[w].token
    IN  /\ worker[w].at = "requested"
        /\ IF MayAct(R(w), c)
             THEN /\ token' = [token EXCEPT ![c].is = "authorized"]
                  /\ worker' = [worker EXCEPT ![w] = To(w, "authorized")]
             ELSE worker' = [worker EXCEPT ![w] = Free] /\ UNCHANGED token
        /\ UNCHANGED <<rows, run, held, lease, step, noEffect, world, faults>>

(* Mutation of BeginSubmit: the version that was read is not compared. *)
BeginSubmitAnyVersion(w) ==
    /\ worker[w].at = "authorized"
    /\ run' = [run EXCEPT ![R(w)] = "submitting"]
    /\ worker' = [Bumped(R(w)) EXCEPT ![w] = To(w, "clicking")]
    /\ UNCHANGED <<rows, held, lease, evidence, world, faults>>

BeginSubmit(w) ==
    /\ worker[w].at = "authorized"
    /\ TransitionRun(w, "submitting", To(w, "clicking"))
    /\ UNCHANGED <<rows, held, lease, evidence, world, faults>>

(* PlaywrightRPAAdapter.Submit: one click for the first object that has no
   confirmed mapping, and what the runner makes of it. *)
ClickFinal(w) ==
    /\ worker[w].at = "clicking"
    /\ \E answer \in Answers, effect \in BOOLEAN :
          /\ answer \in {"success", "drift"} => effect
          /\ answer \in {"error", "noeffect"} => ~effect
          /\ answer # "error" => Pending # {}
          /\ LET o == IF Pending = {} THEN 0 ELSE FirstOf(Pending)
             IN  /\ written' = IF effect THEN [written EXCEPT ![o] = @ + 1] ELSE written
                 /\ worker' = [worker EXCEPT ![w] = [To(w, "answered") EXCEPT !.answer = answer,
                                                                              !.object = o]]
    /\ UNCHANGED <<rows, run, held, lease, evidence, interrupted, outrun, faults>>

(* The evidence of the click: a page of an unknown result does not name the
   object, and a runner that was killed leaves an empty one. *)
Seen(w) ==
    IF worker[w].answer = "unknown" THEN {0}
    ELSE IF worker[w].answer \in {"noeffect", "success", "drift"} THEN {worker[w].object} ELSE {}

Outcome(answer) ==
    IF answer \in {"lost", "unknown"} THEN "unknown"
    ELSE IF answer \in {"error", "noeffect"} THEN "failed" ELSE "verified"

(* CompleteControlledAction; step and evidence of an error and of an unknown
   result are stored before, whether or not that succeeds. *)
CompleteAction(w) ==
    LET c == worker[w].token  answer == worker[w].answer
        unknown == answer \in {"lost", "unknown"}
    IN  /\ worker[w].at = "answered"
        /\ \E kept \in BOOLEAN :
              /\ IF kept THEN UNCHANGED faults ELSE Fault
              /\ token' = [token EXCEPT ![c].is = Outcome(answer),
                                        ![c].shown = IF unknown /\ kept THEN Seen(w) ELSE {}]
              /\ IF answer = "error" /\ kept THEN SetStep(w, "failed") ELSE UNCHANGED step
        /\ worker' = [worker EXCEPT ![w] = IF unknown \/ answer = "error" THEN Ending(w, "closing", answer)
                                             ELSE To(w, "verifying")]
        /\ UNCHANGED <<rows, run, held, lease, noEffect, world>>

BeginVerify(w) ==
    /\ worker[w].at = "verifying"
    /\ TransitionRun(w, "verifying", To(w, "storing"))
    /\ UNCHANGED <<rows, held, lease, evidence, world, faults>>

StoreResult(w) ==
    LET c == worker[w].token  failed == worker[w].answer = "noeffect"
    IN  /\ worker[w].at = "storing"
        /\ token' = [token EXCEPT ![c].shown = Seen(w),
                                  ![c].is = IF worker[w].answer = "drift" THEN "drifted" ELSE @]
        /\ SetStep(w, IF failed THEN "failed" ELSE "listed")
        /\ noEffect' = [noEffect EXCEPT ![R(w)] = @ \/ failed]
        /\ worker' = [worker EXCEPT ![w] = IF failed THEN Ending(w, "closing", "noeffect") ELSE To(w, "mapping")]
        /\ UNCHANGED <<rows, run, held, lease, world, faults>>

(* Mutation of ConfirmMapping: the mappings that are pending are not counted. *)
ConfirmLastMapping(w) ==
    /\ worker[w].at = "mapping"
    /\ confirmed' = confirmed \cup {worker[w].object}
    /\ execution' = "succeeded"
    /\ worker' = [worker EXCEPT ![w] = Ending(w, "closing", "success")]
    /\ UNCHANGED <<bound, mapping, run, held, lease, evidence, world, faults>>

(* RecordCreatedObject with ConfirmPlatformEntityMapping, one transaction: the
   execution succeeds with the last mapping there is, unless a field has drifted.
   A statement may fail, and what is stored may not be known to the call. *)
ConfirmMapping(w) ==
    LET o == worker[w].object  drift == worker[w].answer = "drift"
        valid == mapping[o] = R(w) /\ bound = R(w) /\ o \in Pending
        done  == execution = "running" /\ ~drift /\ \A p \in Pending \ {o} : mapping[p] = 0
        queried == worker[w].token = 0
        left  == IF queried THEN "continuing" ELSE "releasing"
    IN  /\ worker[w].at = "mapping"
        /\ \/ /\ valid
              /\ confirmed' = confirmed \cup {o}
              /\ execution' = IF done THEN "succeeded" ELSE execution
           \/ UNCHANGED <<confirmed, execution>>
        /\ \/ /\ valid /\ o \in confirmed' /\ UNCHANGED faults
              /\ worker' = [worker EXCEPT ![w] =
                     IF execution' = "succeeded" \/ (drift /\ ~queried) THEN Ending(w, "closing", worker[w].answer)
                     ELSE Ending(w, left, "success")]
           \/ /\ IF valid THEN Fault ELSE UNCHANGED faults
              /\ worker' = [worker EXCEPT ![w] = IF queried THEN Free ELSE Ending(w, "closing", "error")]
        /\ UNCHANGED <<bound, mapping, run, held, lease, evidence, world>>

ReleaseRunLease(w) ==
    /\ worker[w].at = "releasing"
    /\ IF worker[w].fresh /\ lease[R(w)] # "none"
         THEN /\ lease' = [lease EXCEPT ![R(w)] = "none"]
              /\ worker' = [Bumped(R(w)) EXCEPT ![w] = To(w, "continuing")]
         ELSE worker' = [worker EXCEPT ![w] = Free] /\ UNCHANGED lease
    /\ UNCHANGED <<rows, run, held, evidence, world, faults>>

(* A query of the run has recorded that it found no effect, or is about to. *)
FoundNothing(r) ==
    noEffect[r] \/ \E v \in Workers : R(v) = r /\ worker[v].at = "querying" /\ worker[v].answer = "noeffect"

Continue(w) ==
    /\ worker[w].at = "continuing"
    /\ TransitionRun(w, "environment_check", Free)
    /\ outrun' = (outrun \/ (worker[w].fresh /\ FoundNothing(R(w))))
    /\ UNCHANGED <<rows, held, lease, evidence, written, interrupted, faults>>

Ended(answer) ==
    IF answer \in {"error", "noeffect"} THEN "failed"
    ELSE IF answer \in {"lost", "unknown"} THEN "result_unknown"
    ELSE IF answer = "drift" THEN "partial" ELSE "succeeded"

(* transitionTerminal; the lease of the run is released if that succeeds. *)
CloseRun(w) ==
    /\ worker[w].at = "closing"
    /\ TransitionRun(w, Ended(worker[w].answer), Free)
    /\ \/ /\ lease' = IF worker[w].fresh THEN [lease EXCEPT ![R(w)] = "none"] ELSE lease
          /\ UNCHANGED faults
       \/ Fault /\ UNCHANGED lease
    /\ UNCHANGED <<rows, held, evidence, world>>
-----------------------------------------------------------------------------
(* ReconcileUnknownFromPlatform and ReconcileResultUnknown. *)

(* The runner searches the object of the next form. *)
ReadForReconcile(w, r) ==
    /\ worker[w].at = "idle"
    /\ lease[r] = "none"
    /\ \/ /\ run[r] = "partial"
          /\ worker' = [worker EXCEPT ![w] = [Free EXCEPT !.at = "reverifying", !.run = r, !.fresh = TRUE]]
       \/ /\ run[r] = "result_unknown" /\ Pending # {}
          /\ \E found \in {"noeffect", "success", "drift"} :
                /\ (found = "noeffect") <=> (written[FirstOf(Pending)] = 0)
                /\ worker' = [worker EXCEPT ![w] = [Free EXCEPT !.at = "querying", !.run = r, !.fresh = TRUE,
                                                           !.object = FirstOf(Pending), !.answer = found]]
    /\ UNCHANGED <<rows, run, held, lease, evidence, world, faults>>

(* The run is read again, and what was found is recorded.  That the object
   exists counts only with evidence of a click in an unknown step. *)
Query(w) ==
    LET r == R(w)  nothing == worker[w].answer = "noeffect"
        clicked == \E c \in Used(r) : token[c].is = "unknown" /\ token[c].shown # {}
    IN  /\ worker[w].at = "querying"
        /\ IF run[r] = "result_unknown" /\ lease[r] = "none" /\ (nothing \/ clicked)
             THEN /\ NewStep(r, "listed")
                  /\ noEffect' = [noEffect EXCEPT ![r] = @ \/ nothing]
                  /\ worker' = [Outdated(r) EXCEPT
                        ![w] = [IF nothing THEN Ending(w, "closing", "noeffect") ELSE To(w, "mapping")
                                    EXCEPT !.fresh = TRUE]]
             ELSE worker' = [worker EXCEPT ![w] = Free] /\ UNCHANGED <<step, noEffect>>
        /\ UNCHANGED <<rows, run, held, lease, token, world, faults>>

(* A project whose fields had drifted has them now. *)
Reverify(w) ==
    LET r == R(w)
    IN  /\ worker[w].at = "reverifying"
        /\ IF /\ run[r] = "partial" /\ lease[r] = "none" /\ 1 \in confirmed
              /\ \E c \in Used(r) : token[c].is = "drifted" /\ token[c].shown = {1}
             THEN /\ NewStep(r, "listed")
                  /\ worker' = [Outdated(r) EXCEPT ![w] = [To(w, "rechecked") EXCEPT !.fresh = TRUE]]
             ELSE worker' = [worker EXCEPT ![w] = Free] /\ UNCHANGED step
        /\ UNCHANGED <<rows, run, held, lease, noEffect, token, world, faults>>

LeavePartial(w) ==
    /\ worker[w].at = "rechecked"
    /\ IF Authorized(R(w)) THEN TransitionRun(w, "environment_check", Free)
                           ELSE worker' = [worker EXCEPT ![w] = Free] /\ UNCHANGED run
    /\ UNCHANGED <<rows, held, lease, evidence, world, faults>>
-----------------------------------------------------------------------------
(* What the calls ask TransitionRun for, and runTransitions. *)
Transitions == {"preparing", "authorized", "verifying", "continuing", "rechecked", "closing"}

NextState(call) ==
    CASE call.at = "preparing" -> "awaiting_confirmation"
      [] call.at = "authorized" -> "submitting"
      [] call.at = "verifying" -> "verifying"
      [] call.at = "closing" -> Ended(call.answer)
      [] OTHER -> "environment_check"

CanTransition == [state \in RunState |->
    CASE state = "queued" -> {"environment_check", "cancelled"}
      [] state = "environment_check" -> {"awaiting_takeover", "preparing", "failed", "cancelled"}
      [] state = "awaiting_takeover" -> {"environment_check", "preparing", "cancelled"}
      [] state = "preparing" -> {"awaiting_takeover", "awaiting_confirmation", "failed", "partial",
                                 "result_unknown", "cancelled"}
      [] state = "awaiting_confirmation" -> {"awaiting_takeover", "preparing", "submitting", "failed",
                                             "cancelled"}
      [] state = "submitting" -> {"verifying", "failed", "partial", "result_unknown"}
      [] state = "verifying" -> {"environment_check", "succeeded", "failed", "partial", "result_unknown"}
      [] state = "partial" -> {"environment_check", "succeeded"}
      [] state = "result_unknown" -> {"environment_check", "succeeded", "failed"}
      [] OTHER -> {}]
-----------------------------------------------------------------------------
(* The process stops, or a statement fails and the call is given up. *)
CallStops(w) ==
    /\ worker[w].at # "idle" /\ Fault
    /\ worker' = [worker EXCEPT ![w] = Free]
    /\ UNCHANGED <<rows, run, held, lease, evidence, world>>

WorkerStep(w) ==
    \/ \E r \in BrowserRuns : BeginPrepare(w, r) \/ ReadForReconcile(w, r)
    \/ \E r \in BrowserRuns, c \in Tokens : ReadForSubmit(w, r, c)
    \/ Prepared(w) \/ PrepareFails(w)
    \/ AuthorizeAction(w) \/ BeginSubmit(w) \/ ClickFinal(w) \/ CompleteAction(w)
    \/ BeginVerify(w) \/ StoreResult(w) \/ ConfirmMapping(w)
    \/ ReleaseRunLease(w) \/ Continue(w) \/ CloseRun(w)
    \/ Query(w) \/ Reverify(w) \/ LeavePartial(w)
    \/ CallStops(w)

BrowserNext ==
    \/ \E r \in BrowserRuns : \/ CreateRun(r) \/ AttachRun(r) \/ CheckEnvironment(r) \/ ControlRun(r)
                       \/ AcquireLease(r) \/ LeaseRunsOut(r) \/ ReleaseLease(r)
                       \/ \E c \in Tokens : IssueConfirmation(r, c)
    \/ \E o \in Objects : BindMapping(o)
    \/ ResetExecution \/ InvalidateExecution
    \/ \E w \in Workers : WorkerStep(w)

Init == BrowserInit

Spec == Init /\ [][BrowserNext]_vars
-----------------------------------------------------------------------------
(* Properties. *)

(* "Never permit an automatic second click": an object is created at most once,
   whatever workers die, results are unknown, and runs are released for another,
   as long as no operator takes a run away from a submit in progress, and no run
   goes on although a second query of it found that nothing was created. *)
ObjectCreatedOnce == ~interrupted /\ ~outrun => \A o \in Objects : written[o] <= 1

(* ... because an execution is released by its run, for another to click, only
   when nothing is left on the platform that no mapping confirms. *)
ReleasedWhenClean ==
    [][~interrupted /\ ~outrun /\ bound # 0 /\ bound' # bound => \A o \in Pending : written[o] = 0]_vars

(* ... and because two submits never get past the transition to submitting at a
   time, with one confirmation or two, by one run or two. *)
OneSubmitAtATime ==
    ~interrupted => Cardinality({w \in Workers : worker[w].at \in {"clicking", "answered"}}) <= 1

(* CanTransition, which TransitionRun asks after the version, never refuses what a
   call that holds the version wants, operators and reconciliations included: it
   would leave a run that has clicked without the state that tells so. *)
TransitionsAllowed ==
    \A w \in Workers : worker[w].fresh /\ worker[w].at \in Transitions =>
        NextState(worker[w]) \in CanTransition[run[R(w)]]

(* A final confirmation is for one creation: workers that die between the
   consumption and the click, retries, reconciliations and takeovers included,
   no more is created than confirmations were consumed. *)
EachCreationConfirmed ==
    Cardinality(UNION {{o} \X (1..written[o]) : o \in Objects})
        <= Cardinality({c \in Tokens : token[c].is \in Attempt})

(* An execution, and a run of it, is recorded as succeeded only when each object
   that has a mapping is confirmed and on the platform, also over several runs
   and reconciliations. *)
SuccessIsWritten ==
    execution = "succeeded" \/ (\E r \in BrowserRuns : run[r] = "succeeded") =>
        \A o \in Objects : mapping[o] # 0 => o \in confirmed /\ written[o] >= 1
=============================================================================
