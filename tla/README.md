# Cookies: a formal model of the durable work behind the platform

Cookies is an advertising workbench: a Go server (`cmd/cookies-api`, `internal/`), a MySQL
database, an object store, and a TypeScript front end. Nearly everything that takes time
(image and video generation, document parsing, research, rendering, strategy drafts) is a row in
`platform_jobs` that some worker loop claims, executes and finishes, while other tables mirror what
became of it. This directory models that machinery in TLA+: the shared job runtime, the
provider jobs that run on it, the intake by which a generated output becomes a project asset, agent
tasks, the parsing of knowledge documents with its paid visual fallback, and the browser runs
that create objects on an advertising platform after a person has confirmed each. TLC checks the
models on small instances; TLAPS proves the safety properties for every value of the constants.

Paths below are relative to `src/`; `platform/` stands for `internal/platform/`.

## 1. Inventory

### Components with a model

**Shared job runtime** (`platform/jobruntime`, `platform/contract/job.go`).
State: the rows of `platform_jobs` (status, attempt_count/max_attempts, lock_owner, locked_at,
available_at, cancel_requested_at, version) and, in each runner, the `Claim` it holds.
Operations: `Enqueue`, `Get`, `RequestCancel` from callers; `Claim`, `RenewLease`,
`UpdateProgress`, `IsCancelRequested`, `CancelClaim`, `Succeed`, `Fail`, `Reschedule` from a
runner; `ReclaimExpired` from any runner. Every operation is one SQL statement (recovery is three)
and nothing spans two of them. Hard: a runner that stalls past its lease and comes back; recovery
by any runner at any time; a cancellation that arrives between two statements; runners of several
processes under the same names. Correct when: a statement reaches only the attempt its runner
claimed; no job runs more often than allowed; an accepted cancellation takes effect; a job that
was queued ends.

**Provider image jobs** (`platform/provider`: `service.go`, `execution.go`, `scheduler.go`,
`mysql_store.go`). State: `provider_jobs` with its outputs, submission state and version. The
platform job executes it; each attempt of it runs `RuntimeHandler`, which submits to a model vendor,
polls, and hands the outputs to Assets. Hard: a submission costs money and its answer may be lost;
attempts overlap after a lost lease; two rows (public job, execution) and a third component
(intake) must agree though no transaction covers two of them. Correct when: one submission per
routed job; a final and truthful public status; nothing reported that Assets did not confirm.

**Generated asset intake** (`platform/assets/generated_intake_service.go`, with
`mysql_repository.go`, `upload_service.go` and the blob stores). State: `generated_intakes`, the
asset tables and `assets_outbox`, and two objects, one in the quarantine bucket and one in the
assets bucket. A worker claims the row for five minutes without a heartbeat, fetches, stages,
checks, stores, commits. Hard: two workers on one intake under one name; database and object
store fail separately; an error of a commit says nothing about its outcome. Correct when: one asset
and one event; nothing unchecked becomes an asset; the asset keeps its object.

**Agent tasks** (`platform/agent`: `dispatcher.go`, `runtime_handler.go`, `mysql_store.go`; the
cancellation in `internal/systems/strategy/httpapi/server.go`). State: `platform_agent_tasks` and
`platform_agent_dispatches`, beside the job. A dispatcher enqueues a job for a pending record and then
marks the task queued; the handler moves the task to running and to its end; a client cancels
job, task and record in three statements. Hard: dispatchers share records without a lease, the job may
run before its task is queued, task and job are written by different statements. Correct when: a
task ends once; a job succeeded only if its task did. Not modelled: `service.go`, a diagnosis within its
request.

**Knowledge documents** (`platform/knowledge`: `service.go`, `document_parse_job.go`, `controls.go`,
`reconcile.go`). State: the row of the document with its chunks, one parse job after another. Hard:
handlers write the row without a look at its status; jobs end without their handler, and only
`JobStateReconciler` tells the document; retry, cancellation and reconciler race. Correct when: what
is shown as parsed has chunks; a document nobody works on is given up.

**Visual fallback** (`document_vision.go`, `document_vision_job.go`, `document_vision_tasks.go`,
`document_vision_reconciliation.go`). State: the vision columns of the document, a row per page
range (task), the stored pages, the reconciliations. A run submits page ranges to a paid parser and
polls them; when nobody knows whether a submission was accepted, one operator proposes an answer and
another one confirms it. Hard: the answer of the parser and the checkpoint after it may both be lost;
the parser may leave out pages it was asked for, and then the fallback is `partial` and may be attempted
again; attempts follow each other and share the rows of the pages; a confirmation has to lead to a job.
Correct when: a page range is submitted once; success means a stored result of every page that was
selected; what was scheduled has a job. Of knowledge, research and
import jobs, search, deletion and the conversion of the input are not modelled.

**Browser runs and controlled executions** (`platform/browserautomation`: `service.go`, `worker.go`,
`mysql_repository.go`, `rparunner`; `internal/systems/delivery`: `mysql_controlled_authority.go`,
`browser_rpa_authority.go`, `plan_browser_rpa.go`). State: an execution with its platform mappings,
runs with lease, steps, evidence and controls, final confirmations with their attempts, and the
platform itself. A worker fills a form, an operator confirms, a worker clicks once and records what
it saw; an unknown result is only ever read back. Hard: a worker dies around the click; a failed run is
released for another one on the evidence it left; an operator interferes. Correct when: no
object is created twice or without a confirmation; success means that all of them are there. Not
modelled: the writes of a manual takeover, kill switches, changes of existing promotions, the
`webapi` driver; and of delivery, plans, change sets and approvals.

### Components without a model yet

| Component | State and operations | What is hard about it, and what would make it correct |
|---|---|---|
| Provider video jobs (`provider/video*.go`) | the same row; `submitVideoJob`, `pollVideoJob` | no in-flight record around the submission; otherwise as for images |
| Uploads, renders, imports (`platform/assets`) | `upload_sessions`, `external_imports`; create, put, finalize, complete | finalize twice or after expiry; the durable object deleted after an ambiguous commit, as in the intake |
| Event outbox (`platform/eventoutbox`) | `event_outbox`, `event_consumptions`; append, publish, consume once | two dispatchers, publish then crash, reordering after a failure; every event delivered, consumed once |
| Connector (`platform/connector`) | accounts, sync runs, cursors, metric ledger, patrols | resumed syncs, late facts; knowledge time never goes back |
| Remix and media (`platform/remix`, `platform/media`) | render jobs, quality records, ffmpeg command lines | a render job against its asset |
| Media understanding (`platform/mediaunderstanding`) | artifacts of a job | stale artifact versions |
| Provider configuration and adapters | routes, credentials; HTTP clients | outside services: a nondeterministic answer in `ProviderJob` |
| Projects, identity, audit, ids, config, database, migrations | versioned rows, sessions, start-up | one transaction per request; no interleaving of their own |
| HTTP server, commands, front end, Node demo server | routing, wiring, user interface | the operations behind them are modelled where they are implemented |
| Research and import jobs, search (`platform/knowledge`) | domain rows of jobs, `reconcile.go` closes them | the reconciler pattern of documents |
| Strategy, Creative, Insights, the rest of Delivery (`internal/systems`) | drafts, tasks, packages, plans, approvals | mostly content and versioned rows; they reach the runtime through the components above |
| Integrations (`internal/integrations`) | none | clients of outside services |

### How they interact

```
 HTTP handlers ----Enqueue / RequestCancel----> platform_jobs <---Claim, Renew, finish, Reclaim--- shared-runtime-1..3
      |                                             ^                                                     | handler
      | CreateImageJob                              | Schedule                                            v
      +--------------> provider_jobs (version) -----+            RuntimeHandler: submit, poll, hand over, finalize
                             ^                                                     |  Create / Get
                             +---- status of the intake, copied by polling ---- generated_intakes <--Claim-- generated-intake
                                                                                   |
                                                                        quarantine, assets buckets; assets_outbox
```

```
 agent dispatcher ---Enqueue---> platform_jobs ---handler---> platform_agent_tasks <---RequestCancel--- Strategy API
 CreateDocument, Retry, Start --Enqueue-->  "  ---handler---> documents, vision tasks <--- JobStateReconciler, operators
                                                                       | SubmitPrepared (paid)
                                                                       v  external parser

 delivery execution, mappings <--VerifyAuthority, ConfirmMapping-- browser worker --click--> advertising platform
                                            operator --confirm, control--> browser run       (and read back)
```

There are no callbacks from the runtime to the owner of a job: what happens to a job without its
handler (recovery, cancellation of a queued job) is seen by nobody else. `knowledge` has a
reconciler for that, `provider` and `agent` have none. Browser runs are no jobs of the runtime:
each step of theirs is a request, and a run that stops stays where it is until a person goes on.

`PROJECT.json` lists every component, and under "hazards" what is hard to test in this code, each
at its line, with the properties that cover it or the reason why none does yet.

## 2. Modules

| Module | What it is |
|---|---|
| `JobLifecycle` | What the runtime promises: the status machine of `contract.JobStatus` and the attempt budget. No workers, leases or requests. |
| `JobRuntime` | The rows of `platform_jobs` and the runners. One action per SQL statement or step of a runner. Implements `JobLifecycle`. |
| `LeasedRuntime` | One job of `JobRuntime`, seen as a job of `LeasedJob`: the refinement mapping. |
| `MCJobRuntime`, `MCLeasedRuntime` | Constants of the small instances. |
| `JobRuntimeProofs` | Theorems about `JobRuntime`, and that each of its jobs implements `LeasedJob`. |
| `ProviderJob` | One public image job and the overlapping handler runs that advance it. Its execution implements `JobLifecycle`. |
| `ProviderJobProofs` | Theorems about `ProviderJob`. |
| `IntakeLifecycle` | What Assets promises of an intake to those who hand outputs over. |
| `AssetIntake` | One generated intake, its two objects and the workers on it. |
| `MCAssetIntake` | Constants of its instances. |
| `AssetIntakeProofs` | Theorems about `AssetIntake`. |
| `LeasedJob` | A few jobs as the handler of a domain sees them: what `JobLifecycle` promises, the cancellation request, and the runs of the handler, late ones included. |
| `LeasedJobProofs` | Lemmas about these jobs, whatever the handler does. |
| `AgentTask` | One agent task over one leased job. |
| `AgentTaskProofs` | Theorems about `AgentTask`. |
| `KnowledgeDocument` | One document over its parse jobs. |
| `KnowledgeDocumentProofs` | Theorems about `KnowledgeDocument`. |
| `DocumentVision` | The visual fallback of one document over its jobs. |
| `PlatformJobs` | The composition: the three domains over `LeasedJob`, one kind of job at work in a behaviour. |
| `MCPlatformJobs` | Constants and bound of its instance. |
| `DocumentVisionProofs` | Theorems about `DocumentVision` and `PlatformJobs`. |
| `BrowserRun` | One controlled execution, its browser runs, workers and operator. |
| `MCBrowserRun` | The symmetry of its instance. |
| `BrowserRunProofs` | Theorems about `BrowserRun`. |

The detailed modules compose through what they promise each other. `ProviderJob` does not
contain the runtime: it sees of it what `JobLifecycle` allows (`Claim`, `Recover`, `Settle`), with
`FollowsLifecycle` checking that it keeps to that, and `JobRuntime` is shown to implement the same
`JobLifecycle`. In the same way the intake is in `ProviderJob` a row that is created once and ends
once: `IntakeLifecycle` states it, `AssetIntake` implements it (`ImplementsIntake`), and the steps of
`ProviderJob` on its intakes are steps of it (`FollowsIntakes`).

`LeasedJob` does the same for the other domains, which EXTEND it: it is a job without runners, leases
and time, in which a statement reaches the row only if its run is the current attempt.
`LeasedRuntime` shows that the runtime gives this: each job of `JobRuntime` whose kind has a handler
implements `LeasedSpec`, what the runtime does in `LeasedJob` with as many faults as there are. (Not for
runners of two processes under one name, finding 2; the domains then see more than `LeasedJob`
allows.) `FollowsLifecycle` checks that what the domains do with their jobs stays within `JobLifecycle`. In `PlatformJobs`
the variable `kind` says which handler `Worker.RunOnce` picks; since no two kinds share a row,
one of them at work in a behaviour loses nothing.

### JobRuntime and the code

| Model | Code |
|---|---|
| `status`, `attempts`, `owner`, `cancelReq` | the columns of `platform_jobs` |
| `leaseAge`, `delay` | `now - locked_at` up to the lease; `available_at - now` |
| `seen` | the version a client holds, as the status it read with it; "none" once a statement has bumped the version |
| `pc`, `held`, `heldAttempt`, `outcome` | where a runner is in `RecoveryRunner.RunOnce` and `Worker.RunOnce`, its `Claim`, and what `runHandler` returned |
| `raced` | history: a cancellation was accepted after its claimant's check |
| `StartRecovery`, `ReclaimCancelled`, `ReclaimExhausted`, `ReclaimAbandoned` | the three statements of `ReclaimExpired`, which other runners may interleave |
| `Claim` | `MySQLStore.Claim`; a kind without handler goes straight to `Fail` |
| `RenewLease`, `LoseLease`, `UpdateProgress` | the heartbeat of `runHandler` and the progress of a handler |
| `CheckCancel`, `CancelClaim` | `runtime.go:121-132` |
| `Succeed`, `Reschedule`, `Fail`, `DropLostLease` | `runtime.go:133-154`, with the guard `status = 'running' AND lock_owner = ?` in `Owns` |
| `Abandon` | the process stops or a statement fails; the row stays as it is |
| `Tick` | time, for every row at once |

`contract.Job.CanTransitionTo` does not know the step from running back to queued that
`Reschedule` and `ReclaimExpired` make; `JobLifecycle` has it as `Requeue`, from the statements.

### ProviderJob and the code

`job` is the row with its outputs; `fresh[k]` says that the version run k holds is still current,
which is all the optimistic lock of `MySQLStore.Update` looks at. `view` and `at` are the outputs
in memory and the loop index of `ProcessImageJob`. `pc` names the next call of the handler: the
actions of a run are its `Get`s and `Update`s, the calls of the vendor (`Submit`, `Poll`) and of
Assets (`CreateIntake`, `GetIntake`). Between any two of them the run may crash, lose its lease or
be overtaken. `Update` may succeed with its answer lost. `CreateIntake` keeps the effect of the
idempotency key: the request hash covers the time of the run (`service.go:365`), so the intake of
another run is a conflict.

### AssetIntake and the code

`status`, `attempts`, `owner`, `stale` are the row; `events` counts the rows of `assets_outbox`;
`staged` and `durable` are the two objects, whose keys depend on the intake and its target only,
so that all workers share them; `content` is what the checks would find. `unclear` records that a
worker which had stored the object met an error that makes it delete the object. `Commit`,
`CommitRefused` and `CommitFails` are the outcomes of `complete`, with the re-read after an
ambiguous error.

### LeasedJob and the code

`status`, `attempts`, `cancelReq` are the columns of `platform_jobs`. `pc[<<j, k>>]` is where the run
of the handler in attempt `k` of job `j` is, up to the two statements of `Worker.RunOnce` that
follow it (`CheckCancel`, `Settle`). `Expire` recovers a row whose run is dead, or, as a fault, one
whose run is only slow; that run goes on, and its writes to the rows of its domain are not fenced.
`Lapse` and `GiveUp` are these two events without the bound on faults, which is one of the models only;
`Return` is all the runtime knows of a handler.

`LeasedRuntime` maps attempt `k` of a job to the runner that holds it, if there is one. It is
"claimed" while the handler is at work, what the handler returned before the check, and what
that calls for after it; a run that was told that its lease is lost is "off". `CheckCancel` of `LeasedJob`
is two statements of the runtime when there is a request: it happens at `CancelClaim`.

### AgentTask and the code

`task` and `dispatch` are the status columns, `linked` says that `job_id` is set. A dispatcher goes
through `Pick`, `EnqueueJob`, `MarkQueued`; `client` is where `cancelAgentTask` is and whether the
version it read is current. `Load`, `MarkRunning`, `Work`, `MarkRetrying`, `MarkFailed`,
`CheckRequest`, `MarkRunningCancelled`, `MarkSucceeded` are the calls of `RuntimeHandler` in order;
`Transition` is the conditional update of the store, whose answer may be lost. The handler of the
domain is the outcome of `Work`.

### KnowledgeDocument and the code

`doc` and `chunks` are the row; `after` is the one comparison of `updated_at` the reconciler makes,
`fresh` that the row was not written since it read it. A run goes through the checkpoints of
`HandleDocumentParseJob` (`Checkpoint`, with `Then` for what may follow each), `PersistParsed`,
`MarkParseFailed`, `RecordRetry`. `CancelDocumentParse`, `RetryDocumentParse` and
`reconcileOneDocumentJob` are sequences of actions of `canceller`, `retrier` and `reconciler`, and may
stop between any two.

### DocumentVision and the code

`vision`, `attempt` are columns of the document, `task` and `recon` the rows of page ranges and
reconciliations, `ready` the pages of the document whose row has a result (the rows are shared by the
attempts; `BeginAttempt` takes the status from the pages it selects), `PagesOf` the `page_numbers` of
a range, `sent` counts the calls of the paid parser. `hand` is the
task a run has read and works on. `PersistIntent` is the conditional update before the call,
`SubmitPrepared` the call, `PersistSubmission` the checkpoint after it, `MarkTaskUnknown` what happens
to a task nobody knows the outcome of. `PersistTaskResult` stores some of the pages of its range, at
least one, which is what `validateDocumentVisionResult` asks of an answer.
`finalizeDocumentVisionAttempt` is `CountRemaining`, `ReadPages` and `Finalize`: two queries and the
transaction, which writes `succeeded` or `partial` by what the second query found, if the attempt is
still that of the document. From `partial` a client may start another attempt, and a redelivered run
does not return early. `ProposeReconciliation` to `MarkScheduled` are the two
operators and what follows; `RecoverOrphan` and `FindAbandoned`/`CloseAbandoned` are
`JobStateReconciler`.

### BrowserRun and the code

`execution`, `bound`, `mapping`, `confirmed` are the rows of delivery; `run`, `held`, `lease`, `step`,
`noEffect` those of a run and its latest step and evidence; `token` the final confirmations, each
with its attempt once it is consumed (`shown`: which objects its evidence is about). `worker[w]` is a
call in progress: `fresh` says that the version of the run it holds is current, `owner` that
it put the latest step. `written` counts the objects on the platform. A call goes through
`BeginPrepare`, `Prepared`; or `ReadForSubmit`, `AuthorizeAction`, `BeginSubmit`, `ClickFinal`,
`CompleteAction`, `BeginVerify`, `StoreResult`, `ConfirmMapping`, `ReleaseRunLease`, `Continue`; or
`ReadForReconcile`, `Query`, `Reverify`, `LeavePartial`; or `CloseRun` from anywhere. The search of the
platform comes with `ReadForReconcile`, before the run is read again and the result is stored in `Query`.
`SafeToReset` and `SafeToRebind` are the two tests by which delivery takes a failed run out of
an execution. `TransitionRun` is the comparison of versions alone; that `CanTransition`, which the code
asks as well, never refuses is a property, `TransitionsAllowed`.

Two variables are history. `interrupted`: an operator took a run away from a submit in progress.
`outrun`: a run went on (`Continue`) although a query of it had found, or was about to record, that
nothing was created. These are the two behaviours in which the evidence of a run does not tell
what it did; see section 4.

## 3. Runs

| Run | Properties | Instance | What it shows |
|---|---|---|---|
| `JobRuntimeSafety` | `TypeOK`, `GuardMeansOwnAttempt`, `AttemptsAreDistinct`, `AttemptBudget`, `VersionTellsStatus`, `CancellationWins`, `ReleasedByClaimantOrExpiry`, `ImplementsLifecycle`, `ImplementsLeasedJob` | two jobs (2 and 1 attempts, the second without handler), two runners with names of their own, lease of 2 ticks; 637 661 states | the guard on `lock_owner` does what it is for, and the runtime is what the domains take it for |
| `JobRuntimeLiveness` | `JobsEnd`, `CancellationTakesEffect` | one job, two runners, lease of 1 tick; 12 021 states | jobs end, cancellations take effect |
| `JobRuntimeCancelRace` | `NoUnclaimableJob`, violated | as above, two jobs | finding 1 |
| `JobRuntimeSharedOwner` | `AttemptBudget`, violated | two runners under one name | finding 2 |
| `ProviderJobRouted` | `TypeOK`, `AtMostOneSubmission`, `VerdictIsTruthful`, `HandoffAgrees`, `SuccessMeansTerminal`, `TerminalIsFinal`, `FollowsLifecycle` | three attempts, two outputs; 270 739 states | the handler runs keep one job consistent |
| `ProviderJobUnrouted` | `ExecutionEnds` | three attempts, one output, no route; 105 503 states | every execution ends |
| `ProviderJobExhausted` | `IngestedIsRetained`, violated | three attempts, one output | finding 3 |
| `ProviderJobStranded` | `PublicJobEnds`, violated | two attempts, one output | finding 4 |
| `AssetIntake` | `TypeOK`, `OneAsset`, `OnlyScreenedContent`, `ObjectOutlivesLosers`, `ImplementsIntake`, `IntakeEnds` | two workers under one name, three attempts; 14 479 states | one asset however many workers |
| `AssetIntakeObject` | `AssetHasObject`, violated | two workers, two attempts | finding 5 |
| `PlatformJobs` | `JobSuccessIsRecorded`, `TaskEndsOnce`, `ShownDocumentHasChunks`, `AbandonedIsClosed`, `SubmittedAtMostOnce`, `SuccessIsStored`, `ScheduledHasJob`, `FollowsLifecycle` | four jobs (3, 1, 1, 1 attempts), one fault, two dispatchers, two vision attempts of one page range, of two pages and of one of them; 884 336 states | rows and jobs of the three domains agree, the paid parser is called once, and success means stored pages |
| `BrowserRun` | `BrowserType`, `ObjectCreatedOnce`, `EachCreationConfirmed`, `OneSubmitAtATime`, `TransitionsAllowed`, `SuccessIsWritten`, `ReleasedWhenClean` | two runs, two objects, two confirmations, two workers, one fault; 3 048 113 states | one confirmed click per object, and a true success |

Why these bounds are enough to meet the interesting cases:

- Two runners are needed, and suffice, for a stalled claimant and its successor, and for two
  recoveries at once; two attempts for a job that is recovered and then exhausted. A lease of two
  ticks lets a renewal come before and after a tick. The second job keeps the multi-row recovery
  statements honest (a row of each kind in one statement) and covers the kind without a handler.
- A provider job needs three attempts for submit, hand over and finalize in three runs, the last
  of which only finalizes; with three runs up to three overlap. Two outputs give partial success.
- An intake needs two attempts for a stale worker and its successor; three is what the code has.
- In `PlatformJobs` jobs 1 and 2 are those of a document and its retry, or of two attempts of a
  fallback, jobs 3 and 4 those of a reconciled page range of each; an agent task has only its first. Three
  execution attempts are what it takes to submit, poll and finalize with a call that defers in
  between, and give a late run and its successor; the one fault is a run that dies, one that outlives
  its lease, or a statement that fails. The first attempt of a fallback selects two pages, so that an answer may leave
  one out, the second attempt one of them again, so that a late run of the first has something to claim wrongly.
  `Bound` of `MCPlatformJobs` keeps the instance small: a document is retried once; in a fallback only
  the job of the first attempt is cancelled, and a behaviour has a second attempt or a reconciliation,
  not both, the latter with at most two runs of the first job. What that cuts off (a reconciliation
  beside a second attempt, the cancellation of a later job) is left to the theorems, which hold for all values.
- In `BrowserRun` two objects are a project and its promotion, so that an execution goes on after its
  first; the second run is the one a failed run is released for; two confirmations and two workers give two
  submits at a time. The one fault is a call that stops, a write that fails, a lease that runs out or is given up,
  or a step of the operator, who controls the first run only (`Controlled`; the theorems hold for any
  set of controlled runs). Workers are interchangeable, and the run has only invariants and a
  property of single steps, none of which names a worker, so that the symmetry is sound.
- The bounds are `Lease`, `MaxDelay`, `MaxAttempts`, `OutputCount`, `JobCount` (retries of a document),
  `AttemptCount`, `TaskCount`, `RunCount`, `ObjectCount`, `ConfirmCount`,
  `Controlled`, `MaxFaults` and `Bound`; nothing else is capped.
  `MaxAttempts` of the code is 100 for image executions (`imageExecutionMaxAttempts`): there the proofs,
  which hold for all values, say what the runs cannot.

Deadlock is checked for `JobRuntime`, where a runner can always start again. A provider job, an
intake, an agent task, a document and an execution come to rest, so their configurations say `CHECK_DEADLOCK FALSE`.

Every property of a passing run has a mutant in `PROJECT.json`: a definition of the code replaced by
a plausible mistake, with which TLC finds the property violated.

### Fairness

`startWorker` (`cmd/cookies-api/main.go:1523-1543`) calls `RunOnce` for ever and goes on after an
error, so a runner that can take a step takes one: weak fairness of `Recover(w) \/ Execute(w)`, of
`Process(w)` for intakes, and of a run of the provider handler. Handlers return in the end: their
contexts have deadlines. `JobStateReconciler` is such a loop too (`main.go:698`): weak fairness of
`FindAbandoned`, and strong fairness of `CloseAbandoned`, the guarded update after its query, which
its process is not stopped before every time. `Abandon` and `Crash` are always possible and never fair; what is
excluded, by strong fairness of the three recovery statements and of `Claim`, is that a process is
stopped before the same statement every time it is started. Time passes (`Tick`, `GoesStale`). No
fairness is assumed of callers, of renewals or of a particular answer of a vendor or of Assets.

## 4. Findings

1. **A cancelled job is put back in the queue** (`JobRuntimeCancelRace`). `runtime.go:121-123`
   promises that a job cancelled while a deferral is on its way is not "rescheduled into a
   queued-but-unclaimable state". The check and `Reschedule` are two statements and the second does
   not look at `cancel_requested_at`; recovery only looks at running rows. The job stays queued
   unless the client cancels it once more.
2. **Runners of two processes share their names** (`JobRuntimeSharedOwner`).
   `recovery_runner.go:14-16` allows several processes; `main.go:940-945` gives all of them
   `shared-runtime-1` to `-3`, and `lock_owner` is the only fence. A stalled runner then writes the
   claim of its namesake, and a job can run more often than `max_attempts`, a row that
   `contract.Job.Validate` rejects.
3. **An ingested output is given up** (`ProviderJobExhausted`). `execution.go:283-284` promises
   that ingested outputs are retained; the last attempt fails every output that is ingesting in
   `provider_outputs` without asking Assets, whose intake may have succeeded.
4. **A public job without an execution** (`ProviderJobStranded`). `execution.go:281-282` speaks of
   the job being moved to a terminal state when its attempts are exhausted; recovery, a failing
   write of the attempt, and a failing last write all end the execution and leave the public job.
5. **An asset without its object** (`AssetIntakeObject`). `mysql_repository.go:537-538` re-reads
   the row before the object may be deleted; when the re-read fails too, or a second worker on the
   same key meets a database error, `ProcessOnce` deletes the object of a committed asset.

Two more came up while the properties of `BrowserRun` were proved. No run shows them; the properties
are stated with the condition that excludes them, and both are listed under "hazards".

- **Evidence of no effect that is older than the click.** Two queries of a run with an unknown result overlap.
  The first finds the object and confirms its mapping; the second then searches for what is
  pending by now, the next object, which is not there yet, and stores evidence of no effect:
  `ReconcileResultUnknown` (`worker.go:539-556`) stores it before `TransitionRun` compares the version. The
  first moves the run on. When the run has clicked for the next object and the recording fails
  (`worker.go:396-400`), it is failed, and `ResetSafeFailedBrowserRpaExecution` takes the evidence from
  before the click for evidence about it: the next run creates the object again, against
  `rparunner/adapter.go:357-358`, "Never permit an automatic second click". `ObjectCreatedOnce` and
  `ReleasedWhenClean` exclude it by `outrun`; the theorems say that, next to an operator's interruption,
  there is no other way to a second creation in this model.
- **Success without all objects.** `ConfirmPlatformEntityMapping` (`mysql_controlled_authority.go:783`) counts
  the pending mappings that exist. When the creation of the mappings was interrupted
  (`browserautomation/service.go:226` speaks of it), the execution succeeds although a later object
  was never created. `SuccessIsWritten` therefore speaks of the objects that have a mapping.

## 5. Proofs

TLAPS proves, from the assumptions on the constants in each module (`JobAssumption`,
`WorkerAssumption`, `TimeAssumption`, `SeenAssumption`, `ProviderAssumption`, `IntakeAssumption`, `LeasedAssumption`,
`VisionAssumption`, `BrowserAssumption`) and nothing else unless said:

**JobRuntime** (any jobs, runners, attempts, lease). `TypeCorrect`, `VersionsTellStatus` and
`CancellationWinsOutsideTheRace` hold for any assignment of WorkerIDs. `OwnershipIsFenced`,
`AttemptsStayDistinct`, `AttemptBudgetHolds`, `OnlyClaimantOrExpiryReleases` and
`RuntimeImplementsLifecycle` assume `OwnersDistinct`: every runner has a name of its own. The
assumption holds within a process and not across two (finding 2), and the violated run shows that
it is needed. The argument: `Owns(w)` alone is not inductive, because it says nothing of *which*
attempt a row is in. `ClaimInv` adds that no active runner holds an attempt later than the
row's, that two active runners of one job hold different attempts, and that a row owned by a runner
is in the attempt it holds; every action but `Claim` leaves claims alone (`OnlyClaimClaims`). `BudgetInv` is
`AttemptBudget` with what enqueueing needs, that a job not yet stored has no attempts. `CancelInv`
says that a job cancelled while it ran is still running or is cancelled, and its claimant is not past
the check, unless the two raced. The refinement maps `status` and
`attempts` to themselves; the lemma `LifecycleStep` shows for each action that it is a step of
`JobLifecycle` or leaves both unchanged, with the sets of jobs that recovery moves.

`RuntimeImplementsLeasedJob` is the second refinement, to what the domains see of one job; it is why what is
proved of agent tasks and documents is about jobs of this runtime. It assumes `OwnersDistinct` too, and that
the kind of the job has a handler. A run is mapped to the runner that holds its attempt, of which
there is only one (`AttemptsAreDistinct`). `RunnerInv` adds what the mapping needs: an attempt held counts
from one, so that it is a run of `LeasedJob`; a running row that is still in the attempt of a runner carries
its name, so that `Owns` and `Current` agree in both directions; and who is about to cancel has
seen the request. A recovery statement moves many rows and is, for each, one `Lapse`, also when the
run goes on; a lost lease is `GiveUp`; a check that finds a request is a stutter.

**ProviderJob** (any number of attempts and outputs, with or without route). `TypeInv` carries
types, that a queued execution has an attempt left, and `OutputsAgree`: rows and the outputs in
memory of every run agree with the intakes. `VerdictInv` adds `CopyTells`, that a run with a
current copy is at a step its status calls for; without it nothing forbids a write over a
terminal status. `SubmissionInv` says who may be about to submit: at most one run is
`sending`, nothing has been sent while it is, and while the row says `not_started` nobody is; a run
with a current copy that has still to mark its submission sees `not_started`. `OkOfEnded` carries the end of the public job from the last
write of a run to the write of its runner. `WritesOfRow` lists once what all writes of the row can
do, and each preservation proof splits on it and on `StepKinds`. Theorems: `TypeCorrect`,
`HandoffHolds`, `VerdictHolds`, `TerminalStaysFinal`, `SubmittedAtMostOnce`,
`SuccessIsOfEndedJob`, `ExecutionFollowsLifecycle`, `IntakesFollowTheirPromise`.

**AssetIntake** (any number of workers under any names). `OneAssetPerIntake` and `IntakeKeepsItsPromise`
need no fencing between workers: the row lock of `complete` and its status suffice, even with one name for all.
`Screened` says what a worker knows of the content at each step, and that the object is there as
long as no answer was unclear; from it `OnlyScreenedContentSucceeds` and `ObjectSurvivesLosers`.
`TypeCorrect` includes that attempts stay within their limit.

**LeasedJob** (any jobs and attempts). `LeasedInv` is its type and `BudgetInv`, that a job that waits
has an attempt left. The lemmas say that each step of the runtime, and any step of a handler that
touches only its own place, preserves it and is a step of `JobLifecycle`; the domains cite them.

**AgentTask** (any dispatchers and attempts). `ReturnInv` is what `JobSuccessIsRecorded` needs: a run
that is back without error, or about to write success, belongs to a task that succeeded, or to a job
that is to be cancelled. Every write of a task is conditional, which gives `AgentEndsOnce`.

**KnowledgeDocument** (any number of retries). `ShownDocumentHasChunks` is inductive with the types, since no
statement takes chunks away and only two write a shown status.

**DocumentVision** (any attempts, page ranges, faults). `AttemptInv`: no task of a later attempt
exists, and no run belongs to one.
`SubmitInv`: a task that was sent, or that a run is about to send, is past
`prepared`, for one run only; this is why the conditional update of `PersistIntent` is
enough, and why no answer of an operator may lead back to `prepared`. `StoreInv`: a run of the attempt
the document names that found its pages complete (`whole`) still has all of them, because only `BeginAttempt` takes a
page away, and it takes the document from the run's attempt as well; a run of an earlier attempt may hold an
outdated answer, which is why the transaction of `Finalize` compares `vision_attempt_id`. Theorems: `PaidOnce`,
`VisionSuccessStored`, `VisionScheduledHasJob`, `VisionTypeCorrect`, `VisionFollowsLifecycle`.

**PlatformJobs** (any kinds). `KindInv` is the invariant of the domain at work; `KindSteps` maps a step of
the composition to one of that domain, whose lemmas are cited through the instance. Theorems:
`PlatformTypeCorrect`, `PlatformSuccessRecorded`, `PlatformEndsTaskOnce`, `PlatformShownHasChunks`.
The types of the composition (`TypeOK`) are proved and in no run, like `FollowsIntakes` of `ProviderJob`.

**BrowserRun** (any runs, controlled or not, objects, confirmations, workers, faults). `BrowserInv` is the
conjunction of what follows.

- `TypeInv` with `CallInv`: what a call is in the middle of at each of its steps.
- `WrittenInv`: a call that saw an object has it on the platform, and whatever is recorded as
  succeeded, or about to be, has every mapped object confirmed; from it `SuccessIsOnThePlatform`.
- `SubmitInv`: who holds the current version with an authorization has the execution and a run that
  awaits confirmation; who clicks has its run in `submitting`, and nobody else clicks, over all
  runs of the execution; hence `SubmitsOneByOne`, unless an operator interrupts.
- `ConfirmedInv` counts: no two calls hold one confirmation (`HoldInv`), and creations are no more
  than the confirmations of calls past their click (`SpentInv`), with the theorems of FiniteSetTheorems on
  cardinalities; hence `CreationsAreConfirmed`, interruptions included.
- `PhaseInv`: who holds the current version of a run is at a step that fits its state. It needs
  `HeldInv`, that a run an operator holds is not over, and that nobody who has read it since is past
  the authorization: otherwise a resumed run could meet a call that is further on. From both
  `TransitionsFollowTheTable`; it justifies that `TransitionRun` in the model leaves `CanTransition` out.
- `CreatedAtMostOnce` and `ReleasesAreClean` are about the evidence of failed runs. `CleanInv` says that no
  object is there twice, that only the next object can be there unconfirmed, that a call which is about to click, or
  saw no effect, or goes on, has nothing unconfirmed on the platform (`NeedsClean`), and that
  otherwise there are `Traces`: the execution is still that of the run which clicked, and none of the
  three ways of `SafeToReset` is open to it. Each way needs an invariant of its own. `PrepInv`
  closes the first: a failed preparation is the latest step only of a run that has not gone on, although
  workers that lost their run still write to their steps. `FoundInv` closes the second: evidence of no
  effect is of a run that is looked into or over, and not of one whose effect was just seen. `TokenInv`
  closes the third: a confirmation stays consumed, by its run, and as it was authorized until the call says
  what it saw. `BoundInv` ties it together: a run that submits, or is to be reconciled, has the
  execution. `CalmInv` is `FoundInv /\ CleanInv` in the behaviours without interruption and `outrun`; a proof attempt
  without the latter is how the first item at the end of section 4 was found.
- `RunSteps` lists once how the state of a run can change, `WorkerCases` what each step of a call leaves
  alone; the preservation proofs split on them.

Of `ReleasesAreClean` note that it is about steps: `SafeToReset` is a test of one run's rows, and the
theorem says that it is enough for the platform and the mappings of all objects.

Only model-checked: the liveness properties (`JobsEnd`, `CancellationTakesEffect`,
`ExecutionEnds`, `IntakeEnds`, `AbandonedIsClosed`), since TLAPS has no support for fairness and
`ENABLED`. Every invariant and every other action property of a passing run is stated by a theorem.


## 6. What the models leave out

- Payloads, results, error codes, progress percentages, audit fields, and the scope filters of
  `Claim` and `ReclaimExpired` that narrow a worker to one organization, project or job.
- The order in which `Claim` picks jobs (`available_at`, `created_at`): any claimable job may be next.
- Clocks that disagree between processes. Time is that of the rows.
- The memory stores, which are for tests and local runs.
- In `ProviderJob`: cancellation of the execution (image executions are scheduled as not cancellable),
  usage and event rows written with an update, deletion of cached output handles.
- In `AssetIntake`: projects and expiry are part of the nondeterministic outcome of `Fetch`; a
  member of the organization without access to the project claims nothing. A probe that fails for a
  passing reason is taken for invalid content.
- In `AgentTask`: what the handlers of Strategy do, and their clean-up after a final failure.
- In `KnowledgeDocument`: formats that are parsed within the request and have no job.
- In `DocumentVision`: the conversion of a document into page images, and the offline evaluation of its results.
  Of the status of a page row only `ready` is told apart. A result a late run of an earlier attempt stores counts
  for the later one, as it does in the code. Every attempt has the same number of ranges.
- In `BrowserRun`: the writes of a manual takeover (`AuthorizeTakeoverAction`,
  `RecordTakeoverOutcome`); kill switches and other refusals, which are calls that stop; the lifetime of a
  confirmation (a superset: it never expires); re-binding between executions; changes of existing
  promotions and the `webapi` driver. A click that throws is taken to have had no effect, and a query
  finds an object if and only if it was written. A statement that reads and one that compares and
  writes are one action where nothing lies between them; `AuthorizeAction` also joins the check of
  the service to the transaction that consumes the confirmation, a gap that the comparison of versions
  in the `TransitionRun` after it makes harmless.

Hazards no property covers, each with its reason in `PROJECT.json`: an agent task whose job died stays
running or queued; a late parse run moves a ready document back to parsing; a retry that crashes
before it schedules leaves a document no job belongs to; `CreateImageJob` that crashes before `Schedule`;
a video submission without an in-flight record; the event outbox. `ObjectCreatedOnce`,
`ReleasedWhenClean` and `OneSubmitAtATime` exclude behaviours in which an operator took a run away from a
submit in progress, since `ControlRun` does not ask `CanTransition`; the first two also those with
`outrun`.

### Not modelled

Most of the repository is content and presentation: the Strategy, Creative and Insights systems
(prompts, drafts, validation of packages, reports), HTTP decoding, the front end, vendor clients, SQL
migrations and start-up code. They write versioned rows within one request and have no
interleaving of their own beyond what the modelled components show. What does have state machines and
is still without a model is listed in section 1 and in the plan.

## 7. Plan

Done: the job runtime, image jobs, the intake, agent tasks, document parsing with the reconciler
pattern, the visual fallback, browser runs with controlled executions. Left, in the order of
what would hurt most:

1. `EventOutbox`: append, two dispatchers, crash after publish, `ConsumeOnce`; abstract
   specification: each consumer applies each event once. Order per subject as a separate run.
2. `UploadSession` with `CompleteRender`: the part of `complete` and of the durable object that the
   intake does not cover; expiry against finalize.
3. The manual writes of a takeover in `BrowserRun`, and what holds when an operator interrupts a submit.
4. `ProviderVideo`, or `ProviderJob` with a second submission rule.
5. `ConnectorSync`: cursor, resumed runs, knowledge time; research and import jobs.

Proofs: exactly-once consumption, once the outbox has a model; what holds of a browser run that an
operator has interrupted.
