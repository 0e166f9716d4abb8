-------------------------- MODULE BrowserRunProofs --------------------------
(* Theorems about the browser runs of an execution, for any number of runs,
   objects, confirmations and workers. *)
EXTENDS BrowserRun, FiniteSetTheorems, WellFoundedInduction, TLAPS

(* The type, the rows first. *)
RowType ==
    /\ execution \in {"pending", "running", "succeeded", "cancelled"} /\ bound \in 0..RunCount
    /\ (execution = "pending") <=> (bound = 0)
    /\ mapping \in [Objects -> 0..RunCount] /\ confirmed \subseteq Objects
    /\ held \in [BrowserRuns -> {"no", "paused", "taken"}]
    /\ lease \in [BrowserRuns -> {"none", "valid", "expired"}]
    /\ step \in [BrowserRuns -> {"none", "open", "prepareFailed", "failed", "listed"}]
    /\ noEffect \in [BrowserRuns -> BOOLEAN]
    /\ written \in [Objects -> Nat] /\ interrupted \in BOOLEAN /\ outrun \in BOOLEAN
    /\ faults \in 0..MaxFaults

RunType == run \in [BrowserRuns -> RunState]

Running == {"requested", "authorized", "clicking", "answered", "verifying", "storing"}

(* What a call is in the middle of. *)
CallOk(k) ==
    /\ k.at = "idle" => ~k.fresh
    /\ k.at # "idle" => k.run \in BrowserRuns
    /\ k.at \in Running => k.token \in Tokens
    /\ k.at \in {"verifying", "storing"} => k.answer \in {"noeffect", "success", "drift"}
    /\ k.at = "mapping" => k.answer \in {"success", "drift"}
    /\ k.at = "querying" => k.token = 0 /\ k.answer \in {"noeffect", "success", "drift"}
    /\ k.at \in {"answered", "verifying", "storing", "mapping", "querying"} /\ k.answer \in {"success", "drift"}
          => k.object \in Objects

CallInv ==
    /\ worker \in [Workers -> Call]
    /\ \A w \in Workers : CallOk(worker[w])

(* Calls at the same point, which may know an older version of the run. *)
Same(k, m) ==
    k.at = m.at /\ k.run = m.run /\ k.token = m.token /\ k.object = m.object /\ k.answer = m.answer

LEMMA CallIsRecord ==
    ASSUME NEW k \in Call
    PROVE  /\ [k EXCEPT !.fresh = FALSE] \in Call /\ Same([k EXCEPT !.fresh = FALSE], k)
           /\ [k EXCEPT !.fresh = FALSE].fresh = FALSE /\ [k EXCEPT !.fresh = FALSE].owner = k.owner
           /\ [k EXCEPT !.owner = FALSE] \in Call /\ Same([k EXCEPT !.owner = FALSE], k)
           /\ [k EXCEPT !.owner = FALSE].fresh = k.fresh /\ [k EXCEPT !.owner = FALSE].owner = FALSE
           /\ [k EXCEPT !.fresh = FALSE, !.owner = FALSE] \in Call
           /\ Same([k EXCEPT !.fresh = FALSE, !.owner = FALSE], k)
           /\ ~[k EXCEPT !.fresh = FALSE, !.owner = FALSE].fresh
           /\ ~[k EXCEPT !.fresh = FALSE, !.owner = FALSE].owner
BY DEF Call, Answers, Same

LEMMA BumpedKeeps ==
    ASSUME CallInv, NEW r
    PROVE  /\ Bumped(r) \in [Workers -> Call]
           /\ \A v \in Workers : /\ Same(Bumped(r)[v], worker[v])
                                 /\ Bumped(r)[v].fresh = (worker[v].fresh /\ worker[v].run # r)
                                 /\ Bumped(r)[v].owner = worker[v].owner
<1>1. ASSUME NEW v \in Workers PROVE worker[v] \in Call
  BY DEF CallInv
<1>2. ASSUME NEW v \in Workers
      PROVE  /\ Bumped(r)[v] \in Call
             /\ Same(Bumped(r)[v], worker[v])
             /\ Bumped(r)[v].fresh = (worker[v].fresh /\ worker[v].run # r)
             /\ Bumped(r)[v].owner = worker[v].owner
  <2>1. Bumped(r)[v] = IF worker[v].run = r THEN [worker[v] EXCEPT !.fresh = FALSE] ELSE worker[v]
    BY DEF Bumped, R
  <2>2. CASE worker[v].run = r
    BY <1>1, <2>1, <2>2, CallIsRecord
  <2>3. CASE worker[v].run # r
    BY <1>1, <2>1, <2>3 DEF Same, Call
  <2>4. QED
    BY <2>2, <2>3
<1>3. Bumped(r) = [v \in Workers |-> Bumped(r)[v]]
  BY DEF Bumped
<1>4. QED
  BY <1>2, <1>3

LEMMA OutdatedKeeps ==
    ASSUME CallInv, NEW r
    PROVE  /\ Outdated(r) \in [Workers -> Call]
           /\ \A v \in Workers : /\ Same(Outdated(r)[v], worker[v])
                                 /\ Outdated(r)[v].fresh = worker[v].fresh
                                 /\ Outdated(r)[v].owner => worker[v].owner
<1>1. ASSUME NEW v \in Workers PROVE worker[v] \in Call
  BY DEF CallInv
<1>2. ASSUME NEW v \in Workers
      PROVE  /\ Outdated(r)[v] \in Call
             /\ Same(Outdated(r)[v], worker[v])
             /\ Outdated(r)[v].fresh = worker[v].fresh
             /\ Outdated(r)[v].owner => worker[v].owner
  <2>1. Outdated(r)[v] = IF worker[v].run = r THEN [worker[v] EXCEPT !.owner = FALSE] ELSE worker[v]
    BY DEF Outdated, R
  <2>2. CASE worker[v].run = r
    BY <1>1, <2>1, <2>2, CallIsRecord
  <2>3. CASE worker[v].run # r
    BY <1>1, <2>1, <2>3 DEF Same, Call
  <2>4. QED
    BY <2>2, <2>3
<1>3. Outdated(r) = [v \in Workers |-> Outdated(r)[v]]
  BY DEF Outdated
<1>4. QED
  BY <1>2, <1>3

(* Only the calls of S move. *)
OthersKeep(S) ==
    /\ worker' \in [Workers -> Call]
    /\ \A v \in Workers \ S : /\ Same(worker'[v], worker[v])
                              /\ worker'[v].fresh => worker[v].fresh
                              /\ worker'[v].owner => worker[v].owner

(* ... and those who read the run before do not know its version any more. *)
Overtaken(S, r) == \A v \in Workers \ S : worker'[v].fresh => worker[v].run # r

LEMMA ToKeeps ==
    ASSUME CallInv, NEW w \in Workers,
           NEW l \in {"authorized", "clicking", "answered", "verifying", "storing", "mapping",
                     "continuing", "rechecked"}
    PROVE  /\ To(w, l) \in Call /\ To(w, l).at = l /\ To(w, l).fresh = worker[w].fresh
           /\ To(w, l).run = worker[w].run /\ To(w, l).token = worker[w].token
           /\ To(w, l).object = worker[w].object /\ To(w, l).answer = worker[w].answer
<1>1. PICK k \in Call : k = worker[w]
  BY DEF CallInv
<1>2. To(w, l) = [k EXCEPT !.at = l]
  BY <1>1 DEF To
<1>3. QED
  BY <1>1, <1>2 DEF Call

LEMMA EndingKeeps ==
    ASSUME CallInv, NEW w \in Workers, NEW l \in {"closing", "continuing", "releasing"}, NEW a \in Answers
    PROVE  /\ Ending(w, l, a) \in Call /\ Ending(w, l, a).at = l /\ Ending(w, l, a).answer = a
           /\ Ending(w, l, a).run = worker[w].run /\ Ending(w, l, a).fresh = worker[w].fresh
           /\ worker[w].at # "idle" => CallOk(Ending(w, l, a))
<1>1. PICK k \in Call : k = worker[w]
  BY DEF CallInv
<1>2. Ending(w, l, a) = [k EXCEPT !.at = l, !.answer = a, !.token = 0, !.object = 0]
  BY <1>1 DEF Ending
<1>3. 0 \in 0..ConfirmCount /\ 0 \in 0..ObjectCount
  BY BrowserAssumption
<1>4. /\ Ending(w, l, a) \in Call /\ Ending(w, l, a).at = l /\ Ending(w, l, a).answer = a
      /\ Ending(w, l, a).run = worker[w].run /\ Ending(w, l, a).fresh = worker[w].fresh
  BY <1>1, <1>2, <1>3 DEF Call
<1>5. worker[w].at # "idle" => CallOk(Ending(w, l, a))
  BY <1>4 DEF CallInv, CallOk, Running
<1>6. QED
  BY <1>4, <1>5

LEMMA FreeIsIdle == Free \in Call /\ Free.at = "idle" /\ ~Free.fresh /\ CallOk(Free)
BY BrowserAssumption DEF Free, Call, Answers, CallOk, Running

LEMMA BumpedOthers ==
    ASSUME CallInv, NEW r, worker' = Bumped(r)
    PROVE  OthersKeep({}) /\ Overtaken({}, r)
BY BumpedKeeps DEF OthersKeep, Overtaken

LEMMA BumpedMoves ==
    ASSUME CallInv, NEW w \in Workers, NEW k \in Call, NEW r, worker' = [Bumped(r) EXCEPT ![w] = k]
    PROVE  OthersKeep({w}) /\ worker'[w] = k /\ Overtaken({w}, r)
<1>1. /\ Bumped(r) \in [Workers -> Call] /\ worker' \in [Workers -> Call] /\ worker'[w] = k
      /\ \A v \in Workers \ {w} : worker'[v] = Bumped(r)[v]
  BY BumpedKeeps
<1>2. ASSUME NEW v \in Workers \ {w}
      PROVE  /\ Same(worker'[v], worker[v])
             /\ worker'[v].fresh => worker[v].fresh /\ worker[v].run # r
             /\ worker'[v].owner => worker[v].owner
  <2>1. worker'[v] = Bumped(r)[v]
    BY <1>1
  <2>2. /\ Same(Bumped(r)[v], worker[v])
        /\ Bumped(r)[v].fresh = (worker[v].fresh /\ worker[v].run # r)
        /\ Bumped(r)[v].owner = worker[v].owner
    BY BumpedKeeps
  <2>3. QED
    BY <2>1, <2>2
<1>3. QED
  BY <1>1, <1>2 DEF OthersKeep, Overtaken

LEMMA UnmovedOthers == ASSUME CallInv, worker' = worker PROVE OthersKeep({})
BY DEF OthersKeep, CallInv, Same

LEMMA MovedOthers ==
    ASSUME CallInv, NEW w \in Workers, NEW k \in Call, worker' = [worker EXCEPT ![w] = k]
    PROVE  OthersKeep({w}) /\ worker'[w] = k
BY DEF OthersKeep, CallInv, Same

LEMMA OutdatedOthers ==
    ASSUME CallInv, NEW w \in Workers, NEW k \in Call, NEW r, worker' = [Outdated(r) EXCEPT ![w] = k]
    PROVE  OthersKeep({w}) /\ worker'[w] = k
BY OutdatedKeeps DEF OthersKeep

LEMMA TransitionOthers ==
    ASSUME CallInv, NEW w \in Workers, NEW state, NEW next \in Call, TransitionRun(w, state, next)
    PROVE  /\ OthersKeep({w})
           /\ \/ ~worker[w].fresh /\ run' = run /\ worker'[w] = Free
              \/ /\ worker[w].fresh /\ run' = [run EXCEPT ![worker[w].run] = state]
                 /\ worker'[w] = next /\ Overtaken({w}, worker[w].run)
<1>1. CASE worker[w].fresh
  <2>1. worker' = [Bumped(R(w)) EXCEPT ![w] = next] /\ run' = [run EXCEPT ![worker[w].run] = state]
    BY <1>1 DEF TransitionRun, R
  <2>2. QED
    BY <1>1, <2>1, BumpedMoves DEF R
<1>2. CASE ~worker[w].fresh
  BY <1>2, FreeIsIdle, MovedOthers DEF TransitionRun
<1>3. QED
  BY <1>1, <1>2

LEMMA CallKeeps ==
    ASSUME CallInv, NEW S, OthersKeep(S), \A v \in Workers \cap S : CallOk(worker'[v])
    PROVE  CallInv'
<1>1. ASSUME NEW v \in Workers \ S PROVE CallOk(worker'[v])
  BY <1>1 DEF OthersKeep, Same, CallInv, CallOk
<1>2. QED
  BY <1>1 DEF CallInv, OthersKeep
-----------------------------------------------------------------------------
(* The steps that are not of a worker. *)

Others ==
    \/ \E r \in BrowserRuns : \/ CreateRun(r) \/ AttachRun(r) \/ CheckEnvironment(r) \/ ControlRun(r)
                            \/ AcquireLease(r) \/ LeaseRunsOut(r) \/ ReleaseLease(r)
                            \/ \E c \in Tokens : IssueConfirmation(r, c)
    \/ \E o \in Objects : BindMapping(o)
    \/ ResetExecution \/ InvalidateExecution

LEMMA OthersMoveNoCall == CallInv /\ Others => OthersKeep({}) /\ CallInv'
<1> SUFFICES ASSUME CallInv, Others PROVE OthersKeep({}) /\ CallInv'
  OBVIOUS
<1>1. worker' = worker \/ \E r : worker' = Bumped(r)
  BY DEF Others, CreateRun, AttachRun, CheckEnvironment, ControlRun, AcquireLease, LeaseRunsOut,
         ReleaseLease, IssueConfirmation, BindMapping, ResetExecution, InvalidateExecution
<1>2. OthersKeep({})
  BY <1>1, BumpedOthers, UnmovedOthers
<1>3. QED
  BY <1>2, CallKeeps

LEMMA OthersKeepRows == RowType /\ Others => RowType'
<1> SUFFICES ASSUME RowType, Others PROVE RowType'
  OBVIOUS
<1> USE DEF RowType
<1>1. ASSUME NEW r \in BrowserRuns, CreateRun(r) \/ AttachRun(r) \/ CheckEnvironment(r) PROVE RowType'
  BY <1>1, BrowserAssumption DEF CreateRun, AttachRun, CheckEnvironment, rows, evidence, world, BrowserRuns
<1>2. ASSUME NEW r \in BrowserRuns, AcquireLease(r) \/ LeaseRunsOut(r) \/ ReleaseLease(r) PROVE RowType'
  BY <1>2, BrowserAssumption DEF AcquireLease, LeaseRunsOut, ReleaseLease, Fault, rows, evidence, world
<1>3. ASSUME NEW r \in BrowserRuns, ControlRun(r) PROVE RowType'
  BY <1>3, BrowserAssumption DEF ControlRun, Fault, rows, evidence
<1>4. ASSUME NEW r \in BrowserRuns, NEW c \in Tokens, IssueConfirmation(r, c) PROVE RowType'
  BY <1>4 DEF IssueConfirmation, rows, world
<1>5. ASSUME NEW o \in Objects, BindMapping(o) PROVE RowType'
  BY <1>5 DEF BindMapping, evidence, world
<1>6. ASSUME ResetExecution \/ InvalidateExecution PROVE RowType'
  BY <1>6, BrowserAssumption DEF ResetExecution, InvalidateExecution, Void, world
<1>7. QED
  BY <1>1, <1>2, <1>3, <1>4, <1>5, <1>6 DEF Others

LEMMA OthersKeepRuns == RunType /\ Others => RunType'
<1> SUFFICES ASSUME RunType, Others PROVE RunType'
  OBVIOUS
<1>1. ASSUME NEW r \in BrowserRuns, CreateRun(r) \/ CheckEnvironment(r) \/ ControlRun(r) PROVE RunType'
  BY <1>1 DEF CreateRun, CheckEnvironment, ControlRun, RunType, RunState, Terminal
<1>2. ASSUME run' = run PROVE RunType'
  BY <1>2 DEF RunType
<1>3. QED
  BY <1>1, <1>2 DEF Others, AttachRun, AcquireLease, LeaseRunsOut, ReleaseLease, IssueConfirmation,
         BindMapping, ResetExecution, InvalidateExecution

TokenType == token \in [Tokens -> Confirmation]

LEMMA OthersKeepTokens == RunType /\ TokenType /\ Others => TokenType'
<1> SUFFICES ASSUME TokenType, Others PROVE TokenType'
  OBVIOUS
<1>1. ASSUME NEW r \in BrowserRuns, NEW c \in Tokens, IssueConfirmation(r, c) PROVE TokenType'
  BY <1>1 DEF IssueConfirmation, TokenType, Confirmation, BrowserRuns
<1>2. ASSUME NEW r, Void(r) PROVE TokenType'
  BY <1>2 DEF Void, TokenType, Confirmation
<1>3. ASSUME token' = token PROVE TokenType'
  BY <1>3 DEF TokenType
<1>4. QED
  BY <1>1, <1>2, <1>3 DEF Others, CreateRun, AttachRun, CheckEnvironment, ControlRun, AcquireLease,
         LeaseRunsOut, ReleaseLease, BindMapping, ResetExecution, InvalidateExecution, evidence
-----------------------------------------------------------------------------
(* The steps of a worker: its call and those of the others. *)

LEMMA FirstIsOne == ASSUME NEW S \in SUBSET Objects, S # {} PROVE FirstOf(S) \in S
<1>0. S \in SUBSET Nat
  BY BrowserAssumption DEF Objects
<1>1. PICK i \in S : \A k \in S : <<k, i>> \notin OpToRel(<, Nat)
  BY <1>0, NatLessThanWellFounded, WFMin, Zenon
<1>2. \A k \in S : ~(k < i)
  BY <1>0, <1>1 DEF OpToRel
<1>3. \A k \in S : i <= k
  BY <1>0, <1>2
<1>4. QED
  BY <1>3, Zenon DEF FirstOf

LEMMA PrepareReads ==
    ASSUME CallInv, NEW w \in Workers, NEW r \in BrowserRuns, BeginPrepare(w, r)
    PROVE  /\ OthersKeep({w}) /\ Overtaken({w}, r) /\ CallInv' /\ worker[w].at = "idle"
           /\ worker'[w].at = "preparing" /\ worker'[w].run = r
           /\ \A v \in Workers \ {w} : worker'[v].run = r => ~worker'[v].owner
<1> DEFINE k == [Free EXCEPT !.at = "preparing", !.run = r, !.fresh = TRUE, !.owner = TRUE]
<1>0. 0 \in 0..ConfirmCount /\ 0 \in 0..ObjectCount /\ r \in 0..RunCount
  BY BrowserAssumption DEF BrowserRuns
<1>1. k \in Call /\ k.at = "preparing" /\ k.run = r
  BY <1>0 DEF Free, Call, Answers
<1>2. ASSUME NEW v \in Workers, v # w
      PROVE  /\ worker'[v] \in Call /\ Same(worker'[v], worker[v])
             /\ worker'[v].fresh => worker[v].fresh /\ worker[v].run # r
             /\ worker'[v].owner => worker[v].owner /\ worker[v].run # r
  <2>1. worker'[v] = IF worker[v].run = r THEN [worker[v] EXCEPT !.fresh = FALSE, !.owner = FALSE]
                                          ELSE worker[v]
    BY <1>2 DEF BeginPrepare, R
  <2>2. worker[v] \in Call
    BY DEF CallInv
  <2>3. CASE worker[v].run = r
    <3>1. PICK m \in Call : m = worker[v]
      BY <2>2
    <3>2. worker'[v] = [m EXCEPT !.fresh = FALSE, !.owner = FALSE]
      BY <2>1, <2>3, <3>1
    <3>3. worker'[v] \in Call /\ ~worker'[v].fresh /\ ~worker'[v].owner
      BY <3>2 DEF Call
    <3>4. Same(worker'[v], worker[v])
      BY <3>1, <3>2 DEF Call, Same
    <3>5. QED
      BY <3>3, <3>4
  <2>4. CASE worker[v].run # r
    BY <2>1, <2>2, <2>4 DEF Same
  <2>5. QED
    BY <2>3, <2>4
<1>3. worker'[w] = k /\ worker' = [v \in Workers |-> worker'[v]]
  BY DEF BeginPrepare
<1>4. OthersKeep({w}) /\ Overtaken({w}, r)
  BY <1>1, <1>2, <1>3 DEF OthersKeep, Overtaken
<1>5. CallOk(worker'[w])
  BY <1>1, <1>3 DEF CallOk, Running
<1>6. \A v \in Workers \ {w} : worker'[v].run = r => ~worker'[v].owner
  BY <1>2 DEF Same
<1>7. QED
  BY <1>1, <1>3, <1>4, <1>5, <1>6, CallKeeps DEF BeginPrepare

(* A call that begins. *)
LEMMA ReconcileReads ==
    ASSUME RowType, CallInv, NEW w \in Workers, NEW r \in BrowserRuns, ReadForReconcile(w, r)
    PROVE  /\ OthersKeep({w}) /\ CallInv' /\ worker[w].at = "idle" /\ worker'[w].run = r
           /\ \/ worker'[w].at = "reverifying" /\ run[r] = "partial"
              \/ /\ worker'[w].at = "querying" /\ run[r] = "result_unknown"
                 /\ Pending # {} /\ FirstOf(Pending) \in Objects
                 /\ worker'[w].object = FirstOf(Pending)
                 /\ (worker'[w].answer = "noeffect") <=> (written[FirstOf(Pending)] = 0)
<1> DEFINE o == FirstOf(Pending)
<1>1. 0 \in 0..ConfirmCount /\ 0 \in 0..ObjectCount /\ r \in 0..RunCount
  BY BrowserAssumption DEF BrowserRuns
<1>2. worker[w].at = "idle"
  BY DEF ReadForReconcile
<1>3. ASSUME NEW k \in Call, CallOk(k), worker' = [worker EXCEPT ![w] = k]
      PROVE  OthersKeep({w}) /\ CallInv' /\ worker'[w] = k
  BY <1>3, MovedOthers, CallKeeps
<1>4. CASE run[r] = "partial" /\ worker' = [worker EXCEPT ![w] = [Free EXCEPT !.at = "reverifying", !.run = r, !.fresh = TRUE]]
  <2> DEFINE k == [Free EXCEPT !.at = "reverifying", !.run = r, !.fresh = TRUE]
  <2>1. k \in Call /\ k.run = r /\ k.at = "reverifying"
    BY <1>1 DEF Free, Call, Answers
  <2>2. CallOk(k)
    BY <2>1 DEF CallOk, Running
  <2> HIDE DEF k
  <2>3. OthersKeep({w}) /\ CallInv' /\ worker'[w] = k
    BY <1>3, <1>4, <2>1, <2>2 DEF k
  <2>4. QED
    BY <1>2, <1>4, <2>1, <2>3
<1>5. ASSUME NEW found \in {"noeffect", "success", "drift"}, run[r] = "result_unknown", Pending # {},
             (found = "noeffect") <=> (written[o] = 0),
             worker' = [worker EXCEPT ![w] = [Free EXCEPT !.at = "querying", !.run = r, !.fresh = TRUE,
                                                          !.object = o, !.answer = found]]
      PROVE  /\ OthersKeep({w}) /\ CallInv' /\ worker'[w].run = r
             /\ worker'[w].at = "querying" /\ o \in Objects /\ worker'[w].object = o
             /\ worker'[w].answer = found
  <2> DEFINE k == [Free EXCEPT !.at = "querying", !.run = r, !.fresh = TRUE, !.object = o, !.answer = found]
  <2>1. o \in Objects
    BY <1>5, FirstIsOne DEF Pending
  <2>2. o \in 0..ObjectCount /\ o \in Objects
    BY <2>1, BrowserAssumption DEF Objects
  <2> HIDE DEF o
  <2>3. k \in Call /\ k.run = r /\ k.at = "querying" /\ k.answer = found /\ k.object = o /\ k.token = 0
    BY <1>1, <2>2 DEF Free, Call, Answers
  <2>4. CallOk(k)
    BY <1>5, <2>2, <2>3 DEF CallOk, Running
  <2>5. worker' = [worker EXCEPT ![w] = k]
    BY <1>5
  <2> HIDE DEF k
  <2>6. OthersKeep({w}) /\ CallInv' /\ worker'[w] = k
    BY <1>3, <2>3, <2>4, <2>5
  <2>7. QED
    BY <2>2, <2>3, <2>6
<1>6. CASE run[r] = "result_unknown"
  <2>1. PICK found \in {"noeffect", "success", "drift"} :
            /\ Pending # {}
            /\ (found = "noeffect") <=> (written[o] = 0)
            /\ worker' = [worker EXCEPT ![w] = [Free EXCEPT !.at = "querying", !.run = r, !.fresh = TRUE,
                                                            !.object = o, !.answer = found]]
    BY <1>6 DEF ReadForReconcile
  <2> HIDE DEF o
  <2>2. QED
    BY <1>2, <1>5, <1>6, <2>1 DEF o
<1>7. QED
  BY <1>4, <1>6 DEF ReadForReconcile

LEMMA SubmitReads ==
    ASSUME CallInv, NEW w \in Workers, NEW r \in BrowserRuns, NEW c \in Tokens, ReadForSubmit(w, r, c)
    PROVE  /\ OthersKeep({w}) /\ CallInv' /\ worker[w].at = "idle"
           /\ worker'[w].run = r /\ worker'[w].at = "requested" /\ worker'[w].token = c
<1> DEFINE k == [Free EXCEPT !.at = "requested", !.run = r, !.token = c, !.fresh = TRUE, !.owner = TRUE]
<1>1. 0 \in 0..ConfirmCount /\ 0 \in 0..ObjectCount /\ r \in 0..RunCount /\ c \in 0..ConfirmCount
  BY BrowserAssumption DEF BrowserRuns, Tokens
<1>2. k \in Call /\ k.run = r /\ k.at = "requested" /\ k.token = c
  BY <1>1 DEF Free, Call, Answers
<1>3. CallOk(k)
  BY <1>2 DEF CallOk, Running
<1>4. worker' = [Outdated(r) EXCEPT ![w] = k] /\ worker[w].at = "idle"
  BY DEF ReadForSubmit
<1> HIDE DEF k
<1>5. OthersKeep({w}) /\ worker'[w] = k
  BY <1>2, <1>4, OutdatedOthers
<1>6. QED
  BY <1>2, <1>3, <1>4, <1>5, CallKeeps

(* A call that goes on, as it is or as a transition of its run. *)
LEMMA MovedKeeps ==
    ASSUME CallInv, NEW w \in Workers, NEW k \in Call, CallOk(k),
           \/ worker' = [worker EXCEPT ![w] = k]
           \/ \E r : worker' = [Outdated(r) EXCEPT ![w] = k]
    PROVE  OthersKeep({w}) /\ CallInv' /\ worker'[w] = k
<1>1. OthersKeep({w}) /\ worker'[w] = k
  BY MovedOthers, OutdatedOthers
<1>2. QED
  BY <1>1, CallKeeps

LEMMA TransitionKeeps ==
    ASSUME CallInv, NEW w \in Workers, NEW state, NEW next \in Call, CallOk(next),
           TransitionRun(w, state, next)
    PROVE  OthersKeep({w}) /\ CallInv'
BY TransitionOthers, CallKeeps, FreeIsIdle

Preparing(w)  == Prepared(w) \/ PrepareFails(w)
Submitting(w) == AuthorizeAction(w) \/ BeginSubmit(w) \/ ClickFinal(w) \/ CompleteAction(w)
Verifying(w)  == BeginVerify(w) \/ StoreResult(w) \/ ConfirmMapping(w)
Leaving(w)    == ReleaseRunLease(w) \/ Continue(w) \/ CloseRun(w) \/ CallStops(w)
Reconciling(w) == Query(w) \/ Reverify(w) \/ LeavePartial(w)

LEMMA PreparingKeeps ==
    ASSUME CallInv, NEW w \in Workers, Preparing(w)
    PROVE  /\ OthersKeep({w}) /\ CallInv' /\ worker'[w].at \in {"idle", "closing"}
           /\ worker'[w].at = "closing" => worker'[w].answer = "error"
<1>1. CASE Prepared(w)
  <2>1. TransitionRun(w, "awaiting_confirmation", Free)
    BY <1>1 DEF Prepared
  <2>2. QED
    BY <2>1, FreeIsIdle, TransitionKeeps, TransitionOthers
<1>2. CASE PrepareFails(w)
  <2>1. worker' = [worker EXCEPT ![w] = Ending(w, "closing", "error")] /\ worker[w].at # "idle"
    BY <1>2 DEF PrepareFails
  <2>2. /\ Ending(w, "closing", "error") \in Call /\ CallOk(Ending(w, "closing", "error"))
        /\ Ending(w, "closing", "error").at = "closing" /\ Ending(w, "closing", "error").answer = "error"
    BY <2>1, EndingKeeps DEF Answers
  <2>3. QED
    BY <2>1, <2>2, MovedKeeps
<1>3. QED
  BY <1>1, <1>2 DEF Preparing

LEMMA AuthorizeMoves ==
    ASSUME CallInv, NEW w \in Workers, AuthorizeAction(w)
    PROVE  /\ OthersKeep({w}) /\ CallInv' /\ worker[w].at = "requested"
           /\ \/ /\ MayAct(worker[w].run, worker[w].token) /\ worker'[w].at = "authorized"
                 /\ worker'[w].run = worker[w].run /\ worker'[w].token = worker[w].token
              \/ worker'[w] = Free
<1>1. worker[w].at = "requested"
  BY DEF AuthorizeAction
<1>2. CASE MayAct(worker[w].run, worker[w].token)
  <2>1. worker' = [worker EXCEPT ![w] = To(w, "authorized")]
    BY <1>2 DEF AuthorizeAction, R
  <2>2. To(w, "authorized") \in Call /\ CallOk(To(w, "authorized"))
    BY <1>1, ToKeeps DEF CallInv, CallOk, Running
  <2>3. /\ To(w, "authorized").at = "authorized" /\ To(w, "authorized").run = worker[w].run
        /\ To(w, "authorized").token = worker[w].token
    BY ToKeeps
  <2>4. OthersKeep({w}) /\ CallInv' /\ worker'[w] = To(w, "authorized")
    BY <2>1, <2>2, MovedKeeps
  <2>5. QED
    BY <1>1, <1>2, <2>3, <2>4
<1>3. CASE ~MayAct(worker[w].run, worker[w].token)
  <2>1. worker' = [worker EXCEPT ![w] = Free]
    BY <1>3 DEF AuthorizeAction, R
  <2>2. QED
    BY <1>1, <2>1, FreeIsIdle, MovedKeeps
<1>4. QED
  BY <1>2, <1>3

LEMMA BeginSubmitMoves ==
    ASSUME CallInv, NEW w \in Workers, BeginSubmit(w)
    PROVE  /\ OthersKeep({w}) /\ CallInv' /\ worker[w].at = "authorized"
           /\ \/ ~worker[w].fresh /\ run' = run /\ worker'[w] = Free
              \/ /\ worker[w].fresh /\ run' = [run EXCEPT ![worker[w].run] = "submitting"]
                 /\ worker'[w].at = "clicking" /\ worker'[w].token = worker[w].token
                 /\ worker'[w].run = worker[w].run /\ Overtaken({w}, worker[w].run)
<1>1. worker[w].at = "authorized" /\ TransitionRun(w, "submitting", To(w, "clicking"))
  BY DEF BeginSubmit
<1>2. To(w, "clicking") \in Call /\ CallOk(To(w, "clicking"))
  BY <1>1, ToKeeps DEF CallInv, CallOk, Running
<1>3. /\ To(w, "clicking").at = "clicking" /\ To(w, "clicking").run = worker[w].run
      /\ To(w, "clicking").token = worker[w].token
  BY ToKeeps
<1>4. OthersKeep({w}) /\ CallInv'
  BY <1>1, <1>2, TransitionKeeps
<1>5. \/ ~worker[w].fresh /\ run' = run /\ worker'[w] = Free
      \/ /\ worker[w].fresh /\ run' = [run EXCEPT ![worker[w].run] = "submitting"]
         /\ worker'[w] = To(w, "clicking") /\ Overtaken({w}, worker[w].run)
  BY <1>1, <1>2, TransitionOthers
<1>6. QED
  BY <1>1, <1>3, <1>4, <1>5

LEMMA ClickMoves ==
    ASSUME RowType, CallInv, NEW w \in Workers, ClickFinal(w)
    PROVE  /\ OthersKeep({w}) /\ CallInv' /\ worker[w].at = "clicking" /\ worker'[w].at = "answered"
           /\ worker'[w].run = worker[w].run /\ worker'[w].token = worker[w].token
           /\ \/ /\ written' = written
                 /\ worker'[w].answer \notin {"success", "drift"}
              \/ /\ Pending # {} /\ FirstOf(Pending) \in Objects
                 /\ written' = [written EXCEPT ![FirstOf(Pending)] = @ + 1]
                 /\ worker'[w].object = FirstOf(Pending)
                 /\ worker'[w].answer \notin {"error", "noeffect"}
<1>1. PICK answer \in Answers, effect \in BOOLEAN :
          /\ answer \in {"success", "drift"} => effect
          /\ answer \in {"error", "noeffect"} => ~effect
          /\ answer # "error" => Pending # {}
          /\ LET o == IF Pending = {} THEN 0 ELSE FirstOf(Pending)
             IN  /\ written' = IF effect THEN [written EXCEPT ![o] = @ + 1] ELSE written
                 /\ worker' = [worker EXCEPT ![w] = [To(w, "answered") EXCEPT !.answer = answer,
                                                                              !.object = o]]
  BY DEF ClickFinal
<1> DEFINE o == IF Pending = {} THEN 0 ELSE FirstOf(Pending)
<1>2. Pending # {} => FirstOf(Pending) \in Objects
  BY FirstIsOne DEF Pending
<1>3. o \in 0..ObjectCount
  BY <1>2, BrowserAssumption DEF Objects
<1>4. worker[w].at = "clicking"
  BY DEF ClickFinal
<1>5. PICK k \in Call : k = To(w, "answered") /\ k.at = "answered" /\ k.run = worker[w].run
                        /\ k.token = worker[w].token /\ k.fresh = worker[w].fresh
  BY ToKeeps
<1> DEFINE n == [k EXCEPT !.answer = answer, !.object = o]
<1>6. n \in Call /\ n.at = "answered" /\ n.run = worker[w].run /\ n.token = worker[w].token
      /\ n.answer = answer /\ n.object = o
  BY <1>3, <1>5 DEF Call
<1>7. worker' = [worker EXCEPT ![w] = n]
  BY <1>1, <1>5
<1>8. written' = IF effect THEN [written EXCEPT ![o] = @ + 1] ELSE written
  BY <1>1
<1>9. answer \in {"success", "drift"} => o \in Objects
  BY <1>1, <1>2
<1> HIDE DEF n
<1>10. CallOk(n)
  BY <1>4, <1>6, <1>9 DEF CallInv, CallOk, Running
<1>11. OthersKeep({w}) /\ CallInv' /\ worker'[w] = n
  BY <1>6, <1>7, <1>10, MovedKeeps
<1>12. CASE effect
  BY <1>1, <1>2, <1>4, <1>6, <1>8, <1>11, <1>12
<1>13. CASE ~effect
  BY <1>1, <1>4, <1>6, <1>8, <1>11, <1>13
<1>14. QED
  BY <1>12, <1>13

LEMMA CompleteMoves ==
    ASSUME CallInv, NEW w \in Workers, CompleteAction(w)
    PROVE  /\ OthersKeep({w}) /\ CallInv' /\ worker[w].at = "answered" /\ worker'[w].answer = worker[w].answer
           /\ \/ worker'[w].at = "closing" /\ worker[w].answer \in {"lost", "unknown", "error"}
              \/ /\ worker'[w].at = "verifying" /\ worker'[w].object = worker[w].object
                 /\ worker'[w].token = worker[w].token
<1>1. worker[w].at = "answered" /\ worker[w].answer \in Answers
  BY DEF CompleteAction, CallInv, Call
<1>2. CASE worker[w].answer \in {"lost", "unknown", "error"}
  <2> DEFINE k == Ending(w, "closing", worker[w].answer)
  <2>1. worker' = [worker EXCEPT ![w] = k]
    BY <1>2 DEF CompleteAction
  <2>2. k \in Call /\ CallOk(k) /\ k.at = "closing" /\ k.answer = worker[w].answer
    BY <1>1, EndingKeeps
  <2> HIDE DEF k
  <2>3. OthersKeep({w}) /\ CallInv' /\ worker'[w] = k
    BY <2>1, <2>2, MovedKeeps
  <2>4. QED
    BY <1>1, <1>2, <2>2, <2>3
<1>3. CASE worker[w].answer \notin {"lost", "unknown", "error"}
  <2> DEFINE k == To(w, "verifying")
  <2>1. worker' = [worker EXCEPT ![w] = k]
    BY <1>3 DEF CompleteAction
  <2>2. k \in Call /\ k.at = "verifying" /\ k.answer = worker[w].answer /\ k.object = worker[w].object
        /\ k.token = worker[w].token /\ k.run = worker[w].run
    BY ToKeeps
  <2> HIDE DEF k
  <2>3. CallOk(k)
    BY <1>1, <1>3, <2>2 DEF CallInv, CallOk, Running, Answers
  <2>4. OthersKeep({w}) /\ CallInv' /\ worker'[w] = k
    BY <2>1, <2>2, <2>3, MovedKeeps
  <2>5. QED
    BY <1>1, <2>2, <2>4
<1>4. QED
  BY <1>2, <1>3

LEMMA BeginVerifyMoves ==
    ASSUME CallInv, NEW w \in Workers, BeginVerify(w)
    PROVE  /\ OthersKeep({w}) /\ CallInv' /\ worker[w].at = "verifying"
           /\ \/ ~worker[w].fresh /\ run' = run /\ worker'[w] = Free
              \/ /\ worker[w].fresh /\ run' = [run EXCEPT ![worker[w].run] = "verifying"]
                 /\ worker'[w].at = "storing" /\ worker'[w].answer = worker[w].answer
                 /\ worker'[w].object = worker[w].object /\ worker'[w].token = worker[w].token
                 /\ Overtaken({w}, worker[w].run)
<1> DEFINE k == To(w, "storing")
<1>1. worker[w].at = "verifying" /\ TransitionRun(w, "verifying", k)
  BY DEF BeginVerify
<1>2. k \in Call /\ k.at = "storing" /\ k.answer = worker[w].answer /\ k.object = worker[w].object
      /\ k.token = worker[w].token /\ k.run = worker[w].run
  BY ToKeeps
<1> HIDE DEF k
<1>3. CallOk(k)
  BY <1>1, <1>2 DEF CallInv, CallOk, Running
<1>4. OthersKeep({w}) /\ CallInv'
  BY <1>1, <1>2, <1>3, TransitionKeeps
<1>5. \/ ~worker[w].fresh /\ run' = run /\ worker'[w] = Free
      \/ /\ worker[w].fresh /\ run' = [run EXCEPT ![worker[w].run] = "verifying"] /\ worker'[w] = k
         /\ Overtaken({w}, worker[w].run)
  BY <1>1, <1>2, TransitionOthers
<1>6. QED
  BY <1>1, <1>2, <1>4, <1>5

LEMMA StoreMoves ==
    ASSUME CallInv, NEW w \in Workers, StoreResult(w)
    PROVE  /\ OthersKeep({w}) /\ CallInv' /\ worker[w].at = "storing"
           /\ \/ worker'[w].at = "closing" /\ worker'[w].answer = "noeffect" /\ worker[w].answer = "noeffect"
              \/ /\ worker'[w].at = "mapping" /\ worker'[w].answer = worker[w].answer
                 /\ worker'[w].object = worker[w].object /\ worker'[w].token = worker[w].token
<1>1. worker[w].at = "storing" /\ worker[w].answer \in {"noeffect", "success", "drift"}
  BY DEF StoreResult, CallInv, CallOk
<1>2. CASE worker[w].answer = "noeffect"
  <2> DEFINE k == Ending(w, "closing", "noeffect")
  <2>1. worker' = [worker EXCEPT ![w] = k]
    BY <1>2 DEF StoreResult
  <2>2. k \in Call /\ CallOk(k) /\ k.at = "closing" /\ k.answer = "noeffect"
    BY <1>1, EndingKeeps DEF Answers
  <2> HIDE DEF k
  <2>3. OthersKeep({w}) /\ CallInv' /\ worker'[w] = k
    BY <2>1, <2>2, MovedKeeps
  <2>4. QED
    BY <1>1, <1>2, <2>2, <2>3
<1>3. CASE worker[w].answer # "noeffect"
  <2> DEFINE k == To(w, "mapping")
  <2>1. worker' = [worker EXCEPT ![w] = k]
    BY <1>3 DEF StoreResult
  <2>2. k \in Call /\ k.at = "mapping" /\ k.answer = worker[w].answer /\ k.object = worker[w].object
        /\ k.run = worker[w].run /\ k.token = worker[w].token
    BY ToKeeps
  <2> HIDE DEF k
  <2>3. CallOk(k)
    BY <1>1, <1>3, <2>2 DEF CallInv, CallOk, Running
  <2>4. OthersKeep({w}) /\ CallInv' /\ worker'[w] = k
    BY <2>1, <2>2, <2>3, MovedKeeps
  <2>5. QED
    BY <1>1, <2>2, <2>4
<1>4. QED
  BY <1>2, <1>3

LEMMA ConfirmMoves ==
    ASSUME CallInv, NEW w \in Workers, ConfirmMapping(w)
    PROVE  /\ OthersKeep({w}) /\ CallInv' /\ worker[w].at = "mapping"
           /\ worker'[w].at \in {"idle", "closing", "continuing", "releasing"}
           /\ \/ /\ confirmed' = confirmed /\ execution' = execution
                 /\ worker'[w].at = "idle" \/ (worker'[w].at = "closing" /\ worker'[w].answer = "error")
              \/ /\ confirmed' = confirmed \cup {worker[w].object} /\ worker[w].object \in Pending
                 /\ bound = worker[w].run /\ mapping[worker[w].object] = bound
                 /\ \/ execution' = execution
                    \/ /\ execution = "running" /\ execution' = "succeeded"
                       /\ \A p \in Pending : p # worker[w].object => mapping[p] = 0
           /\ worker'[w].at = "closing" /\ worker'[w].answer = "success" => execution' = "succeeded"
           /\ worker'[w].at = "closing" /\ worker'[w].answer = "drift" =>
                 worker[w].answer = "drift" /\ (worker[w].token = 0 => execution = "succeeded")
           /\ worker'[w].at = "closing" => worker'[w].answer \in {"error", "success", "drift"}
           /\ worker[w].token = 0 => ~(worker'[w].at = "closing" /\ worker'[w].answer = "error")
           /\ worker[w].token = 0 => worker'[w].at # "releasing"
<1> DEFINE o == worker[w].object
           valid == mapping[o] = R(w) /\ bound = R(w) /\ o \in Pending
           drift == worker[w].answer = "drift"
           done == execution = "running" /\ ~drift /\ \A p \in Pending \ {o} : mapping[p] = 0
           queried == worker[w].token = 0
           left == IF queried THEN "continuing" ELSE "releasing"
           stored == valid /\ confirmed' = confirmed \cup {o} /\ execution' = IF done THEN "succeeded" ELSE execution
<1>1. worker[w].at = "mapping" /\ worker[w].answer \in {"success", "drift"} /\ worker[w].run \in BrowserRuns
  BY DEF ConfirmMapping, CallInv, CallOk
<1>2. stored \/ UNCHANGED <<confirmed, execution>>
  BY DEF ConfirmMapping
<1>3. /\ stored => bound = worker[w].run /\ mapping[o] = bound /\ o \in Pending
      /\ stored => \/ execution' = execution
                   \/ /\ execution = "running" /\ execution' = "succeeded"
                      /\ \A p \in Pending : p # o => mapping[p] = 0
  BY DEF R
<1>4. CASE valid /\ o \in confirmed' /\ (execution' = "succeeded" \/ (drift /\ ~queried))
           /\ worker' = [worker EXCEPT ![w] = Ending(w, "closing", worker[w].answer)]
  <2>1. stored
    BY <1>2, <1>4 DEF Pending
  <2> DEFINE k == Ending(w, "closing", worker[w].answer)
  <2>2. k \in Call /\ CallOk(k) /\ k.at = "closing" /\ k.answer = worker[w].answer
    BY <1>1, EndingKeeps DEF Answers
  <2>3. drift => execution' = execution
    BY <2>1
  <2>4. ~drift => execution' = "succeeded"
    BY <1>4
  <2>5. worker' = [worker EXCEPT ![w] = k]
    BY <1>4
  <2> HIDE DEF k
  <2>6. OthersKeep({w}) /\ CallInv' /\ worker'[w] = k
    BY <2>2, <2>5, MovedKeeps
  <2>7. drift => (queried => execution = "succeeded")
    BY <1>4, <2>3
  <2>8. confirmed' = confirmed \cup {o}
    BY <2>1
  <2> HIDE DEF stored, valid, done
  <2>9. QED
    BY <1>1, <1>3, <2>1, <2>2, <2>4, <2>6, <2>7, <2>8
<1>5. CASE valid /\ o \in confirmed' /\ worker' = [worker EXCEPT ![w] = Ending(w, left, "success")]
  <2>1. stored
    BY <1>2, <1>5 DEF Pending
  <2> DEFINE k == Ending(w, left, "success")
  <2>2. k \in Call /\ CallOk(k) /\ k.at = left
    BY <1>1, EndingKeeps DEF Answers
  <2>3. worker' = [worker EXCEPT ![w] = k] /\ left \in {"continuing", "releasing"} /\ (queried => left # "releasing")
    BY <1>5
  <2> HIDE DEF k, left
  <2>4. OthersKeep({w}) /\ CallInv' /\ worker'[w] = k
    BY <2>2, <2>3, MovedKeeps
  <2>5. confirmed' = confirmed \cup {o}
    BY <2>1
  <2> HIDE DEF stored, valid, done
  <2>6. QED
    BY <1>1, <1>3, <2>1, <2>2, <2>3, <2>4, <2>5
<1>6. CASE queried /\ worker' = [worker EXCEPT ![w] = Free]
  <2>1. OthersKeep({w}) /\ CallInv' /\ worker'[w] = Free
    BY <1>6, FreeIsIdle, MovedKeeps
  <2>2. stored => confirmed' = confirmed \cup {o}
    OBVIOUS
  <2> HIDE DEF stored, valid, done
  <2>3. QED
    BY <1>1, <1>2, <1>3, <2>1, <2>2, FreeIsIdle
<1>7. CASE ~queried /\ worker' = [worker EXCEPT ![w] = Ending(w, "closing", "error")]
  <2> DEFINE k == Ending(w, "closing", "error")
  <2>1. k \in Call /\ CallOk(k) /\ k.at = "closing" /\ k.answer = "error"
    BY <1>1, EndingKeeps DEF Answers
  <2>2. worker' = [worker EXCEPT ![w] = k]
    BY <1>7
  <2> HIDE DEF k
  <2>3. OthersKeep({w}) /\ CallInv' /\ worker'[w] = k
    BY <2>1, <2>2, MovedKeeps
  <2>4. stored => confirmed' = confirmed \cup {o}
    OBVIOUS
  <2> HIDE DEF stored, valid, done
  <2>5. QED
    BY <1>1, <1>2, <1>3, <1>7, <2>1, <2>3, <2>4
<1>8. \/ /\ valid /\ o \in confirmed'
         /\ worker' = [worker EXCEPT ![w] = IF execution' = "succeeded" \/ (drift /\ ~queried)
                                             THEN Ending(w, "closing", worker[w].answer)
                                             ELSE Ending(w, left, "success")]
      \/ worker' = [worker EXCEPT ![w] = IF queried THEN Free ELSE Ending(w, "closing", "error")]
  BY DEF ConfirmMapping
<1> HIDE DEF stored, valid, done, drift, queried, left
<1>9. QED
  BY <1>4, <1>5, <1>6, <1>7, <1>8

LEMMA LeavingMoves ==
    ASSUME CallInv, NEW w \in Workers, Leaving(w)
    PROVE  /\ OthersKeep({w}) /\ CallInv' /\ worker[w].at # "idle"
           /\ \/ worker'[w].at = "idle"
              \/ ReleaseRunLease(w) /\ worker'[w].at = "continuing"
           /\ \/ run' = run
              \/ /\ worker[w].fresh /\ worker[w].at \in {"continuing", "closing"}
                 /\ run' = [run EXCEPT ![worker[w].run] =
                       IF worker[w].at = "continuing" THEN "environment_check" ELSE Ended(worker[w].answer)]
<1>1. CASE ReleaseRunLease(w)
  <2>1. worker[w].at = "releasing" /\ run' = run
    BY <1>1 DEF ReleaseRunLease
  <2>2. CASE worker[w].fresh /\ lease[R(w)] # "none"
    <3> DEFINE k == To(w, "continuing")
    <3>1. worker' = [Bumped(R(w)) EXCEPT ![w] = k]
      BY <1>1, <2>2 DEF ReleaseRunLease
    <3>2. k \in Call /\ k.at = "continuing" /\ k.run = worker[w].run
      BY ToKeeps
    <3> HIDE DEF k
    <3>3. CallOk(k)
      BY <2>1, <3>2 DEF CallInv, CallOk, Running
    <3>4. OthersKeep({w}) /\ worker'[w] = k
      BY <3>1, <3>2, BumpedMoves DEF R
    <3>5. QED
      BY <1>1, <2>1, <3>2, <3>3, <3>4, CallKeeps
  <2>3. CASE ~(worker[w].fresh /\ lease[R(w)] # "none")
    <3>1. worker' = [worker EXCEPT ![w] = Free]
      BY <1>1, <2>3 DEF ReleaseRunLease
    <3>2. QED
      BY <2>1, <3>1, FreeIsIdle, MovedKeeps
  <2>4. QED
    BY <2>2, <2>3
<1>2. ASSUME NEW state, worker[w].at \in {"continuing", "closing"}, TransitionRun(w, state, Free)
      PROVE  /\ OthersKeep({w}) /\ CallInv' /\ worker'[w].at = "idle"
             /\ \/ run' = run
                \/ worker[w].fresh /\ run' = [run EXCEPT ![worker[w].run] = state]
  BY <1>2, FreeIsIdle, TransitionKeeps, TransitionOthers
<1>3. CASE Continue(w)
  <2>1. worker[w].at = "continuing" /\ TransitionRun(w, "environment_check", Free)
    BY <1>3 DEF Continue
  <2>2. QED
    BY <1>2, <2>1
<1>4. CASE CloseRun(w)
  <2>1. worker[w].at = "closing" /\ TransitionRun(w, Ended(worker[w].answer), Free)
    BY <1>4 DEF CloseRun
  <2>2. QED
    BY <1>2, <2>1
<1>5. CASE CallStops(w)
  <2>1. worker' = [worker EXCEPT ![w] = Free] /\ worker[w].at # "idle" /\ run' = run
    BY <1>5 DEF CallStops
  <2>2. OthersKeep({w}) /\ CallInv' /\ worker'[w] = Free
    BY <2>1, FreeIsIdle, MovedKeeps
  <2>3. QED
    BY <2>1, <2>2, FreeIsIdle
<1>6. QED
  BY <1>1, <1>3, <1>4, <1>5 DEF Leaving

LEMMA QueryMoves ==
    ASSUME CallInv, NEW w \in Workers, Query(w)
    PROVE  /\ OthersKeep({w}) /\ CallInv' /\ worker[w].at = "querying" /\ run' = run
           /\ \/ worker'[w].at = "idle"
              \/ /\ run[worker[w].run] = "result_unknown" /\ worker'[w].run = worker[w].run
                 /\ \/ /\ worker'[w].at = "closing" /\ worker'[w].answer = "noeffect"
                       /\ worker[w].answer = "noeffect"
                    \/ /\ worker'[w].at = "mapping" /\ worker'[w].object = worker[w].object
                       /\ worker'[w].answer = worker[w].answer /\ worker'[w].token = worker[w].token
<1> DEFINE r == worker[w].run
<1>1. worker[w].at = "querying" /\ run' = run /\ worker[w].answer \in {"noeffect", "success", "drift"}
  BY DEF Query, CallInv, CallOk
<1>2. CASE worker' = [worker EXCEPT ![w] = Free]
  BY <1>1, <1>2, FreeIsIdle, MovedKeeps
<1>3. CASE worker' # [worker EXCEPT ![w] = Free]
  <2> DEFINE k == [IF worker[w].answer = "noeffect" THEN Ending(w, "closing", "noeffect") ELSE To(w, "mapping")
                      EXCEPT !.fresh = TRUE]
  <2>1. run[r] = "result_unknown" /\ worker' = [Outdated(r) EXCEPT ![w] = k]
    BY <1>3 DEF Query, R
  <2>2. CASE worker[w].answer = "noeffect"
    <3>1. PICK e \in Call : /\ e = Ending(w, "closing", "noeffect") /\ CallOk(e)
                            /\ e.at = "closing" /\ e.answer = "noeffect" /\ e.run = r
      BY <1>1, EndingKeeps DEF Answers
    <3>2. k = [e EXCEPT !.fresh = TRUE]
      BY <2>2, <3>1
    <3>3. k \in Call /\ k.at = "closing" /\ k.answer = "noeffect" /\ k.run = r
      BY <3>1, <3>2 DEF Call
    <3> HIDE DEF k
    <3>4. CallOk(k)
      BY <1>1, <3>3 DEF CallInv, CallOk, Running
    <3>5. OthersKeep({w}) /\ CallInv' /\ worker'[w] = k
      BY <2>1, <3>3, <3>4, MovedKeeps
    <3>6. QED
      BY <1>1, <2>1, <2>2, <3>3, <3>5
  <2>3. CASE worker[w].answer # "noeffect"
    <3>1. PICK e \in Call : /\ e = To(w, "mapping") /\ e.at = "mapping" /\ e.run = r
                            /\ e.object = worker[w].object /\ e.answer = worker[w].answer
                            /\ e.token = worker[w].token
      BY ToKeeps
    <3>2. k = [e EXCEPT !.fresh = TRUE]
      BY <2>3, <3>1
    <3>3. /\ k \in Call /\ k.at = "mapping" /\ k.answer = worker[w].answer /\ k.run = r
          /\ k.object = worker[w].object /\ k.token = worker[w].token
      BY <3>1, <3>2 DEF Call
    <3> HIDE DEF k
    <3>4. CallOk(k)
      BY <1>1, <2>3, <3>3 DEF CallInv, CallOk, Running
    <3>5. OthersKeep({w}) /\ CallInv' /\ worker'[w] = k
      BY <2>1, <3>3, <3>4, MovedKeeps
    <3>6. QED
      BY <1>1, <2>1, <3>3, <3>5
  <2>4. QED
    BY <2>2, <2>3
<1>4. QED
  BY <1>2, <1>3

LEMMA ReconcilingMoves ==
    ASSUME RowType, CallInv, NEW w \in Workers, Reconciling(w)
    PROVE  /\ OthersKeep({w}) /\ CallInv'
           /\ worker[w].at \in {"querying", "reverifying", "rechecked"}
           /\ \/ worker'[w].at \in {"idle", "rechecked"}
              \/ /\ worker'[w].at = "closing" /\ worker'[w].answer = "noeffect"
                 /\ worker[w].at = "querying" /\ worker[w].answer = "noeffect"
              \/ /\ worker'[w].at = "mapping" /\ worker'[w].object = worker[w].object
                 /\ worker[w].at = "querying" /\ worker'[w].answer = worker[w].answer
                 /\ worker'[w].token = worker[w].token
           /\ \/ worker'[w].at \in {"idle", "rechecked"} \/ run[worker[w].run] = "result_unknown"
           /\ worker'[w].at = "rechecked" => run[worker[w].run] = "partial"
           /\ worker'[w].run = worker[w].run \/ worker'[w].at = "idle"
           /\ \/ run' = run
              \/ /\ worker[w].fresh /\ worker[w].at = "rechecked"
                 /\ run' = [run EXCEPT ![worker[w].run] = "environment_check"]
<1> DEFINE r == worker[w].run
<1>1. CASE Query(w)
  BY <1>1, QueryMoves
<1>2. CASE Reverify(w)
  <2>1. worker[w].at = "reverifying" /\ run' = run
    BY <1>2 DEF Reverify
  <2>2. CASE worker' = [worker EXCEPT ![w] = Free]
    BY <2>1, <2>2, FreeIsIdle, MovedKeeps
  <2>3. CASE worker' # [worker EXCEPT ![w] = Free]
    <3> DEFINE k == [To(w, "rechecked") EXCEPT !.fresh = TRUE]
    <3>1. run[r] = "partial" /\ worker' = [Outdated(r) EXCEPT ![w] = k]
      BY <1>2, <2>3 DEF Reverify, R
    <3>2. PICK e \in Call : e = To(w, "rechecked") /\ e.at = "rechecked" /\ e.run = r
      BY ToKeeps
    <3>3. k \in Call /\ k.at = "rechecked" /\ k.run = r
      BY <3>2 DEF Call
    <3> HIDE DEF k
    <3>4. CallOk(k)
      BY <2>1, <3>3 DEF CallInv, CallOk, Running
    <3>5. OthersKeep({w}) /\ CallInv' /\ worker'[w] = k
      BY <3>1, <3>3, <3>4, MovedKeeps
    <3>6. QED
      BY <2>1, <3>1, <3>3, <3>5
  <2>4. QED
    BY <2>2, <2>3
<1>3. CASE LeavePartial(w)
  <2>1. worker[w].at = "rechecked"
    BY <1>3 DEF LeavePartial
  <2>2. \/ TransitionRun(w, "environment_check", Free)
        \/ worker' = [worker EXCEPT ![w] = Free] /\ run' = run
    BY <1>3 DEF LeavePartial
  <2>3. QED
    BY <2>1, <2>2, FreeIsIdle, MovedKeeps, TransitionKeeps, TransitionOthers
<1>4. QED
  BY <1>1, <1>2, <1>3 DEF Reconciling
-----------------------------------------------------------------------------
(* The type. *)

Moving(w) == Preparing(w) \/ Submitting(w) \/ Verifying(w) \/ Leaving(w) \/ Reconciling(w)

LEMMA WorkerCases ==
    ASSUME NEW w, WorkerStep(w)
    PROVE  \/ \E r \in BrowserRuns : BeginPrepare(w, r) \/ ReadForReconcile(w, r)
           \/ \E r \in BrowserRuns, c \in Tokens : ReadForSubmit(w, r, c)
           \/ Moving(w)
BY DEF WorkerStep, Moving, Preparing, Submitting, Verifying, Leaving, Reconciling

LEMMA SetStepKeeps ==
    ASSUME RowType, NEW w, NEW s \in {"prepareFailed", "failed", "listed"}, SetStep(w, s)
    PROVE  step' \in [BrowserRuns -> {"none", "open", "prepareFailed", "failed", "listed"}]
BY DEF SetStep, RowType

LEMMA WorkersKeepRows ==
    ASSUME RowType, CallInv, NEW w \in Workers, WorkerStep(w)
    PROVE  RowType'
<1> USE DEF RowType
<1>1. ASSUME NEW r \in BrowserRuns, BeginPrepare(w, r) \/ ReadForReconcile(w, r) PROVE RowType'
  BY <1>1 DEF BeginPrepare, ReadForReconcile, NewStep, rows, evidence, world
<1>2. ASSUME NEW r \in BrowserRuns, NEW c \in Tokens, ReadForSubmit(w, r, c) PROVE RowType'
  BY <1>2 DEF ReadForSubmit, NewStep, rows, world
<1>3. CASE Preparing(w)
  <2>1. CASE Prepared(w)
    BY <2>1 DEF Prepared, rows, evidence, world
  <2>2. CASE PrepareFails(w)
    <3>1. /\ UNCHANGED <<rows, held, lease, noEffect, world, faults>>
          /\ \E s \in {"prepareFailed", "failed"} : SetStep(w, s)
      BY <2>2 DEF PrepareFails
    <3>2. QED
      BY <3>1, SetStepKeeps DEF rows, world
  <2>3. QED
    BY <1>3, <2>1, <2>2 DEF Preparing
<1>4. CASE AuthorizeAction(w) \/ BeginSubmit(w) \/ BeginVerify(w)
  BY <1>4 DEF AuthorizeAction, BeginSubmit, BeginVerify, rows, evidence, world
<1>5. CASE ClickFinal(w)
  <2>1. UNCHANGED <<rows, held, lease, evidence, interrupted, outrun, faults>>
    BY <1>5 DEF ClickFinal
  <2>2. written' \in [Objects -> Nat]
    <3> HIDE DEF RowType
    <3>1. \/ written' = written
          \/ FirstOf(Pending) \in Objects /\ written' = [written EXCEPT ![FirstOf(Pending)] = @ + 1]
      BY <1>5, ClickMoves
    <3>2. QED
      BY <3>1 DEF RowType
  <2>3. QED
    BY <2>1, <2>2 DEF rows, evidence
<1>6. CASE CompleteAction(w)
  <2>1. UNCHANGED <<rows, held, lease, noEffect, world>>
    BY <1>6 DEF CompleteAction
  <2>2. faults' \in 0..MaxFaults
    BY <1>6, BrowserAssumption DEF CompleteAction, Fault
  <2>3. step' = step \/ SetStep(w, "failed")
    BY <1>6 DEF CompleteAction
  <2>4. QED
    BY <2>1, <2>2, <2>3, SetStepKeeps DEF rows, world
<1>7. CASE StoreResult(w)
  <2>1. /\ UNCHANGED <<rows, held, lease, world, faults>>
        /\ \E b \in BOOLEAN : SetStep(w, IF b THEN "failed" ELSE "listed")
        /\ \E b : noEffect' = [noEffect EXCEPT ![R(w)] = @ \/ b]
    BY <1>7 DEF StoreResult
  <2>2. noEffect' \in [BrowserRuns -> BOOLEAN]
    BY <2>1
  <2>3. step' \in [BrowserRuns -> {"none", "open", "prepareFailed", "failed", "listed"}]
    BY <2>1, SetStepKeeps
  <2>4. QED
    BY <2>1, <2>2, <2>3 DEF rows, world
<1>8. CASE ConfirmMapping(w)
  <2>1. UNCHANGED <<bound, mapping, held, lease, evidence, world>> /\ faults' \in 0..MaxFaults
    BY <1>8, BrowserAssumption DEF ConfirmMapping, Fault
  <2>2. \/ confirmed' = confirmed /\ execution' = execution
        \/ /\ confirmed' = confirmed \cup {worker[w].object}
           /\ execution' = execution \/ (execution = "running" /\ execution' = "succeeded")
    BY <1>8, ConfirmMoves
  <2>3. worker[w].object \in Objects
    BY <1>8 DEF ConfirmMapping, CallInv, CallOk
  <2>4. QED
    BY <2>1, <2>2, <2>3 DEF evidence, world
<1>9. CASE Leaving(w)
  <2>1. CASE Continue(w)
    BY <2>1 DEF Continue, rows, evidence
  <2>2. CASE ReleaseRunLease(w) \/ CloseRun(w) \/ CallStops(w)
    BY <2>2, BrowserAssumption DEF ReleaseRunLease, CloseRun, CallStops, Fault, rows, evidence, world
  <2>3. QED
    BY <1>9, <2>1, <2>2 DEF Leaving
<1>10. CASE Reconciling(w)
  <2>1. /\ UNCHANGED <<rows, held, lease, world, faults>>
        /\ step' = step \/ NewStep(worker[w].run, "listed")
        /\ noEffect' = noEffect \/ \E b : noEffect' = [noEffect EXCEPT ![worker[w].run] = @ \/ b]
    BY <1>10 DEF Reconciling, Query, Reverify, LeavePartial, evidence, R
  <2>2. noEffect' \in [BrowserRuns -> BOOLEAN]
    BY <2>1
  <2>3. step' \in [BrowserRuns -> {"none", "open", "prepareFailed", "failed", "listed"}]
    BY <2>1 DEF NewStep
  <2>4. QED
    BY <2>1, <2>2, <2>3 DEF rows, world
<1>11. QED
  BY <1>1, <1>2, <1>3, <1>4, <1>5, <1>6, <1>7, <1>8, <1>9, <1>10, WorkerCases
     DEF Moving, Submitting, Verifying

(* A run changes by a transition of the worker that read it last. *)
LEMMA WorkersChangeRuns ==
    ASSUME CallInv, RowType, NEW w \in Workers, WorkerStep(w)
    PROVE  \/ run' = run
           \/ \E r \in BrowserRuns : BeginPrepare(w, r) /\ run' = [run EXCEPT ![r] = "preparing"]
           \/ /\ worker[w].fresh /\ worker[w].at \in {"preparing", "authorized", "verifying", "continuing",
                                                     "closing", "rechecked"}
              /\ Overtaken({w}, worker[w].run)
              /\ \E s \in {"awaiting_confirmation", "submitting", "verifying", "environment_check"} :
                    run' = [run EXCEPT ![worker[w].run] = s] /\ (s = "submitting" <=> worker[w].at = "authorized")
           \/ /\ worker[w].fresh /\ worker[w].at = "closing" /\ Overtaken({w}, worker[w].run)
              /\ run' = [run EXCEPT ![worker[w].run] = Ended(worker[w].answer)]
<1> DEFINE Known(s) == /\ worker[w].fresh /\ Overtaken({w}, worker[w].run)
                       /\ run' = [run EXCEPT ![worker[w].run] = s]
<1>1. ASSUME NEW s, NEW k \in Call, TransitionRun(w, s, k) PROVE run' = run \/ Known(s)
  BY <1>1, TransitionOthers
<1>2. CASE Prepared(w)
  <2>1. worker[w].at = "preparing" /\ TransitionRun(w, "awaiting_confirmation", Free)
    BY <1>2 DEF Prepared
  <2>2. QED
    BY <1>1, <2>1, FreeIsIdle
<1>3. CASE BeginSubmit(w)
  <2>1. worker[w].at = "authorized" /\ TransitionRun(w, "submitting", To(w, "clicking"))
    BY <1>3 DEF BeginSubmit
  <2>2. To(w, "clicking") \in Call
    BY ToKeeps
  <2>3. QED
    BY <1>1, <2>1, <2>2
<1>4. CASE BeginVerify(w)
  <2>1. worker[w].at = "verifying" /\ TransitionRun(w, "verifying", To(w, "storing"))
    BY <1>4 DEF BeginVerify
  <2>2. To(w, "storing") \in Call
    BY ToKeeps
  <2>3. QED
    BY <1>1, <2>1, <2>2
<1>5. CASE Continue(w)
  <2>1. worker[w].at = "continuing" /\ TransitionRun(w, "environment_check", Free)
    BY <1>5 DEF Continue
  <2>2. QED
    BY <1>1, <2>1, FreeIsIdle
<1>6. CASE CloseRun(w)
  <2>1. worker[w].at = "closing" /\ TransitionRun(w, Ended(worker[w].answer), Free)
    BY <1>6 DEF CloseRun
  <2>2. QED
    BY <1>1, <2>1, FreeIsIdle
<1>7. CASE LeavePartial(w)
  <2>1. worker[w].at = "rechecked" /\ (run' = run \/ TransitionRun(w, "environment_check", Free))
    BY <1>7 DEF LeavePartial
  <2>2. QED
    BY <1>1, <2>1, FreeIsIdle
<1>8. QED
  BY <1>2, <1>3, <1>4, <1>5, <1>6, <1>7, WorkerCases
     DEF Moving, Preparing, Submitting, Verifying, Leaving, Reconciling, BeginPrepare, ReadForReconcile,
         ReadForSubmit, PrepareFails, AuthorizeAction, ClickFinal, CompleteAction, StoreResult,
         ConfirmMapping, ReleaseRunLease, CallStops, Query, Reverify

(* A confirmation changes when it is consumed, and when the call that holds it
   records what it saw. *)
LEMMA WorkersChangeTokens ==
    ASSUME TokenType, CallInv, NEW w \in Workers, WorkerStep(w)
    PROVE  \/ token' = token
           \/ /\ AuthorizeAction(w) /\ worker[w].token \in Tokens /\ token[worker[w].token].is = "usable"
              /\ token' = [token EXCEPT ![worker[w].token].is = "authorized"]
           \/ /\ \/ CompleteAction(w) /\ token'[worker[w].token].is = Outcome(worker[w].answer)
                 \/ StoreResult(w) /\ token'[worker[w].token].is \in {"drifted", token[worker[w].token].is}
              /\ worker[w].token \in Tokens /\ token' \in [Tokens -> Confirmation]
              /\ token'[worker[w].token].run = token[worker[w].token].run
              /\ token'[worker[w].token].is \in Attempt \cup {token[worker[w].token].is}
              /\ \A d \in Tokens : d # worker[w].token => token'[d] = token[d]
<1> DEFINE c == worker[w].token
<1>1. CASE AuthorizeAction(w)
  <2>1. worker[w].at = "requested" /\ c \in Tokens
    BY <1>1 DEF AuthorizeAction, CallInv, CallOk, Running
  <2>2. QED
    BY <1>1, <2>1 DEF AuthorizeAction, MayAct
<1>2. Seen(w) \subseteq 0..ObjectCount
  BY BrowserAssumption DEF Seen, CallInv, Call
<1>3. CASE CompleteAction(w)
  <2>1. c \in Tokens
    BY <1>3 DEF CompleteAction, CallInv, CallOk, Running
  <2>2. PICK s \in SUBSET (0..ObjectCount) :
            token' = [token EXCEPT ![c].is = Outcome(worker[w].answer), ![c].shown = s]
    BY <1>2, <1>3 DEF CompleteAction
  <2>3. Outcome(worker[w].answer) \in Attempt
    BY DEF Outcome, Attempt
  <2>4. QED
    BY <1>3, <2>1, <2>2, <2>3 DEF TokenType, Confirmation
<1>4. CASE StoreResult(w)
  <2>1. c \in Tokens
    BY <1>4 DEF StoreResult, CallInv, CallOk, Running
  <2>2. PICK b \in BOOLEAN : token' = [token EXCEPT ![c].shown = Seen(w), ![c].is = IF b THEN "drifted" ELSE @]
    BY <1>4 DEF StoreResult
  <2>3. "drifted" \in Attempt
    BY DEF Attempt
  <2>4. CASE b
    BY <1>2, <1>4, <2>1, <2>2, <2>3, <2>4 DEF TokenType, Confirmation
  <2>5. CASE ~b
    BY <1>2, <1>4, <2>1, <2>2, <2>5 DEF TokenType, Confirmation
  <2>6. QED
    BY <2>4, <2>5
<1>5. QED
  BY <1>1, <1>3, <1>4, WorkerCases
     DEF Moving, Preparing, Submitting, Verifying, Leaving, Reconciling, BeginPrepare, ReadForReconcile,
         ReadForSubmit, Prepared, PrepareFails, BeginSubmit, ClickFinal, BeginVerify, ConfirmMapping,
         ReleaseRunLease, Continue, CloseRun, CallStops, Query, Reverify, LeavePartial, evidence

TypeInv == RowType /\ RunType /\ TokenType /\ CallInv

LEMMA TypeStart == Init => TypeInv
<1> SUFFICES ASSUME Init PROVE TypeInv
  OBVIOUS
<1> USE BrowserAssumption DEF Init, BrowserInit
<1>1. RowType
  <2>1. (execution = "pending") <=> (bound = 0)
    OBVIOUS
  <2>2. noEffect \in [BrowserRuns -> BOOLEAN] /\ interrupted \in BOOLEAN
    OBVIOUS
  <2>3. /\ 0 \in 0..RunCount /\ 0 \in 0..MaxFaults /\ 0 \in Nat
    OBVIOUS
  <2>4. QED
    BY <2>1, <2>2, <2>3 DEF RowType
<1>2. RunType
  BY DEF RunType, RunState
<1>3. TokenType
  BY DEF TokenType, Confirmation
<1>4. CallInv
  BY FreeIsIdle DEF CallInv
<1>5. QED
  BY <1>1, <1>2, <1>3, <1>4 DEF TypeInv

LEMMA WorkerCalls ==
    ASSUME RowType, CallInv, NEW w \in Workers, WorkerStep(w)
    PROVE  OthersKeep({w}) /\ CallInv'
<1>1. ASSUME NEW r \in BrowserRuns, NEW c \in Tokens, ReadForSubmit(w, r, c) PROVE OthersKeep({w}) /\ CallInv'
  BY <1>1, SubmitReads
<1>2. ASSUME NEW r \in BrowserRuns, BeginPrepare(w, r) PROVE OthersKeep({w}) /\ CallInv'
  BY <1>2, PrepareReads
<1>3. ASSUME NEW r \in BrowserRuns, ReadForReconcile(w, r) PROVE OthersKeep({w}) /\ CallInv'
  BY <1>3, ReconcileReads
<1>4. ASSUME Moving(w) PROVE OthersKeep({w}) /\ CallInv'
  BY <1>4, PreparingKeeps, AuthorizeMoves, BeginSubmitMoves, ClickMoves, CompleteMoves, BeginVerifyMoves,
     StoreMoves, ConfirmMoves, LeavingMoves, ReconcilingMoves DEF Moving, Submitting, Verifying
<1>5. QED
  BY <1>1, <1>2, <1>3, <1>4, WorkerCases

LEMMA TypeKeeps == TypeInv /\ [BrowserNext]_vars => TypeInv'
<1> SUFFICES ASSUME TypeInv, [BrowserNext]_vars PROVE TypeInv'
  OBVIOUS
<1> USE DEF TypeInv
<1>1. CASE Others
  BY <1>1, OthersMoveNoCall, OthersKeepRows, OthersKeepRuns, OthersKeepTokens
<1>2. ASSUME NEW w \in Workers, WorkerStep(w) PROVE TypeInv'
  <2>1. RowType' /\ CallInv'
    BY <1>2, WorkersKeepRows, WorkerCalls
  <2>2. RunType'
    <3>1. ASSUME NEW r, NEW s \in RunState, run' = [run EXCEPT ![r] = s] PROVE RunType'
      BY <3>1 DEF RunType
    <3>2. Ended(worker[w].answer) \in RunState
      BY DEF RunState, Terminal, Ended
    <3>3. \A s \in {"preparing", "awaiting_confirmation", "submitting", "verifying", "environment_check"} :
             s \in RunState
      BY DEF RunState
    <3>4. run' = run => RunType'
      BY DEF RunType
    <3>5. \/ run' = run
          \/ \E r \in BrowserRuns : run' = [run EXCEPT ![r] = "preparing"]
          \/ \E s \in {"awaiting_confirmation", "submitting", "verifying", "environment_check"} :
                run' = [run EXCEPT ![worker[w].run] = s]
          \/ run' = [run EXCEPT ![worker[w].run] = Ended(worker[w].answer)]
      BY <1>2, WorkersChangeRuns
    <3>6. QED
      BY <3>1, <3>2, <3>3, <3>4, <3>5
  <2>3. TokenType'
    <3>1. CASE token' = [token EXCEPT ![worker[w].token].is = "authorized"]
      BY <3>1 DEF TokenType, Confirmation, Attempt
    <3>2. QED
      BY <1>2, <3>1, WorkersChangeTokens DEF TokenType
  <2>4. QED
    BY <2>1, <2>2, <2>3
<1>3. CASE UNCHANGED vars
  BY <1>3 DEF vars, rows, evidence, world, RowType, RunType, TokenType, CallInv
<1>4. QED
  BY <1>1, <1>2, <1>3 DEF BrowserNext, Others
-----------------------------------------------------------------------------
(* What is recorded as created has been created. *)

Saw == {"answered", "verifying", "storing", "mapping", "querying"}

MappedConfirmed == \A o \in Objects : mapping[o] # 0 => o \in confirmed

CallSaw(w) ==
    /\ worker[w].at \in Saw /\ worker[w].answer \in {"success", "drift"} => written[worker[w].object] >= 1
    /\ worker[w].at = "closing" /\ worker[w].answer = "success" => execution = "succeeded"

WrittenInv ==
    /\ \A o \in confirmed : written[o] >= 1
    /\ \A w \in Workers : CallSaw(w)
    /\ execution = "succeeded" => MappedConfirmed
    /\ \A r \in BrowserRuns : run[r] = "succeeded" => execution = "succeeded"

Grows == /\ confirmed \subseteq confirmed' /\ confirmed' \subseteq Objects
         /\ \A o \in Objects : written'[o] >= written[o]
         /\ execution = "succeeded" => execution' = "succeeded" /\ mapping' = mapping

LEMMA GrowsCalls ==
    ASSUME TypeInv, TypeInv', WrittenInv, Grows, NEW S, OthersKeep(S),
           \A v \in Workers \cap S : CallSaw(v)'
    PROVE  \A v \in Workers : CallSaw(v)'
<1>1. ASSUME NEW v \in Workers \ S PROVE CallSaw(v)'
  <2>1. Same(worker'[v], worker[v]) /\ CallSaw(v) /\ CallOk(worker[v])
    BY DEF OthersKeep, WrittenInv, TypeInv, CallInv
  <2>2. worker[v].at \in Saw /\ worker[v].answer \in {"success", "drift"} =>
           worker[v].object \in Objects /\ written[worker[v].object] >= 1
    BY <2>1 DEF CallOk, CallSaw, Saw
  <2>3. written \in [Objects -> Nat] /\ written' \in [Objects -> Nat]
    BY DEF TypeInv, RowType
  <2>4. worker[v].at \in Saw /\ worker[v].answer \in {"success", "drift"} => written'[worker[v].object] >= 1
    BY <2>2, <2>3 DEF Grows
  <2>5. QED
    BY <2>1, <2>4 DEF CallSaw, Same, Grows
<1>2. QED
  BY <1>1

LEMMA WrittenKeeps == TypeInv /\ TypeInv' /\ WrittenInv /\ [BrowserNext]_vars => WrittenInv'
<1> SUFFICES ASSUME TypeInv, TypeInv', WrittenInv, [BrowserNext]_vars PROVE WrittenInv'
  OBVIOUS
<1>1. /\ RowType /\ CallInv /\ written \in [Objects -> Nat] /\ written' \in [Objects -> Nat]
      /\ confirmed \subseteq Objects /\ confirmed' \subseteq Objects /\ run \in [BrowserRuns -> RunState]
  BY DEF TypeInv, RowType, RunType
<1>2. ASSUME Grows, \A v \in Workers : CallSaw(v)',
             \A o \in confirmed' \ confirmed : written[o] >= 1,
             execution' = "succeeded" => execution = "succeeded" \/ MappedConfirmed',
             \A r \in BrowserRuns : run'[r] = "succeeded" => run[r] = "succeeded" \/ execution = "succeeded"
      PROVE  WrittenInv'
  <2>1. \A o \in confirmed' : o \in Objects /\ written[o] >= 1
    BY <1>1, <1>2 DEF WrittenInv
  <2>2. \A o \in confirmed' : written'[o] >= 1
    BY <1>1, <1>2, <2>1 DEF Grows
  <2>3. execution = "succeeded" => MappedConfirmed'
    BY <1>2 DEF Grows, WrittenInv, MappedConfirmed
  <2>4. QED
    BY <1>2, <2>2, <2>3 DEF WrittenInv, Grows
<1>3. CASE Others
  <2>1. UNCHANGED <<confirmed, written>> /\ (execution' = "succeeded" => execution = "succeeded")
    BY <1>3 DEF Others, CreateRun, AttachRun, CheckEnvironment, ControlRun, AcquireLease, LeaseRunsOut,
           ReleaseLease, IssueConfirmation, BindMapping, ResetExecution, InvalidateExecution, rows, world
  <2>2. Grows
    <3>1. execution = "succeeded" => execution' = "succeeded" /\ mapping' = mapping
      BY <1>3 DEF Others, CreateRun, AttachRun, CheckEnvironment, ControlRun, AcquireLease, LeaseRunsOut,
             ReleaseLease, IssueConfirmation, BindMapping, ResetExecution, InvalidateExecution, rows
    <3>2. QED
      BY <1>1, <2>1, <3>1 DEF Grows
  <2>3. \A v \in Workers : CallSaw(v)'
    BY <1>1, <1>3, <2>2, OthersMoveNoCall, GrowsCalls
  <2>4. \A r \in BrowserRuns : run'[r] = "succeeded" => run[r] = "succeeded"
    BY <1>1, <1>3 DEF Others, CreateRun, AttachRun, CheckEnvironment, ControlRun, AcquireLease, LeaseRunsOut,
           ReleaseLease, IssueConfirmation, BindMapping, ResetExecution, InvalidateExecution
  <2>5. QED
    BY <1>2, <2>1, <2>2, <2>3, <2>4
<1>4. ASSUME NEW w \in Workers, WorkerStep(w) PROVE WrittenInv'
  <2>1. \/ run' = run
        \/ \E r \in BrowserRuns : run' = [run EXCEPT ![r] = "preparing"]
        \/ \E s \in {"awaiting_confirmation", "submitting", "verifying", "environment_check"} :
              run' = [run EXCEPT ![worker[w].run] = s]
        \/ worker[w].at = "closing" /\ run' = [run EXCEPT ![worker[w].run] = Ended(worker[w].answer)]
    BY <1>1, <1>4, WorkersChangeRuns
  <2>2. worker[w].answer \in Answers /\ CallSaw(w)
    BY <1>1 DEF CallInv, Call, WrittenInv
  <2>3. Ended(worker[w].answer) = "succeeded" => worker[w].answer = "success"
    BY <2>2 DEF Ended, Answers
  <2>4. worker[w].at = "closing" /\ Ended(worker[w].answer) = "succeeded" => execution = "succeeded"
    BY <2>2, <2>3 DEF CallSaw
  <2>5. \A r \in BrowserRuns : run'[r] = "succeeded" => run[r] = "succeeded" \/ execution = "succeeded"
    BY <1>1, <2>1, <2>4
  <2>6. OthersKeep({w})
    BY <1>1, <1>4, WorkerCalls
  <2>7. ASSUME CallSaw(w)', Grows, \A o \in confirmed' \ confirmed : written[o] >= 1,
               execution' = "succeeded" => execution = "succeeded" \/ MappedConfirmed'
        PROVE  WrittenInv'
    BY <1>2, <2>5, <2>6, <2>7, GrowsCalls
  <2>8. ASSUME CallSaw(w)', UNCHANGED <<confirmed, written, execution, mapping>> PROVE WrittenInv'
    <3>1. Grows
      BY <1>1, <2>8 DEF Grows
    <3>2. QED
      BY <2>7, <2>8, <3>1
  <2>9. ASSUME NEW r \in BrowserRuns, NEW c \in Tokens, ReadForSubmit(w, r, c) PROVE WrittenInv'
    <3>1. worker'[w].at = "requested"
      BY <1>1, <2>9, SubmitReads
    <3>2. UNCHANGED <<confirmed, written, execution, mapping>>
      BY <2>9 DEF ReadForSubmit, rows, world
    <3>3. QED
      BY <2>8, <3>1, <3>2 DEF CallSaw, Saw
  <2>10. ASSUME NEW r \in BrowserRuns, BeginPrepare(w, r) \/ ReadForReconcile(w, r) PROVE WrittenInv'
    <3>1. \/ worker'[w].at \in {"preparing", "reverifying"}
          \/ /\ worker'[w].at = "querying" /\ FirstOf(Pending) \in Objects /\ worker'[w].object = FirstOf(Pending)
             /\ (worker'[w].answer = "noeffect") <=> (written[FirstOf(Pending)] = 0)
      BY <1>1, <2>10, PrepareReads, ReconcileReads
    <3>2. UNCHANGED <<confirmed, written, execution, mapping>>
      BY <2>10 DEF BeginPrepare, ReadForReconcile, rows, world
    <3>3. CallSaw(w)'
      BY <1>1, <3>1, <3>2 DEF CallSaw, Saw
    <3>4. QED
      BY <2>8, <3>2, <3>3
  <2>11. CASE Preparing(w)
    <3>1. worker'[w].at \in {"idle", "closing"} /\ (worker'[w].at = "closing" => worker'[w].answer = "error")
      BY <1>1, <2>11, PreparingKeeps
    <3>2. UNCHANGED <<confirmed, written, execution, mapping>>
      BY <2>11 DEF Preparing, Prepared, PrepareFails, rows, world
    <3>3. QED
      BY <2>8, <3>1, <3>2 DEF CallSaw, Saw
  <2>12. CASE AuthorizeAction(w) \/ BeginSubmit(w)
    <3>1. worker'[w].at \in {"idle", "authorized", "clicking"}
      BY <1>1, <2>12, AuthorizeMoves, BeginSubmitMoves, FreeIsIdle
    <3>2. UNCHANGED <<confirmed, written, execution, mapping>>
      BY <2>12 DEF AuthorizeAction, BeginSubmit, rows, world
    <3>3. QED
      BY <2>8, <3>1, <3>2 DEF CallSaw, Saw
  <2>13. CASE ClickFinal(w)
    <3>1. UNCHANGED <<confirmed, execution, mapping>>
      BY <2>13 DEF ClickFinal, rows
    <3>2. /\ worker'[w].at = "answered"
          /\ \/ written' = written /\ worker'[w].answer \notin {"success", "drift"}
             \/ /\ FirstOf(Pending) \in Objects /\ written' = [written EXCEPT ![FirstOf(Pending)] = @ + 1]
                /\ worker'[w].object = FirstOf(Pending)
      BY <1>1, <2>13, ClickMoves
    <3>3. CallSaw(w)'
      BY <1>1, <3>2 DEF CallSaw
    <3>4. Grows
      BY <1>1, <3>1, <3>2 DEF Grows
    <3>5. QED
      BY <2>7, <3>1, <3>3, <3>4
  <2>14. CASE CompleteAction(w) \/ BeginVerify(w) \/ StoreResult(w)
    <3>1. /\ worker[w].at \in Saw
          /\ \/ worker'[w].at = "idle"
             \/ worker'[w].at = "closing" /\ worker'[w].answer # "success"
             \/ /\ worker'[w].at \in {"verifying", "storing", "mapping"}
                /\ worker'[w].answer = worker[w].answer /\ worker'[w].object = worker[w].object
      BY <1>1, <2>14, CompleteMoves, BeginVerifyMoves, StoreMoves, FreeIsIdle DEF Saw
    <3>2. UNCHANGED <<confirmed, written, execution, mapping>>
      BY <2>14 DEF CompleteAction, BeginVerify, StoreResult, rows, world
    <3>3. CallSaw(w)'
      BY <2>2, <3>1, <3>2 DEF CallSaw, Saw
    <3>4. QED
      BY <2>8, <3>2, <3>3
  <2>15. CASE ConfirmMapping(w)
    <3>1. written' = written /\ mapping' = mapping
      BY <2>15 DEF ConfirmMapping, world
    <3>2. worker[w].object \in Objects /\ written[worker[w].object] >= 1
      BY <1>1, <2>2, <2>15 DEF ConfirmMapping, CallInv, CallOk, CallSaw, Saw
    <3>3. /\ worker'[w].at \in {"idle", "closing", "continuing", "releasing"}
          /\ worker'[w].at = "closing" /\ worker'[w].answer = "success" => execution' = "succeeded"
          /\ \/ confirmed' = confirmed /\ execution' = execution
             \/ /\ confirmed' = confirmed \cup {worker[w].object}
                /\ \/ execution' = execution
                   \/ /\ execution = "running" /\ execution' = "succeeded"
                      /\ \A p \in Pending : p # worker[w].object => mapping[p] = 0
      BY <1>1, <2>15, ConfirmMoves
    <3>4. Grows
      BY <1>1, <3>1, <3>2, <3>3 DEF Grows
    <3>5. CallSaw(w)'
      BY <3>3 DEF CallSaw, Saw
    <3>6. execution' = "succeeded" => execution = "succeeded" \/ MappedConfirmed'
      BY <1>1, <3>1, <3>2, <3>3 DEF MappedConfirmed, Pending
    <3>7. \A o \in confirmed' \ confirmed : written[o] >= 1
      BY <3>2, <3>3
    <3>8. QED
      BY <2>7, <3>4, <3>5, <3>6, <3>7
  <2>16. CASE Leaving(w)
    <3>1. worker'[w].at \in {"idle", "continuing"}
      BY <1>1, <2>16, LeavingMoves
    <3>2. UNCHANGED <<confirmed, written, execution, mapping>>
      BY <2>16 DEF Leaving, ReleaseRunLease, Continue, CloseRun, CallStops, rows, world
    <3>3. QED
      BY <2>8, <3>1, <3>2 DEF CallSaw, Saw
  <2>17. CASE Reconciling(w)
    <3>1. UNCHANGED <<confirmed, written, execution, mapping>>
      BY <2>17 DEF Reconciling, Query, Reverify, LeavePartial, rows, world
    <3>2. \/ worker'[w].at \in {"idle", "rechecked"}
          \/ worker'[w].at = "closing" /\ worker'[w].answer = "noeffect"
          \/ /\ worker'[w].at = "mapping" /\ worker'[w].object = worker[w].object
             /\ worker[w].at = "querying" /\ worker'[w].answer = worker[w].answer
      BY <1>1, <2>17, ReconcilingMoves
    <3>3. CallSaw(w)'
      BY <2>2, <3>1, <3>2 DEF CallSaw, Saw
    <3>4. QED
      BY <2>8, <3>1, <3>3
  <2>18. QED
    BY <1>4, <2>9, <2>10, <2>11, <2>12, <2>13, <2>14, <2>15, <2>16, <2>17, WorkerCases
       DEF Moving, Submitting, Verifying
<1>5. CASE UNCHANGED vars
  BY <1>5 DEF vars, rows, evidence, world, WrittenInv, CallSaw, MappedConfirmed
<1>6. QED
  BY <1>3, <1>4, <1>5 DEF BrowserNext, Others
-----------------------------------------------------------------------------
(* One submit at a time. *)

(* Past the transition to submitting, with the result not stored yet. *)
Clicking(k) == k.at \in {"clicking", "answered", "verifying", "storing"}
Reached(k)  == IF k.at = "storing" THEN "verifying" ELSE "submitting"

(* Whoever is authorized and knows the version of the run has the execution, and
   so does who clicks, whose run nobody else can move but an operator. *)
SubmitInv ==
    /\ \A w \in Workers : worker[w].at = "authorized" /\ worker[w].fresh =>
          run[worker[w].run] = "awaiting_confirmation" /\ bound = worker[w].run
    /\ ~interrupted => \A w \in Workers : Clicking(worker[w]) =>
          /\ run[worker[w].run] = Reached(worker[w]) /\ bound = worker[w].run
          /\ \A v \in Workers \ {w} : /\ ~Clicking(worker[v])
                                      /\ worker[v].run = worker[w].run /\ worker[v].fresh
                                            => worker[v].at = "requested"

(* The steps that are not of a worker leave the run of a submit alone. *)
LEMMA OthersChangeRuns ==
    ASSUME TypeInv, Others
    PROVE  /\ interrupted => interrupted'
           /\ \/ run' = run
              \/ \E r \in BrowserRuns :
                    /\ \A q \in BrowserRuns : q # r => run'[q] = run[q]
                    /\ \/ run[r] \in {"absent", "queued"}
                       \/ /\ \A v \in Workers : worker'[v].fresh => worker[v].run # r
                          /\ run[r] \in {"submitting", "verifying"} => interrupted'
           /\ bound' = bound \/ bound = 0 \/ (bound \in BrowserRuns /\ run[bound] = "failed")
<1>1. /\ CallInv /\ run \in [BrowserRuns -> RunState] /\ interrupted \in BOOLEAN /\ bound \in 0..RunCount
      /\ (execution = "pending") <=> (bound = 0)
  BY DEF TypeInv, RunType, RowType
<1>2. ASSUME NEW r \in BrowserRuns, ControlRun(r)
      PROVE  /\ interrupted => interrupted'
             /\ \A q \in BrowserRuns : q # r => run'[q] = run[q]
             /\ run[r] \in {"submitting", "verifying"} => interrupted'
             /\ bound' = bound /\ worker' = Bumped(r)
  BY <1>1, <1>2 DEF ControlRun, rows
<1>3. ASSUME NEW r \in BrowserRuns, ControlRun(r) PROVE \A v \in Workers : worker'[v].fresh => worker[v].run # r
  BY <1>1, <1>2, <1>3, BumpedKeeps
<1>4. ASSUME NEW r \in BrowserRuns, CreateRun(r) \/ CheckEnvironment(r)
      PROVE  /\ interrupted' = interrupted /\ bound' = bound /\ run[r] \in {"absent", "queued"}
             /\ \A q \in BrowserRuns : q # r => run'[q] = run[q]
  BY <1>1, <1>4 DEF CreateRun, CheckEnvironment, rows, world
<1>5. ASSUME NEW r \in BrowserRuns, AttachRun(r)
      PROVE  interrupted' = interrupted /\ run' = run /\ bound = 0
  BY <1>1, <1>5 DEF AttachRun, world
<1>6. ASSUME ResetExecution
      PROVE  interrupted' = interrupted /\ run' = run /\ bound \in BrowserRuns /\ run[bound] = "failed"
  BY <1>1, <1>6 DEF ResetExecution, SafeToReset, world, BrowserRuns
<1>7. ASSUME \/ InvalidateExecution \/ \E o \in Objects : BindMapping(o)
             \/ \E r \in BrowserRuns : \/ AcquireLease(r) \/ LeaseRunsOut(r) \/ ReleaseLease(r)
                                     \/ \E c \in Tokens : IssueConfirmation(r, c)
      PROVE  interrupted' = interrupted /\ run' = run /\ bound' = bound
  BY <1>7 DEF InvalidateExecution, BindMapping, AcquireLease, LeaseRunsOut, ReleaseLease, IssueConfirmation, rows, world
<1>8. PICK r \in BrowserRuns : TRUE
  BY BrowserAssumption DEF BrowserRuns
<1>9. CASE \E q \in BrowserRuns : ControlRun(q)
  BY <1>2, <1>3, <1>9
<1>10. CASE \E q \in BrowserRuns : CreateRun(q) \/ CheckEnvironment(q)
  BY <1>4, <1>10
<1>11. QED
  BY <1>5, <1>6, <1>7, <1>9, <1>10 DEF Others

LEMMA OthersKeepSubmit == TypeInv /\ SubmitInv /\ Others => SubmitInv'
<1> SUFFICES ASSUME TypeInv, SubmitInv, Others PROVE SubmitInv'
  OBVIOUS
<1>1. CallInv /\ OthersKeep({}) /\ \A w \in Workers : CallOk(worker[w])
  BY OthersMoveNoCall DEF TypeInv, CallInv
<1>2. \A v \in Workers : Same(worker'[v], worker[v]) /\ (worker'[v].fresh => worker[v].fresh)
  BY <1>1 DEF OthersKeep
<1>3. ASSUME NEW w \in Workers, worker'[w].at = "authorized", worker'[w].fresh
      PROVE  run'[worker'[w].run] = "awaiting_confirmation" /\ bound' = worker'[w].run
  <2>1. /\ worker[w].at = "authorized" /\ worker[w].fresh /\ worker'[w].run = worker[w].run
        /\ worker[w].run \in BrowserRuns
    BY <1>1, <1>2, <1>3 DEF Same, CallOk
  <2>2. run[worker[w].run] = "awaiting_confirmation" /\ bound = worker[w].run
    BY <2>1 DEF SubmitInv
  <2>3. bound # 0
    BY <2>1, <2>2 DEF BrowserRuns
  <2>4. QED
    BY <1>3, <2>1, <2>2, <2>3, OthersChangeRuns
<1>4. ASSUME ~interrupted', NEW w \in Workers, Clicking(worker'[w])
      PROVE  /\ run'[worker'[w].run] = Reached(worker'[w]) /\ bound' = worker'[w].run
             /\ \A v \in Workers \ {w} : /\ ~Clicking(worker'[v])
                                         /\ worker'[v].run = worker'[w].run /\ worker'[v].fresh
                                               => worker'[v].at = "requested"
  <2>1. /\ Clicking(worker[w]) /\ worker'[w].run = worker[w].run /\ worker[w].run \in BrowserRuns
    BY <1>1, <1>2, <1>4 DEF Same, CallOk, Clicking
  <2>2. ~interrupted
    BY <1>4, OthersChangeRuns
  <2>3. /\ run[worker[w].run] = Reached(worker[w]) /\ bound = worker[w].run
        /\ \A v \in Workers \ {w} : /\ ~Clicking(worker[v])
                                    /\ worker[v].run = worker[w].run /\ worker[v].fresh
                                          => worker[v].at = "requested"
    BY <2>1, <2>2 DEF SubmitInv
  <2>4. bound # 0
    BY <2>1, <2>3 DEF BrowserRuns
  <2>5. run'[worker[w].run] = run[worker[w].run] /\ bound' = bound
    BY <1>4, <2>1, <2>3, <2>4, OthersChangeRuns DEF Reached
  <2>6. QED
    BY <1>2, <2>1, <2>3, <2>5 DEF Same, Clicking, Reached
<1>5. QED
  BY <1>3, <1>4 DEF SubmitInv

(* A call keeps its run, and knows the version it knew; one that reconciles reads
   it again. *)
LEMMA MovingKeepsRun ==
    ASSUME CallInv, NEW w \in Workers, Moving(w), ~Reconciling(w), worker'[w].at # "idle"
    PROVE  worker'[w].run = worker[w].run /\ worker'[w].fresh = worker[w].fresh
<1> DEFINE Ok(k) == k.at # "idle" => k.run = worker[w].run /\ k.fresh = worker[w].fresh
<1>1. ASSUME NEW k, Ok(k), \/ worker' = [worker EXCEPT ![w] = k]
                           \/ \E r : worker' = [Bumped(r) EXCEPT ![w] = k]
      PROVE  worker'[w].run = worker[w].run /\ worker'[w].fresh = worker[w].fresh
  <2>1. worker'[w] = k
    BY <1>1, BumpedKeeps DEF CallInv
  <2>2. QED
    BY <1>1, <2>1
<1>2. PICK m \in Call : m = worker[w]
  BY DEF CallInv
<1>3. Ok(Free) /\ (\A l : Ok(To(w, l))) /\ (\A l, a : Ok(Ending(w, l, a)))
      /\ \A a, o : Ok([To(w, "answered") EXCEPT !.answer = a, !.object = o])
  <2>1. ASSUME NEW l PROVE To(w, l).run = m.run /\ To(w, l).fresh = m.fresh
    <3>1. To(w, l) = [m EXCEPT !.at = l]
      BY <1>2 DEF To
    <3>2. QED
      BY <3>1 DEF Call
  <2>2. ASSUME NEW l, NEW a PROVE Ending(w, l, a).run = m.run /\ Ending(w, l, a).fresh = m.fresh
    <3>1. Ending(w, l, a) = [m EXCEPT !.at = l, !.answer = a, !.token = 0, !.object = 0]
      BY <1>2 DEF Ending
    <3>2. QED
      BY <3>1 DEF Call
  <2>3. ASSUME NEW a, NEW o, NEW k, k = [To(w, "answered") EXCEPT !.answer = a, !.object = o]
        PROVE  k.run = m.run /\ k.fresh = m.fresh
    <3>1. k = [[m EXCEPT !.at = "answered"] EXCEPT !.answer = a, !.object = o]
      BY <1>2, <2>3 DEF To
    <3>2. QED
      BY <3>1 DEF Call
  <2>4. Ok(Free)
    BY FreeIsIdle
  <2>5. ASSUME NEW a, NEW o PROVE Ok([To(w, "answered") EXCEPT !.answer = a, !.object = o])
    <3> DEFINE k == [To(w, "answered") EXCEPT !.answer = a, !.object = o]
    <3>1. k.run = m.run /\ k.fresh = m.fresh
      BY <2>3
    <3>2. Ok(k)
      BY <1>2, <3>1
    <3>3. QED
      BY <3>2
  <2>6. ASSUME NEW l PROVE Ok(To(w, l))
    BY <1>2, <2>1
  <2>7. ASSUME NEW l, NEW a PROVE Ok(Ending(w, l, a))
    BY <1>2, <2>2
  <2> HIDE DEF Ok
  <2>8. QED
    BY <2>4, <2>5, <2>6, <2>7
<1> HIDE DEF Ok
<1>4. ASSUME NEW s, NEW k, Ok(k), TransitionRun(w, s, k)
       PROVE  worker'[w].run = worker[w].run /\ worker'[w].fresh = worker[w].fresh
  <2>1. worker' = [worker EXCEPT ![w] = Free] \/ worker' = [Bumped(R(w)) EXCEPT ![w] = k]
    BY <1>4 DEF TransitionRun
  <2>2. QED
    BY <1>1, <1>3, <1>4, <2>1
<1>5. CASE Prepared(w)
  BY <1>4, <1>3, <1>5 DEF Prepared
<1>6. CASE PrepareFails(w)
  BY <1>1, <1>3, <1>6 DEF PrepareFails
<1>7. CASE AuthorizeAction(w)
  <2>1. worker' = [worker EXCEPT ![w] = To(w, "authorized")] \/ worker' = [worker EXCEPT ![w] = Free]
    BY <1>7 DEF AuthorizeAction
  <2>2. QED
    BY <1>1, <1>3, <2>1
<1>8. CASE BeginSubmit(w)
  BY <1>4, <1>3, <1>8 DEF BeginSubmit
<1>9. CASE ClickFinal(w)
  <2>1. \E a, o : worker' = [worker EXCEPT ![w] = [To(w, "answered") EXCEPT !.answer = a, !.object = o]]
    BY <1>9 DEF ClickFinal
  <2>2. QED
    BY <1>1, <1>3, <2>1
<1>10. CASE CompleteAction(w)
  <2>1. \/ worker' = [worker EXCEPT ![w] = Ending(w, "closing", worker[w].answer)]
        \/ worker' = [worker EXCEPT ![w] = To(w, "verifying")]
    BY <1>10 DEF CompleteAction
  <2>2. QED
    BY <1>1, <1>3, <2>1
<1>11. CASE BeginVerify(w)
  BY <1>4, <1>3, <1>11 DEF BeginVerify
<1>12. CASE StoreResult(w)
  <2>1. \/ worker' = [worker EXCEPT ![w] = Ending(w, "closing", "noeffect")]
        \/ worker' = [worker EXCEPT ![w] = To(w, "mapping")]
    BY <1>12 DEF StoreResult
  <2>2. QED
    BY <1>1, <1>3, <2>1
<1>13. CASE ConfirmMapping(w)
  <2>1. \/ worker' = [worker EXCEPT ![w] = Free]
        \/ \E l, a : worker' = [worker EXCEPT ![w] = Ending(w, l, a)]
    BY <1>13 DEF ConfirmMapping
  <2>2. QED
    BY <1>1, <1>3, <2>1
<1>14. CASE ReleaseRunLease(w)
  <2>1. \/ worker' = [worker EXCEPT ![w] = Free]
        \/ worker' = [Bumped(R(w)) EXCEPT ![w] = To(w, "continuing")]
    BY <1>14 DEF ReleaseRunLease
  <2>2. QED
    BY <1>1, <1>3, <2>1
<1>15. CASE Continue(w) \/ CloseRun(w)
  BY <1>4, <1>3, <1>15 DEF Continue, CloseRun
<1>16. CASE CallStops(w)
  BY <1>1, <1>3, <1>16 DEF CallStops
<1>17. QED
  BY <1>5, <1>6, <1>7, <1>8, <1>9, <1>10, <1>11, <1>12, <1>13, <1>14, <1>15, <1>16
     DEF Moving, Preparing, Submitting, Verifying, Leaving

(* Where a call that is authorized, or clicks, comes from. *)
LEMMA WhoClicks ==
    ASSUME TypeInv, NEW w \in Workers, WorkerStep(w)
    PROVE  /\ worker'[w].at = "authorized" =>
                 /\ AuthorizeAction(w) /\ worker[w].at = "requested" /\ MayAct(worker[w].run, worker[w].token)
                 /\ worker'[w].run = worker[w].run /\ worker'[w].token = worker[w].token
           /\ worker'[w].at = "clicking" =>
                 /\ worker[w].at = "authorized" /\ worker[w].fresh /\ Overtaken({w}, worker[w].run)
                 /\ run' = [run EXCEPT ![worker[w].run] = "submitting"]
                 /\ worker'[w].run = worker[w].run /\ worker'[w].token = worker[w].token
           /\ worker'[w].at = "answered" =>
                 /\ ClickFinal(w) /\ worker[w].at = "clicking"
                 /\ worker'[w].run = worker[w].run /\ worker'[w].token = worker[w].token
           /\ worker'[w].at = "verifying" =>
                 /\ CompleteAction(w) /\ worker[w].at = "answered"
                 /\ worker'[w].run = worker[w].run /\ worker'[w].token = worker[w].token
                 /\ worker'[w].answer = worker[w].answer
           /\ worker'[w].at = "storing" =>
                 /\ worker[w].at = "verifying" /\ worker[w].fresh /\ Overtaken({w}, worker[w].run)
                 /\ run' = [run EXCEPT ![worker[w].run] = "verifying"]
                 /\ worker'[w].run = worker[w].run /\ worker'[w].token = worker[w].token
                 /\ worker'[w].answer = worker[w].answer
<1> DEFINE Past == {"authorized", "clicking", "answered", "verifying", "storing"}
<1>1. RowType /\ CallInv
  BY DEF TypeInv
<1>2. ASSUME worker'[w].at \notin Past
      PROVE  \A l \in Past : worker'[w].at # l
  BY <1>2
<1>3. ASSUME NEW r \in BrowserRuns, NEW c \in Tokens, ReadForSubmit(w, r, c) PROVE worker'[w].at \notin Past
  BY <1>1, <1>3, SubmitReads
<1>4. ASSUME NEW r \in BrowserRuns, BeginPrepare(w, r) \/ ReadForReconcile(w, r) PROVE worker'[w].at \notin Past
  BY <1>1, <1>4, PrepareReads, ReconcileReads
<1>5. ASSUME Preparing(w) \/ Leaving(w) \/ Reconciling(w) PROVE worker'[w].at \notin Past
  BY <1>1, <1>5, PreparingKeeps, LeavingMoves, ReconcilingMoves
<1>6. ASSUME StoreResult(w) \/ ConfirmMapping(w) PROVE worker'[w].at \notin Past
  BY <1>1, <1>6, StoreMoves, ConfirmMoves
<1>7. CASE AuthorizeAction(w)
  BY <1>1, <1>7, AuthorizeMoves, FreeIsIdle
<1>8. CASE BeginSubmit(w)
  BY <1>1, <1>8, BeginSubmitMoves, FreeIsIdle
<1>9. CASE ClickFinal(w)
  BY <1>1, <1>9, ClickMoves
<1>10. CASE CompleteAction(w)
  <2>1. worker'[w].at \in {"verifying", "closing"} /\ worker[w].at = "answered"
    BY <1>1, <1>10, CompleteMoves
  <2>2. ~Reconciling(w)
    BY <1>1, <2>1, ReconcilingMoves
  <2>3. worker'[w].run = worker[w].run
    BY <1>1, <1>10, <2>1, <2>2, MovingKeepsRun DEF Moving, Submitting
  <2>4. QED
    BY <1>1, <1>10, <2>1, <2>3, CompleteMoves
<1>11. CASE BeginVerify(w)
  <2>1. worker[w].at = "verifying"
    BY <1>1, <1>11, BeginVerifyMoves
  <2>2. ~Reconciling(w)
    BY <1>1, <2>1, ReconcilingMoves
  <2>3. worker'[w].at # "idle" => worker'[w].run = worker[w].run
    BY <1>1, <1>11, <2>2, MovingKeepsRun DEF Moving, Verifying
  <2>4. QED
    BY <1>1, <1>11, <2>3, BeginVerifyMoves, FreeIsIdle
<1>12. QED
  BY <1>3, <1>4, <1>5, <1>6, <1>7, <1>8, <1>9, <1>10, <1>11, WorkerCases DEF Moving, Submitting, Verifying

LEMMA WorkersKeepSubmit ==
    ASSUME TypeInv, SubmitInv, NEW w \in Workers, WorkerStep(w)
    PROVE  SubmitInv'
<1>1. /\ RowType /\ CallInv /\ OthersKeep({w}) /\ run \in [BrowserRuns -> RunState]
      /\ \A v \in Workers : CallOk(worker[v])
  BY WorkerCalls DEF TypeInv, RunType, CallInv
<1>2. \A v \in Workers \ {w} : Same(worker'[v], worker[v]) /\ (worker'[v].fresh => worker[v].fresh)
  BY <1>1 DEF OthersKeep
<1>3. bound' = bound /\ (interrupted' = interrupted)
  BY WorkerCases
     DEF Moving, Preparing, Submitting, Verifying, Leaving, Reconciling, BeginPrepare, ReadForReconcile,
         ReadForSubmit, Prepared, PrepareFails, AuthorizeAction, BeginSubmit, ClickFinal, CompleteAction,
         BeginVerify, StoreResult, ConfirmMapping, ReleaseRunLease, Continue, CloseRun, CallStops, Query,
         Reverify, LeavePartial, rows, world
<1>4. ASSUME NEW v \in Workers \ {w}, worker'[v].fresh
      PROVE  run'[worker[v].run] = run[worker[v].run] \/ worker[v].run \notin BrowserRuns
  <2>1. ASSUME NEW r \in BrowserRuns, BeginPrepare(w, r), run' = [run EXCEPT ![r] = "preparing"]
        PROVE  run'[worker[v].run] = run[worker[v].run] \/ worker[v].run \notin BrowserRuns
    <3>1. worker[v].run # r
      BY <1>1, <1>4, <2>1, PrepareReads DEF Overtaken
    <3>2. QED
      BY <1>1, <2>1, <3>1
  <2>2. ASSUME Overtaken({w}, worker[w].run), NEW s, run' = [run EXCEPT ![worker[w].run] = s]
        PROVE  run'[worker[v].run] = run[worker[v].run] \/ worker[v].run \notin BrowserRuns
    BY <1>1, <1>4, <2>2 DEF Overtaken
  <2>3. QED
    BY <1>1, <2>1, <2>2, WorkersChangeRuns
<1>5. ASSUME NEW v \in Workers, worker'[v].at = "authorized", worker'[v].fresh
      PROVE  run'[worker'[v].run] = "awaiting_confirmation" /\ bound' = worker'[v].run
  <2>1. CASE v = w
    <3>1. /\ AuthorizeAction(w) /\ MayAct(worker[w].run, worker[w].token) /\ worker'[w].run = worker[w].run
      BY <1>5, <2>1, WhoClicks
    <3>2. run' = run
      BY <3>1 DEF AuthorizeAction
    <3>3. QED
      BY <1>3, <2>1, <3>1, <3>2 DEF MayAct, Authorized
  <2>2. CASE v # w
    <3>1. /\ worker[v].at = "authorized" /\ worker[v].fresh /\ worker'[v].run = worker[v].run
          /\ worker[v].run \in BrowserRuns
      BY <1>1, <1>2, <1>5, <2>2 DEF Same, CallOk
    <3>2. run[worker[v].run] = "awaiting_confirmation" /\ bound = worker[v].run
      BY <3>1 DEF SubmitInv
    <3>3. QED
      BY <1>3, <1>4, <1>5, <2>2, <3>1, <3>2
  <2>3. QED
    BY <2>1, <2>2
<1>6. ASSUME ~interrupted', NEW v \in Workers, v # w, Clicking(worker'[v])
      PROVE  /\ run'[worker'[v].run] = Reached(worker'[v]) /\ bound' = worker'[v].run
             /\ \A u \in Workers \ {v} : /\ ~Clicking(worker'[u])
                                         /\ worker'[u].run = worker'[v].run /\ worker'[u].fresh
                                               => worker'[u].at = "requested"
  <2> DEFINE r == worker[v].run
  <2>1. Clicking(worker[v]) /\ worker'[v].run = r /\ r \in BrowserRuns
    BY <1>1, <1>2, <1>6 DEF Same, CallOk, Clicking
  <2>2. /\ run[r] = Reached(worker[v]) /\ bound = r /\ run[r] \in {"submitting", "verifying"}
        /\ \A u \in Workers \ {v} : /\ ~Clicking(worker[u])
                                    /\ worker[u].run = r /\ worker[u].fresh => worker[u].at = "requested"
    BY <1>3, <1>6, <2>1 DEF SubmitInv, Reached
  <2>3. run'[r] = run[r]
    <3>1. ASSUME NEW q \in BrowserRuns, BeginPrepare(w, q), run' = [run EXCEPT ![q] = "preparing"]
          PROVE  run'[r] = run[r]
      BY <1>1, <2>1, <2>2, <3>1 DEF BeginPrepare
    <3>2. ASSUME worker[w].fresh, worker[w].at # "requested", NEW s, run' = [run EXCEPT ![worker[w].run] = s]
          PROVE  run'[r] = run[r]
      <4>1. worker[w].run # r
        BY <1>6, <2>2, <3>2
      <4>2. QED
        BY <1>1, <2>1, <3>2, <4>1
    <3>3. QED
      BY <1>1, <2>2, <3>1, <3>2, WorkersChangeRuns
  <2>4. worker'[w].run = r /\ worker'[w].fresh => worker'[w].at = "requested"
    <3> SUFFICES ASSUME worker'[w].run = r, worker'[w].fresh PROVE worker'[w].at = "requested"
      OBVIOUS
    <3>1. worker'[w].at # "idle"
      BY <1>1, WorkerCalls DEF CallInv, CallOk
    <3>2. ASSUME NEW q \in BrowserRuns, NEW c \in Tokens, ReadForSubmit(w, q, c) PROVE worker'[w].at = "requested"
      BY <1>1, <3>2, SubmitReads
    <3>3. ASSUME NEW q \in BrowserRuns, BeginPrepare(w, q) PROVE FALSE
      <4>1. worker'[w].run = q
        BY <1>1, <3>3, PrepareReads
      <4>2. QED
        BY <2>2, <3>3, <4>1 DEF BeginPrepare
    <3>4. ASSUME NEW q \in BrowserRuns, ReadForReconcile(w, q) PROVE FALSE
      BY <1>1, <2>2, <3>4, ReconcileReads
    <3>5. CASE Reconciling(w)
      BY <1>1, <2>2, <3>1, <3>5, ReconcilingMoves
    <3>6. CASE Moving(w) /\ ~Reconciling(w)
      <4>1. worker[w].run = r /\ worker[w].fresh
        BY <1>1, <3>1, <3>6, MovingKeepsRun
      <4>2. worker[w].at = "requested"
        BY <1>6, <2>2, <4>1
      <4>3. AuthorizeAction(w)
        <5>1. ~CallStops(w)
          BY <1>1, <3>1, FreeIsIdle DEF CallStops, CallInv
        <5>2. QED
          BY <3>6, <4>2, <5>1 DEF Moving, Preparing, Submitting, Verifying, Leaving, Prepared, PrepareFails, BeginSubmit,
               ClickFinal, CompleteAction, BeginVerify, StoreResult, ConfirmMapping, ReleaseRunLease,
               Continue, CloseRun
      <4>4. MayAct(r, worker[w].token)
        BY <1>1, <3>1, <4>1, <4>3, AuthorizeMoves, FreeIsIdle
      <4>5. QED
        BY <2>2, <4>4 DEF MayAct
    <3>7. QED
      BY <3>2, <3>3, <3>4, <3>5, <3>6, WorkerCases
  <2>5. ~Clicking(worker'[w])
    <3>1. ASSUME worker'[w].at = "clicking" PROVE FALSE
      <4>1. worker[w].at = "authorized" /\ worker[w].fresh
        BY <3>1, WhoClicks
      <4>2. run[worker[w].run] = "awaiting_confirmation" /\ bound = worker[w].run
        BY <4>1 DEF SubmitInv
      <4>3. QED
        BY <2>2, <4>2
    <3>2. ASSUME worker'[w].at \in {"answered", "verifying", "storing"} PROVE FALSE
      <4>1. Clicking(worker[w])
        BY <3>2, WhoClicks DEF Clicking
      <4>2. QED
        BY <1>6, <2>2, <4>1
    <3>3. QED
      BY <3>1, <3>2 DEF Clicking
  <2>6. worker'[v].at = worker[v].at
    BY <1>2, <1>6 DEF Same
  <2>7. run'[worker'[v].run] = Reached(worker'[v]) /\ bound' = worker'[v].run
    BY <1>3, <2>1, <2>2, <2>3, <2>6 DEF Reached
  <2>8. ASSUME NEW u \in Workers \ {v}, u # w
        PROVE  /\ ~Clicking(worker'[u])
               /\ worker'[u].run = r /\ worker'[u].fresh => worker'[u].at = "requested"
    BY <1>2, <2>2, <2>8 DEF Same, Clicking
  <2>9. QED
    BY <2>1, <2>4, <2>5, <2>7, <2>8
<1>7. ASSUME ~interrupted', Clicking(worker'[w])
      PROVE  /\ run'[worker'[w].run] = Reached(worker'[w]) /\ bound' = worker'[w].run
             /\ \A u \in Workers \ {w} : /\ ~Clicking(worker'[u])
                                         /\ worker'[u].run = worker'[w].run /\ worker'[u].fresh
                                               => worker'[u].at = "requested"
  <2>1. CASE worker'[w].at = "clicking"
    <3>1. /\ worker[w].at = "authorized" /\ worker[w].fresh /\ Overtaken({w}, worker[w].run)
          /\ run' = [run EXCEPT ![worker[w].run] = "submitting"] /\ worker'[w].run = worker[w].run
      BY <2>1, WhoClicks
    <3>2. run[worker[w].run] = "awaiting_confirmation" /\ bound = worker[w].run
      BY <3>1 DEF SubmitInv
    <3>3. run'[worker[w].run] = "submitting"
      BY <1>1, <3>1 DEF CallOk
    <3>4. ASSUME NEW u \in Workers \ {w} PROVE ~Clicking(worker'[u])
      <4>1. Clicking(worker[u]) => run[worker[u].run] \in {"submitting", "verifying"} /\ bound = worker[u].run
        BY <1>3, <1>7 DEF SubmitInv, Reached
      <4>2. QED
        BY <1>2, <3>2, <4>1 DEF Same, Clicking
    <3>5. ASSUME NEW u \in Workers \ {w}, worker'[u].fresh PROVE worker'[u].run # worker[w].run
      BY <1>2, <3>1, <3>5 DEF Overtaken, Same
    <3>6. QED
      BY <1>3, <2>1, <3>1, <3>2, <3>3, <3>4, <3>5 DEF Reached
  <2>2. CASE worker'[w].at \in {"answered", "verifying"}
    <3>1. /\ ClickFinal(w) \/ CompleteAction(w)
          /\ worker[w].at \in {"clicking", "answered"} /\ worker'[w].run = worker[w].run
      BY <2>2, WhoClicks
    <3>2. run' = run
      BY <3>1 DEF ClickFinal, CompleteAction
    <3>3. /\ run[worker[w].run] = "submitting" /\ bound = worker[w].run
          /\ \A u \in Workers \ {w} : /\ ~Clicking(worker[u])
                                      /\ worker[u].run = worker[w].run /\ worker[u].fresh
                                            => worker[u].at = "requested"
      BY <1>3, <1>7, <3>1 DEF SubmitInv, Clicking, Reached
    <3>4. QED
      BY <1>2, <1>3, <2>2, <3>1, <3>2, <3>3 DEF Same, Clicking, Reached
  <2>3. CASE worker'[w].at = "storing"
    <3>1. /\ worker[w].at = "verifying" /\ worker[w].fresh /\ Overtaken({w}, worker[w].run)
          /\ run' = [run EXCEPT ![worker[w].run] = "verifying"] /\ worker'[w].run = worker[w].run
      BY <2>3, WhoClicks
    <3>2. run'[worker[w].run] = "verifying"
      BY <1>1, <3>1 DEF CallOk
    <3>3. /\ bound = worker[w].run
          /\ \A u \in Workers \ {w} : ~Clicking(worker[u])
      BY <1>3, <1>7, <3>1 DEF SubmitInv, Clicking
    <3>4. ASSUME NEW u \in Workers \ {w}, worker'[u].fresh PROVE worker'[u].run # worker[w].run
      BY <1>2, <3>1, <3>4 DEF Overtaken, Same
    <3>5. QED
      BY <1>2, <1>3, <2>3, <3>1, <3>2, <3>3, <3>4 DEF Same, Clicking, Reached
  <2>4. QED
    BY <1>7, <2>1, <2>2, <2>3 DEF Clicking
<1>8. QED
  BY <1>5, <1>6, <1>7 DEF SubmitInv
-----------------------------------------------------------------------------
(* No more is created than confirmations were consumed. *)

Creations == UNION {{o} \X (1..written[o]) : o \in Objects}
Consumed  == {c \in Tokens : token[c].is \in Attempt}
Waiting   == {"authorized", "clicking"}
Holding   == {"authorized", "clicking", "answered", "verifying", "storing"}

(* Consumed, and not by a call that has still to click. *)
Spent == {c \in Consumed : \A w \in Workers : worker[w].at \in Waiting => worker[w].token # c}

HoldInv ==
    \A w \in Workers : worker[w].at \in Holding =>
        /\ token[worker[w].token].is \in Attempt
        /\ \A v \in Workers \ {w} : worker[v].at \in Holding => worker[v].token # worker[w].token

SpentInv == IsFiniteSet(Creations) /\ Cardinality(Creations) <= Cardinality(Spent)

ConfirmedInv == HoldInv /\ SpentInv

(* A consumed confirmation stays consumed. *)
LEMMA ConsumedKeeps ==
    ASSUME TypeInv, [BrowserNext]_vars
    PROVE  \A c \in Tokens : token[c].is \in Attempt => token'[c].is \in Attempt
<1>1. TokenType /\ CallInv
  BY DEF TypeInv
<1>2. CASE Others
  <2>1. ASSUME NEW r \in BrowserRuns, NEW c \in Tokens, IssueConfirmation(r, c)
        PROVE  \A d \in Tokens : token[d].is \in Attempt => token'[d].is \in Attempt
    BY <1>1, <2>1 DEF IssueConfirmation, Attempt, TokenType, Confirmation
  <2>2. ASSUME NEW r, Void(r) PROVE \A d \in Tokens : token[d].is \in Attempt => token'[d].is \in Attempt
    BY <1>1, <2>2 DEF Void, Attempt, TokenType, Confirmation
  <2>3. QED
    BY <1>2, <2>1, <2>2 DEF Others, CreateRun, AttachRun, CheckEnvironment, ControlRun, AcquireLease,
         LeaseRunsOut, ReleaseLease, BindMapping, ResetExecution, InvalidateExecution, evidence
<1>3. ASSUME NEW w \in Workers, WorkerStep(w)
      PROVE  \A c \in Tokens : token[c].is \in Attempt => token'[c].is \in Attempt
  <2> DEFINE c == worker[w].token
  <2>1. CASE token' = [token EXCEPT ![c].is = "authorized"]
    BY <1>1, <2>1 DEF Attempt, TokenType, Confirmation
  <2>2. QED
    BY <1>1, <1>3, <2>1, WorkersChangeTokens
<1>4. CASE UNCHANGED vars
  BY <1>4 DEF vars, evidence
<1>5. QED
  BY <1>2, <1>3, <1>4 DEF BrowserNext, Others

(* Who holds a confirmation held it before, or has consumed it now. *)
LEMMA WhoHolds ==
    ASSUME TypeInv, NEW w \in Workers, WorkerStep(w), worker'[w].at \in Holding
    PROVE  /\ worker'[w].token = worker[w].token /\ worker[w].token \in Tokens
           /\ \/ worker[w].at \in Holding
              \/ /\ worker'[w].at = "authorized" /\ token[worker[w].token].is = "usable"
                 /\ token'[worker[w].token].is = "authorized"
           /\ worker'[w].at = "clicking" => worker[w].at = "authorized"
<1>1. RowType /\ CallInv /\ TokenType
  BY DEF TypeInv
<1>2. ASSUME NEW r \in BrowserRuns, NEW c \in Tokens, ReadForSubmit(w, r, c) PROVE FALSE
  BY <1>1, <1>2, SubmitReads DEF Holding
<1>3. ASSUME NEW r \in BrowserRuns, BeginPrepare(w, r) \/ ReadForReconcile(w, r) PROVE FALSE
  BY <1>1, <1>3, PrepareReads, ReconcileReads DEF Holding
<1>4. ASSUME Preparing(w) \/ Leaving(w) \/ Reconciling(w) \/ StoreResult(w) \/ ConfirmMapping(w) PROVE FALSE
  BY <1>1, <1>4, PreparingKeeps, LeavingMoves, ReconcilingMoves, StoreMoves, ConfirmMoves DEF Holding
<1>5. worker[w].at \in Holding => worker[w].token \in Tokens
  BY <1>1 DEF CallInv, CallOk, Running, Holding
<1>6. CASE AuthorizeAction(w)
  <2>1. worker'[w].at = "authorized" /\ MayAct(worker[w].run, worker[w].token)
        /\ worker'[w].token = worker[w].token
    BY <1>1, <1>6, AuthorizeMoves, FreeIsIdle DEF Holding
  <2>2. worker[w].at = "requested" /\ worker[w].token \in Tokens
    BY <1>1, <1>6 DEF AuthorizeAction, CallInv, CallOk, Running
  <2>3. token[worker[w].token].is = "usable" /\ token' = [token EXCEPT ![worker[w].token].is = "authorized"]
    BY <1>6, <2>1 DEF AuthorizeAction, MayAct, R
  <2>4. token'[worker[w].token].is = "authorized"
    BY <1>1, <2>2, <2>3 DEF TokenType, Confirmation
  <2>5. QED
    BY <2>1, <2>2, <2>3, <2>4
<1>7. CASE BeginSubmit(w)
  BY <1>1, <1>5, <1>7, BeginSubmitMoves, FreeIsIdle DEF Holding
<1>8. CASE ClickFinal(w)
  BY <1>1, <1>5, <1>8, ClickMoves DEF Holding
<1>9. CASE CompleteAction(w)
  BY <1>1, <1>5, <1>9, CompleteMoves DEF Holding
<1>10. CASE BeginVerify(w)
  BY <1>1, <1>5, <1>10, BeginVerifyMoves, FreeIsIdle DEF Holding
<1>11. QED
  BY <1>2, <1>3, <1>4, <1>6, <1>7, <1>8, <1>9, <1>10, WorkerCases DEF Moving, Submitting, Verifying

LEMMA HoldKeeps == TypeInv /\ HoldInv /\ [BrowserNext]_vars => HoldInv'
<1> SUFFICES ASSUME TypeInv, HoldInv, [BrowserNext]_vars PROVE HoldInv'
  OBVIOUS
<1>1. RowType /\ CallInv /\ \A v \in Workers : worker[v].at \in Holding => worker[v].token \in Tokens
  BY DEF TypeInv, CallInv, CallOk, Running, Holding
<1>2. CASE Others
  <2>1. \A v \in Workers : Same(worker'[v], worker[v])
    BY <1>1, <1>2, OthersMoveNoCall DEF OthersKeep
  <2>2. QED
    BY <1>1, <2>1, ConsumedKeeps DEF HoldInv, Same
<1>3. ASSUME NEW w \in Workers, WorkerStep(w) PROVE HoldInv'
  <2>1. \A v \in Workers \ {w} : worker'[v].at = worker[v].at /\ worker'[v].token = worker[v].token
    BY <1>1, <1>3, WorkerCalls DEF OthersKeep, Same
  <2>2. ASSUME worker'[w].at \in Holding
        PROVE  /\ worker'[w].token = worker[w].token
               /\ token'[worker[w].token].is \in Attempt
               /\ \A v \in Workers \ {w} : worker[v].at \in Holding => worker[v].token # worker[w].token
    <3>1. CASE worker[w].at \in Holding
      BY <1>3, <2>2, <3>1, WhoHolds, ConsumedKeeps DEF HoldInv
    <3>2. CASE worker[w].at \notin Holding
      <4>1. /\ worker'[w].token = worker[w].token /\ token[worker[w].token].is = "usable"
            /\ token'[worker[w].token].is = "authorized"
        BY <1>3, <2>2, <3>2, WhoHolds
      <4>2. "usable" \notin Attempt /\ "authorized" \in Attempt
        BY DEF Attempt
      <4>3. QED
        BY <4>1, <4>2 DEF HoldInv
    <3>3. QED
      BY <3>1, <3>2
  <2>3. ASSUME NEW v \in Workers, worker'[v].at \in Holding
        PROVE  /\ token'[worker'[v].token].is \in Attempt
               /\ \A u \in Workers \ {v} : worker'[u].at \in Holding => worker'[u].token # worker'[v].token
    <3>1. CASE v = w
      BY <2>1, <2>2, <2>3, <3>1
    <3>2. CASE v # w
      <4>1. worker[v].at \in Holding /\ worker'[v].token = worker[v].token /\ worker[v].token \in Tokens
        BY <1>1, <2>1, <2>3, <3>2
      <4>2. token'[worker[v].token].is \in Attempt
        BY <4>1, ConsumedKeeps DEF HoldInv
      <4>3. ASSUME NEW u \in Workers \ {v}, worker'[u].at \in Holding PROVE worker'[u].token # worker[v].token
        <5>1. CASE u = w
          BY <2>2, <3>2, <4>1, <4>3, <5>1
        <5>2. CASE u # w
          BY <2>1, <4>1, <4>3, <5>2 DEF HoldInv
        <5>3. QED
          BY <5>1, <5>2
      <4>4. QED
        BY <4>1, <4>2, <4>3
    <3>3. QED
      BY <3>1, <3>2
  <2>4. QED
    BY <2>3 DEF HoldInv
<1>4. CASE UNCHANGED vars
  BY <1>4 DEF vars, evidence, HoldInv
<1>5. QED
  BY <1>2, <1>3, <1>4 DEF BrowserNext, Others

LEMMA SpentIsFinite == IsFiniteSet(Spent) /\ IsFiniteSet(Spent') /\ IsFiniteSet(Consumed)
<1>1. IsFiniteSet(Tokens)
  BY FS_Interval, BrowserAssumption DEF Tokens
<1>2. Spent \subseteq Tokens /\ Spent' \subseteq Tokens /\ Consumed \subseteq Tokens
  BY DEF Spent, Consumed
<1>3. QED
  BY <1>1, <1>2, FS_Subset

LEMMA SpentKeeps == TypeInv /\ ConfirmedInv /\ [BrowserNext]_vars => SpentInv'
<1> SUFFICES ASSUME TypeInv, ConfirmedInv, [BrowserNext]_vars PROVE SpentInv'
  OBVIOUS
<1>1. RowType /\ CallInv /\ TokenType /\ IsFiniteSet(Creations) /\ Cardinality(Creations) <= Cardinality(Spent)
  BY DEF TypeInv, ConfirmedInv, SpentInv
<1>2. \A S : IsFiniteSet(S) => Cardinality(S) \in Nat
  BY FS_CardinalityType
<1>3. Consumed \subseteq Consumed'
  BY ConsumedKeeps DEF Consumed
<1>4. ASSUME written' = written, \A v \in Workers : worker'[v].at \in Waiting =>
                 \/ worker[v].at \in Waiting /\ worker'[v].token = worker[v].token
                 \/ worker'[v].token \notin Consumed
      PROVE  SpentInv'
  <2>1. Creations' = Creations
    BY <1>4 DEF Creations
  <2>2. Spent \subseteq Spent'
    BY <1>3, <1>4 DEF Spent
  <2>3. Cardinality(Spent) <= Cardinality(Spent')
    BY <2>2, SpentIsFinite, FS_Subset
  <2>4. QED
    BY <1>1, <1>2, <2>1, <2>3, SpentIsFinite DEF SpentInv
<1>5. CASE Others
  <2>1. \A v \in Workers : Same(worker'[v], worker[v])
    BY <1>1, <1>5, OthersMoveNoCall DEF OthersKeep
  <2>2. written' = written
    BY <1>5 DEF Others, CreateRun, AttachRun, CheckEnvironment, ControlRun, AcquireLease, LeaseRunsOut,
           ReleaseLease, IssueConfirmation, BindMapping, ResetExecution, InvalidateExecution, world
  <2>3. QED
    BY <1>4, <2>1, <2>2 DEF Same
<1>6. ASSUME NEW w \in Workers, WorkerStep(w) PROVE SpentInv'
  <2>1. \A v \in Workers \ {w} : worker'[v].at = worker[v].at /\ worker'[v].token = worker[v].token
    BY <1>1, <1>6, WorkerCalls DEF OthersKeep, Same
  <2>2. worker'[w].at \in Waiting => \/ worker[w].at \in Waiting /\ worker'[w].token = worker[w].token
                                     \/ worker'[w].token \notin Consumed
    <3> SUFFICES ASSUME worker'[w].at \in Waiting
                 PROVE  \/ worker[w].at \in Waiting /\ worker'[w].token = worker[w].token
                        \/ worker'[w].token \notin Consumed
      OBVIOUS
    <3>1. CASE worker'[w].at = "clicking"
      BY <1>6, <3>1, WhoHolds DEF Holding, Waiting
    <3>2. CASE worker'[w].at = "authorized"
      <4>1. MayAct(worker[w].run, worker[w].token) /\ worker'[w].token = worker[w].token
        BY <1>6, <3>2, WhoClicks
      <4>2. QED
        BY <4>1 DEF MayAct, Consumed, Attempt
    <3>3. QED
      BY <3>1, <3>2 DEF Waiting
  <2>3. CASE written' = written
    BY <1>4, <2>1, <2>2, <2>3
  <2>4. CASE written' # written
    <3>1. ClickFinal(w)
      BY <1>6, <2>4, WorkerCases
         DEF Moving, Preparing, Submitting, Verifying, Leaving, Reconciling, BeginPrepare, ReadForReconcile,
             ReadForSubmit, Prepared, PrepareFails, AuthorizeAction, BeginSubmit, CompleteAction,
             BeginVerify, StoreResult, ConfirmMapping, ReleaseRunLease, Continue, CloseRun, CallStops, Query,
             Reverify, LeavePartial, world
    <3> DEFINE o == FirstOf(Pending)
               c == worker[w].token
    <3>2. /\ worker[w].at = "clicking" /\ worker'[w].at = "answered" /\ o \in Objects
          /\ written' = [written EXCEPT ![o] = @ + 1]
      BY <1>1, <2>4, <3>1, ClickMoves
    <3>3. token' = token
      BY <3>1 DEF ClickFinal, evidence
    <3>4. c \in Consumed /\ c \notin Spent
      <4>1. c \in Tokens /\ token[c].is \in Attempt
        BY <1>1, <3>2 DEF CallInv, CallOk, Running, ConfirmedInv, HoldInv, Holding
      <4>2. QED
        BY <3>2, <4>1 DEF Consumed, Spent, Waiting
    <3>5. ASSUME NEW v \in Workers, worker'[v].at \in Waiting
          PROVE  worker[v].at \in Waiting /\ worker'[v].token = worker[v].token /\ worker[v].token # c
      <4>1. v # w
        BY <3>2, <3>5 DEF Waiting
      <4>2. worker[v].at \in Waiting /\ worker'[v].token = worker[v].token
        BY <2>1, <3>5, <4>1
      <4>3. QED
        BY <3>2, <4>1, <4>2 DEF ConfirmedInv, HoldInv, Holding, Waiting
    <3>6. Spent \cup {c} \subseteq Spent'
      <4>1. Consumed' = Consumed
        BY <3>3 DEF Consumed
      <4>2. QED
        BY <3>4, <3>5, <4>1 DEF Spent
    <3>7. Cardinality(Spent) + 1 <= Cardinality(Spent')
      <4>1. IsFiniteSet(Spent \cup {c}) /\ Cardinality(Spent \cup {c}) = Cardinality(Spent) + 1
        BY <3>4, SpentIsFinite, FS_AddElement
      <4>2. Cardinality(Spent \cup {c}) <= Cardinality(Spent')
        BY <3>6, SpentIsFinite, FS_Subset
      <4>3. QED
        BY <4>1, <4>2
    <3>8. Creations' \subseteq Creations \cup {<<o, written[o] + 1>>}
      <4>1. written \in [Objects -> Nat]
        BY <1>1 DEF RowType
      <4>2. ASSUME NEW p \in Objects, NEW i \in 1..written'[p]
            PROVE  <<p, i>> \in Creations \cup {<<o, written[o] + 1>>}
        <5>1. p # o => i \in 1..written[p]
          BY <3>2, <4>1, <4>2
        <5>2. p = o => i \in 1..written[o] \/ i = written[o] + 1
          BY <3>2, <4>1, <4>2
        <5>3. i \in 1..written[p] => <<p, i>> \in Creations
          BY DEF Creations
        <5>4. QED
          BY <5>1, <5>2, <5>3
      <4>3. QED
        BY <4>2 DEF Creations
    <3>9. IsFiniteSet(Creations') /\ Cardinality(Creations') <= Cardinality(Creations) + 1
      <4> DEFINE n == <<o, written[o] + 1>>
      <4>1. /\ IsFiniteSet(Creations \cup {n})
            /\ Cardinality(Creations \cup {n}) <= Cardinality(Creations) + 1
        BY <1>1, <1>2, FS_AddElement
      <4>2. IsFiniteSet(Creations') /\ Cardinality(Creations') <= Cardinality(Creations \cup {n})
        BY <3>8, <4>1, FS_Subset
      <4> HIDE DEF n
      <4>3. QED
        BY <1>1, <1>2, <4>1, <4>2
    <3>10. QED
      BY <1>1, <1>2, <3>7, <3>9, SpentIsFinite DEF SpentInv
  <2>5. QED
    BY <2>3, <2>4
<1>7. CASE UNCHANGED vars
  BY <1>4, <1>7 DEF vars, world
<1>8. QED
  BY <1>5, <1>6, <1>7 DEF BrowserNext, Others
-----------------------------------------------------------------------------
(* What a call knows of its run. *)

(* What a call takes the state of its run to be, when it knows its version. *)

Expected(k) ==
    CASE k.at = "preparing" -> {"preparing"}
      [] k.at = "authorized" -> {"awaiting_confirmation"}
      [] k.at \in {"clicking", "answered", "verifying"} -> {"submitting"}
      [] k.at \in {"storing", "releasing"} -> {"verifying"}
      [] k.at = "mapping" -> IF k.token = 0 THEN {"result_unknown"} ELSE {"verifying"}
      [] k.at = "continuing" -> {"verifying", "result_unknown"}
      [] k.at = "closing" -> IF k.answer \in {"lost", "unknown"} THEN {"submitting"}
                             ELSE IF k.answer = "error" THEN {"preparing", "submitting", "verifying"}
                             ELSE IF k.answer = "drift" THEN {"verifying"} ELSE {"verifying", "result_unknown"}
      [] k.at = "rechecked" -> {"partial"}
      [] OTHER -> RunState \ {"absent"}

PhaseInv == \A w \in Workers : worker[w].fresh => run[worker[w].run] \in Expected(worker[w])

(* A run that is paused or taken over is not over, and who reads it then does
   not get past the authorization. *)
HeldInv ==
    \A r \in BrowserRuns : held[r] # "no" =>
        /\ run[r] \notin Terminal
        /\ \A w \in Workers : worker[w].fresh /\ worker[w].run = r => worker[w].at = "requested"

(* Where the other calls come from. *)
LEMMA MovesOn ==
    ASSUME TypeInv, NEW w \in Workers, Moving(w), worker[w].at \notin {"querying", "reverifying", "rechecked"},
           worker'[w].at # "idle"
    PROVE  worker'[w].run = worker[w].run /\ worker'[w].fresh = worker[w].fresh
<1>1. CallInv /\ ~Reconciling(w)
  BY ReconcilingMoves DEF TypeInv
<1>2. QED
  BY <1>1, MovingKeepsRun

Kept(w) == worker'[w].run = worker[w].run /\ worker'[w].fresh = worker[w].fresh

LEMMA Arrivals ==
    ASSUME TypeInv, NEW w \in Workers, WorkerStep(w)
    PROVE  /\ worker'[w].at = "preparing" =>
                 worker'[w].run \in BrowserRuns /\ BeginPrepare(w, worker'[w].run)
           /\ worker'[w].at = "requested" =>
                 /\ worker'[w].run \in BrowserRuns /\ worker'[w].token \in Tokens
                 /\ ReadForSubmit(w, worker'[w].run, worker'[w].token)
           /\ worker'[w].at = "reverifying" =>
                 /\ worker'[w].run \in BrowserRuns /\ ReadForReconcile(w, worker'[w].run)
                 /\ run[worker'[w].run] = "partial"
           /\ worker'[w].at = "querying" =>
                 /\ worker'[w].run \in BrowserRuns /\ ReadForReconcile(w, worker'[w].run)
                 /\ run[worker'[w].run] = "result_unknown" /\ Pending # {} /\ FirstOf(Pending) \in Objects
                 /\ (worker'[w].answer = "noeffect") <=> (written[FirstOf(Pending)] = 0)
           /\ worker'[w].at \in {"authorized", "clicking", "answered", "verifying", "storing"} => Kept(w)
           /\ worker'[w].at = "mapping" =>
                 /\ worker'[w].run = worker[w].run /\ worker'[w].answer = worker[w].answer
                 /\ worker'[w].token = worker[w].token
                 /\ \/ StoreResult(w) /\ worker[w].at = "storing" /\ Kept(w) /\ worker[w].answer # "noeffect"
                    \/ Query(w) /\ worker[w].at = "querying" /\ run[worker[w].run] = "result_unknown"
           /\ worker'[w].at = "releasing" =>
                 ConfirmMapping(w) /\ worker[w].at = "mapping" /\ Kept(w) /\ worker[w].token # 0
           /\ worker'[w].at = "continuing" =>
                 /\ Kept(w)
                 /\ \/ ConfirmMapping(w) /\ worker[w].at = "mapping"
                    \/ ReleaseRunLease(w) /\ worker[w].at = "releasing"
           /\ worker'[w].at = "closing" =>
                 \/ PrepareFails(w) /\ worker[w].at = "preparing" /\ Kept(w) /\ worker'[w].answer = "error"
                 \/ /\ CompleteAction(w) /\ worker[w].at = "answered" /\ Kept(w)
                    /\ worker'[w].answer = worker[w].answer /\ worker[w].answer \in {"lost", "unknown", "error"}
                 \/ /\ StoreResult(w) /\ worker[w].at = "storing" /\ Kept(w)
                    /\ worker'[w].answer = "noeffect" /\ worker[w].answer = "noeffect"
                 \/ ConfirmMapping(w) /\ worker[w].at = "mapping" /\ Kept(w)
                 \/ /\ Query(w) /\ worker[w].at = "querying" /\ run[worker[w].run] = "result_unknown"
                    /\ worker'[w].run = worker[w].run
                    /\ worker'[w].answer = "noeffect" /\ worker[w].answer = "noeffect"
           /\ worker'[w].at = "rechecked" =>
                 /\ Reverify(w) /\ worker[w].at = "reverifying" /\ run[worker[w].run] = "partial"
                 /\ worker'[w].run = worker[w].run
<1>1. RowType /\ CallInv
  BY DEF TypeInv
<1>2. ASSUME NEW r \in BrowserRuns, NEW c \in Tokens, ReadForSubmit(w, r, c)
      PROVE  worker'[w].at = "requested" /\ worker'[w].run = r /\ worker'[w].token = c
  BY <1>1, <1>2, SubmitReads
<1>3. CASE \E r \in BrowserRuns, c \in Tokens : ReadForSubmit(w, r, c)
  BY <1>2, <1>3
<1>4. ASSUME NEW r \in BrowserRuns, BeginPrepare(w, r) PROVE worker'[w].at = "preparing" /\ worker'[w].run = r
  BY <1>1, <1>4, PrepareReads
<1>5. CASE \E r \in BrowserRuns : BeginPrepare(w, r)
  BY <1>4, <1>5
<1>6. ASSUME NEW r \in BrowserRuns, ReadForReconcile(w, r)
      PROVE  /\ worker'[w].run = r
             /\ \/ worker'[w].at = "reverifying" /\ run[r] = "partial"
                \/ /\ worker'[w].at = "querying" /\ run[r] = "result_unknown"
                   /\ Pending # {} /\ FirstOf(Pending) \in Objects
                   /\ (worker'[w].answer = "noeffect") <=> (written[FirstOf(Pending)] = 0)
  BY <1>1, <1>6, ReconcileReads
<1>7. CASE \E r \in BrowserRuns : ReadForReconcile(w, r)
  BY <1>6, <1>7
<1>8. CASE Preparing(w)
  <2>1. /\ worker[w].at = "preparing" /\ worker'[w].at \in {"idle", "closing"}
        /\ worker'[w].at = "closing" => worker'[w].answer = "error" /\ PrepareFails(w)
    <3>1. Prepared(w) => worker'[w].at = "idle" /\ worker[w].at = "preparing"
      BY <1>1, FreeIsIdle, TransitionOthers DEF Prepared
    <3>2. PrepareFails(w) => worker[w].at = "preparing"
      BY DEF PrepareFails
    <3>3. QED
      BY <1>1, <1>8, <3>1, <3>2, PreparingKeeps DEF Preparing
  <2>2. worker'[w].at # "idle" => Kept(w)
    BY <1>8, <2>1, MovesOn DEF Kept, Moving
  <2>3. QED
    BY <2>1, <2>2
<1>9. CASE Submitting(w) \/ BeginVerify(w)
  <2>1. /\ worker[w].at \in {"requested", "authorized", "clicking", "answered", "verifying"}
        /\ worker'[w].at \in {"idle", "authorized", "clicking", "answered", "verifying", "storing", "closing"}
        /\ worker'[w].at = "closing" => /\ CompleteAction(w) /\ worker[w].at = "answered"
                                       /\ worker'[w].answer = worker[w].answer
                                       /\ worker[w].answer \in {"lost", "unknown", "error"}
    BY <1>1, <1>9, AuthorizeMoves, BeginSubmitMoves, ClickMoves, CompleteMoves, BeginVerifyMoves, FreeIsIdle
       DEF Submitting
  <2>2. worker'[w].at # "idle" => Kept(w)
    BY <1>9, <2>1, MovesOn DEF Kept, Moving, Verifying
  <2>3. QED
    BY <2>1, <2>2
<1>10. CASE StoreResult(w)
  <2>1. /\ worker[w].at = "storing"
        /\ \/ worker'[w].at = "closing" /\ worker'[w].answer = "noeffect" /\ worker[w].answer = "noeffect"
           \/ /\ worker'[w].at = "mapping" /\ worker'[w].answer = worker[w].answer
              /\ worker'[w].token = worker[w].token
    BY <1>1, <1>10, StoreMoves
  <2>2. worker'[w].at = "mapping" => worker'[w].answer \in {"success", "drift"}
    BY <1>1, WorkerCalls DEF CallInv, CallOk
  <2>3. Kept(w)
    BY <1>10, <2>1, MovesOn DEF Kept, Moving, Verifying
  <2>4. QED
    BY <1>10, <2>1, <2>2, <2>3 DEF Kept
<1>11. CASE ConfirmMapping(w)
  <2>1. /\ worker[w].at = "mapping" /\ worker'[w].at \in {"idle", "closing", "continuing", "releasing"}
        /\ worker[w].token = 0 => worker'[w].at # "releasing"
    BY <1>1, <1>11, ConfirmMoves
  <2>2. worker'[w].at # "idle" => Kept(w)
    BY <1>11, <2>1, MovesOn DEF Kept, Moving, Verifying
  <2>3. QED
    BY <1>11, <2>1, <2>2
<1>12. CASE Leaving(w)
  <2>1. worker'[w].at = "idle" \/ (worker'[w].at = "continuing" /\ ReleaseRunLease(w) /\ worker[w].at = "releasing")
    BY <1>1, <1>12, LeavingMoves DEF ReleaseRunLease
  <2>2. worker'[w].at # "idle" => Kept(w)
    BY <1>12, <2>1, MovesOn DEF Kept, Moving
  <2>3. QED
    BY <2>1, <2>2
<1>13. CASE Reconciling(w)
  <2>1. /\ Query(w) => worker[w].at = "querying"
        /\ Reverify(w) => worker[w].at = "reverifying"
        /\ LeavePartial(w) => worker[w].at = "rechecked" /\ worker'[w].at = "idle"
    BY <1>1, FreeIsIdle, TransitionOthers, MovedKeeps DEF Query, Reverify, LeavePartial
  <2>2. worker[w].at = "reverifying" => worker'[w].at \in {"idle", "rechecked"}
    BY <1>1, <1>13, ReconcilingMoves
  <2>3. Query(w) => worker'[w].at # "rechecked"
    <3>1. ASSUME Query(w) PROVE worker'[w].at \in {"idle", "closing", "mapping"}
      BY <1>1, <3>1, QueryMoves
    <3>2. QED
      BY <3>1
  <2>4. QED
    BY <1>1, <1>13, <2>1, <2>2, <2>3, ReconcilingMoves DEF Reconciling
<1>14. QED
  BY <1>3, <1>5, <1>7, <1>8, <1>9, <1>10, <1>11, <1>12, <1>13, WorkerCases DEF Moving, Verifying

(* Steps that are not of a worker, and the runs. *)
LEMMA OtherTransitions ==
    ASSUME TypeInv, Others, NEW q \in BrowserRuns, run'[q] # run[q]
    PROVE  \/ run[q] = "absent" /\ run'[q] = "queued"
           \/ /\ Overtaken({}, q)
              /\ \/ run[q] = "queued" /\ run'[q] = "environment_check"
                 \/ /\ ControlRun(q) /\ run[q] # "absent" /\ (run[q] \notin Terminal \/ held[q] # "no")
                    /\ run'[q] \in {"environment_check", "awaiting_takeover", "cancelled"}
                    /\ run[q] \in {"submitting", "verifying"} => interrupted'
<1>1. CallInv /\ run \in [BrowserRuns -> RunState]
  BY DEF TypeInv, RunType
<1>2. ASSUME NEW r \in BrowserRuns, CreateRun(r) PROVE run[q] = "absent" /\ run'[q] = "queued"
  BY <1>1, <1>2 DEF CreateRun
<1>3. ASSUME NEW r \in BrowserRuns, CheckEnvironment(r)
      PROVE  run[q] = "queued" /\ run'[q] = "environment_check" /\ Overtaken({}, q)
  <2>1. q = r
    BY <1>1, <1>3 DEF CheckEnvironment
  <2>2. QED
    BY <1>1, <1>3, <2>1, BumpedOthers DEF CheckEnvironment
<1>4. ASSUME NEW r \in BrowserRuns, ControlRun(r)
      PROVE  /\ ControlRun(q) /\ run[q] # "absent" /\ (run[q] \notin Terminal \/ held[q] # "no")
             /\ run'[q] \in {"environment_check", "awaiting_takeover", "cancelled"}
             /\ run[q] \in {"submitting", "verifying"} => interrupted'
             /\ Overtaken({}, q)
  <2>1. q = r
    BY <1>1, <1>4 DEF ControlRun
  <2>2. Overtaken({}, q)
    BY <1>1, <1>4, <2>1, BumpedOthers DEF ControlRun
  <2>3. run'[q] \in {"environment_check", "awaiting_takeover", "cancelled"}
    BY <1>1, <1>4, <2>1 DEF ControlRun
  <2>4. QED
    BY <1>4, <2>1, <2>2, <2>3 DEF ControlRun
<1>5. \E r \in BrowserRuns : CreateRun(r) \/ CheckEnvironment(r) \/ ControlRun(r)
  BY DEF Others, AttachRun, AcquireLease, LeaseRunsOut, ReleaseLease, IssueConfirmation, BindMapping,
         ResetExecution, InvalidateExecution
<1>6. QED
  BY <1>2, <1>3, <1>4, <1>5

(* The transitions of the workers. *)
LEMMA WorkerTransitions ==
    ASSUME TypeInv, NEW w \in Workers, WorkerStep(w), NEW q \in BrowserRuns, run'[q] # run[q]
    PROVE  /\ Overtaken({w}, q)
           /\ \/ BeginPrepare(w, q) /\ run[q] = "environment_check" /\ run'[q] = "preparing"
              \/ /\ worker[w].run = q /\ worker[w].fresh
                 /\ \/ /\ worker[w].at = "preparing" /\ worker'[w].at = "idle"
                       /\ run'[q] = "awaiting_confirmation"
                    \/ worker[w].at = "authorized" /\ run'[q] = "submitting"
                    \/ worker[w].at = "verifying" /\ run'[q] = "verifying"
                    \/ /\ worker[w].at = "continuing" /\ run'[q] = "environment_check"
                       /\ outrun' = (outrun \/ FoundNothing(q))
                    \/ worker[w].at = "closing" /\ run'[q] = Ended(worker[w].answer)
                    \/ worker[w].at = "rechecked" /\ run'[q] = "environment_check"
<1>1. CallInv /\ run \in [BrowserRuns -> RunState] /\ RowType
  BY DEF TypeInv, RunType
<1>2. ASSUME NEW s, NEW k \in Call, TransitionRun(w, s, k)
      PROVE  /\ Overtaken({w}, q) /\ worker[w].run = q /\ worker[w].fresh /\ run'[q] = s
             /\ worker'[w] = k
  BY <1>1, <1>2, TransitionOthers
<1>3. CASE Prepared(w)
  <2>1. worker[w].at = "preparing" /\ TransitionRun(w, "awaiting_confirmation", Free)
    BY <1>3 DEF Prepared
  <2>2. QED
    BY <1>2, <2>1, FreeIsIdle
<1>4. CASE BeginSubmit(w)
  <2>1. worker[w].at = "authorized" /\ TransitionRun(w, "submitting", To(w, "clicking"))
    BY <1>4 DEF BeginSubmit
  <2>2. To(w, "clicking") \in Call
    BY <1>1, ToKeeps
  <2>3. QED
    BY <1>2, <2>1, <2>2
<1>5. CASE BeginVerify(w)
  <2>1. worker[w].at = "verifying" /\ TransitionRun(w, "verifying", To(w, "storing"))
    BY <1>5 DEF BeginVerify
  <2>2. To(w, "storing") \in Call
    BY <1>1, ToKeeps
  <2>3. QED
    BY <1>2, <2>1, <2>2
<1>6. CASE Continue(w)
  <2>1. /\ worker[w].at = "continuing" /\ TransitionRun(w, "environment_check", Free)
        /\ outrun' = (outrun \/ (worker[w].fresh /\ FoundNothing(worker[w].run)))
    BY <1>6 DEF Continue, R
  <2>2. /\ Overtaken({w}, q) /\ worker[w].run = q /\ worker[w].fresh /\ run'[q] = "environment_check"
    BY <1>2, <2>1, FreeIsIdle
  <2>3. QED
    BY <2>1, <2>2
<1>7. CASE CloseRun(w)
  <2>1. worker[w].at = "closing" /\ TransitionRun(w, Ended(worker[w].answer), Free)
    BY <1>7 DEF CloseRun
  <2>2. QED
    BY <1>2, <2>1, FreeIsIdle
<1>8. CASE LeavePartial(w)
  <2>1. worker[w].at = "rechecked" /\ TransitionRun(w, "environment_check", Free)
    BY <1>8 DEF LeavePartial
  <2>2. QED
    BY <1>2, <2>1, FreeIsIdle
<1>9. ASSUME NEW r \in BrowserRuns, BeginPrepare(w, r)
      PROVE  /\ BeginPrepare(w, q) /\ run[q] = "environment_check" /\ run'[q] = "preparing"
             /\ Overtaken({w}, q)
  <2>1. q = r
    BY <1>1, <1>9 DEF BeginPrepare
  <2>2. QED
    BY <1>1, <1>9, <2>1, PrepareReads DEF BeginPrepare
<1>10. QED
  BY <1>3, <1>4, <1>5, <1>6, <1>7, <1>8, <1>9, WorkerCases
     DEF Moving, Preparing, Submitting, Verifying, Leaving, Reconciling, ReadForReconcile,
         ReadForSubmit, PrepareFails, AuthorizeAction, ClickFinal, CompleteAction, StoreResult,
         ConfirmMapping, ReleaseRunLease, CallStops, Query, Reverify

(* A call that does not move keeps the version it knows only while its run keeps
   its state. *)
LEMMA FreshSees ==
    ASSUME TypeInv, NEW S, NEW v \in Workers \ S, OthersKeep(S), worker'[v].fresh,
           run[worker[v].run] # "absent",
           \/ Others /\ S = {}
           \/ \E w \in Workers : WorkerStep(w) /\ S = {w}
    PROVE  run'[worker[v].run] = run[worker[v].run] /\ worker[v].run \in BrowserRuns
<1>1. Same(worker'[v], worker[v]) /\ worker[v].fresh
  BY DEF OthersKeep
<1>2. worker[v].run \in BrowserRuns
  BY <1>1 DEF TypeInv, CallInv, CallOk
<1>3. ~Overtaken(S, worker[v].run)
  BY DEF Overtaken
<1>4. CASE Others /\ S = {}
  BY <1>2, <1>3, <1>4, OtherTransitions
<1>5. ASSUME NEW w \in Workers, WorkerStep(w), S = {w} PROVE run'[worker[v].run] = run[worker[v].run]
  BY <1>2, <1>3, <1>5, WorkerTransitions
<1>6. QED
  BY <1>2, <1>4, <1>5

(* A mapping that is stored with a drift is not of a query. *)
LEMMA DriftIsSubmitted ==
    ASSUME TypeInv, WrittenInv, NEW w \in Workers, ConfirmMapping(w),
           worker'[w].at = "closing", worker'[w].answer = "drift"
    PROVE  worker[w].token # 0 /\ worker[w].answer = "drift"
<1>1. CallInv
  BY DEF TypeInv
<1>2. worker[w].at = "mapping" /\ worker[w].object \in Objects /\ worker[w].run \in BrowserRuns
  BY <1>1, ConfirmMoves DEF CallInv, CallOk
<1>3. /\ worker[w].object \in Pending /\ mapping[worker[w].object] = worker[w].run
      /\ worker[w].answer = "drift" /\ (worker[w].token = 0 => execution = "succeeded")
  BY <1>1, ConfirmMoves
<1>4. mapping[worker[w].object] # 0
  BY <1>2, <1>3 DEF BrowserRuns
<1>5. execution # "succeeded"
  BY <1>2, <1>3, <1>4 DEF WrittenInv, MappedConfirmed, Pending
<1>6. QED
  BY <1>3, <1>5

LEMMA ExpectedIsThere ==
    ASSUME NEW k, NEW m
    PROVE  "absent" \notin Expected(k) /\ (Same(k, m) => Expected(k) = Expected(m))
BY DEF Expected, RunState, Same

LEMMA PhaseKeeps ==
    ASSUME TypeInv, TypeInv', PhaseInv, WrittenInv, [BrowserNext]_vars
    PROVE  PhaseInv'
<1>1. RowType /\ CallInv /\ run \in [BrowserRuns -> RunState]
  BY DEF TypeInv, RunType
<1>2. ASSUME NEW S, NEW v \in Workers \ S, OthersKeep(S), worker'[v].fresh,
             \/ Others /\ S = {}
             \/ \E w \in Workers : WorkerStep(w) /\ S = {w}
      PROVE  run'[worker'[v].run] \in Expected(worker'[v])
  <2>1. Same(worker'[v], worker[v]) /\ worker[v].fresh
    BY <1>2 DEF OthersKeep
  <2>2. run[worker[v].run] \in Expected(worker[v]) /\ worker'[v].run = worker[v].run
    BY <2>1 DEF PhaseInv, Same
  <2>3. run[worker[v].run] # "absent" /\ Expected(worker'[v]) = Expected(worker[v])
    BY <2>1, <2>2, ExpectedIsThere
  <2>4. run'[worker[v].run] = run[worker[v].run]
    BY <1>2, <2>3, FreshSees
  <2>5. QED
    BY <2>2, <2>3, <2>4
<1>3. CASE Others
  <2>1. OthersKeep({})
    BY <1>1, <1>3, OthersMoveNoCall
  <2>2. QED
    BY <1>2, <1>3, <2>1 DEF PhaseInv
<1>4. ASSUME NEW w \in Workers, WorkerStep(w), worker'[w].fresh
      PROVE  run'[worker'[w].run] \in Expected(worker'[w])
  <2> DEFINE k == worker'[w]
             Sent == run[worker[w].run] \in Expected(worker[w])
  <2>1. k \in Call /\ CallOk(k) /\ k.at # "idle" /\ k.run \in BrowserRuns
    BY <1>4 DEF TypeInv, CallInv, CallOk
  <2>2. Kept(w) => Sent /\ k.run = worker[w].run
    BY <1>4 DEF Kept, PhaseInv
  <2>3. CASE k.at = "preparing"
    <3>1. BeginPrepare(w, k.run)
      BY <1>4, <2>3, Arrivals
    <3>2. run'[k.run] = "preparing"
      BY <1>1, <2>1, <3>1 DEF BeginPrepare
    <3>3. QED
      BY <2>3, <3>2 DEF Expected
  <2>4. CASE k.at \in {"requested", "reverifying", "querying"}
    <3>1. \/ \E c \in Tokens : ReadForSubmit(w, k.run, c)
          \/ ReadForReconcile(w, k.run)
      BY <1>4, <2>4, Arrivals
    <3>2. run'[k.run] = run[k.run] /\ run[k.run] # "absent"
      BY <3>1 DEF ReadForSubmit, ReadForReconcile
    <3>3. QED
      BY <1>1, <2>1, <2>4, <3>2 DEF Expected
  <2>5. CASE k.at \in {"authorized", "clicking", "storing"}
    <3>1. \/ /\ k.at = "authorized" /\ AuthorizeAction(w) /\ MayAct(worker[w].run, worker[w].token)
             /\ k.run = worker[w].run
          \/ /\ k.at = "clicking" /\ run' = [run EXCEPT ![worker[w].run] = "submitting"]
             /\ k.run = worker[w].run
          \/ /\ k.at = "storing" /\ run' = [run EXCEPT ![worker[w].run] = "verifying"]
             /\ k.run = worker[w].run
      BY <1>4, <2>5, WhoClicks
    <3>2. CASE k.at = "authorized"
      BY <3>1, <3>2 DEF AuthorizeAction, MayAct, Expected
    <3>3. CASE k.at = "clicking"
      BY <1>1, <2>1, <3>1, <3>3 DEF Expected
    <3>4. CASE k.at = "storing"
      BY <1>1, <2>1, <3>1, <3>4 DEF Expected
    <3>5. QED
      BY <2>5, <3>2, <3>3, <3>4
  <2>6. CASE k.at \in {"answered", "verifying"}
    <3>1. /\ ClickFinal(w) \/ CompleteAction(w)
          /\ worker[w].at \in {"clicking", "answered"}
      BY <1>4, <2>6, WhoClicks
    <3>2. Kept(w) /\ run' = run
      BY <1>4, <2>6, <3>1, Arrivals DEF ClickFinal, CompleteAction
    <3>3. QED
      BY <2>2, <2>6, <3>1, <3>2 DEF Expected
  <2>7. CASE k.at = "mapping"
    <3>1. k.run = worker[w].run /\ k.token = worker[w].token
      BY <1>4, <2>7, Arrivals
    <3>2. CASE StoreResult(w) /\ worker[w].at = "storing" /\ Kept(w)
      <4>1. worker[w].token \in Tokens /\ run' = run
        BY <1>1, <3>2 DEF CallInv, CallOk, Running, StoreResult
      <4>2. worker[w].token # 0
        BY <4>1, BrowserAssumption DEF Tokens
      <4>3. QED
        BY <2>2, <2>7, <3>1, <3>2, <4>1, <4>2 DEF Expected
    <3>3. CASE Query(w) /\ worker[w].at = "querying" /\ run[worker[w].run] = "result_unknown"
      <4>1. worker[w].token = 0 /\ run' = run
        BY <1>1, <3>3 DEF CallInv, CallOk, Query
      <4>2. QED
        BY <2>7, <3>1, <3>3, <4>1 DEF Expected
    <3>4. QED
      BY <1>4, <2>7, <3>2, <3>3, Arrivals
  <2>8. CASE k.at \in {"releasing", "continuing"}
    <3>1. /\ Kept(w)
          /\ \/ /\ ConfirmMapping(w) /\ worker[w].at = "mapping"
                /\ k.at = "releasing" => worker[w].token # 0
             \/ ReleaseRunLease(w) /\ worker[w].at = "releasing" /\ k.at = "continuing"
      BY <1>4, <2>8, Arrivals
    <3>2. run' = run
      BY <3>1 DEF ConfirmMapping, ReleaseRunLease
    <3>3. QED
      BY <2>2, <2>8, <3>1, <3>2 DEF Expected
  <2>9. CASE k.at = "closing"
    <3>1. CASE PrepareFails(w) /\ worker[w].at = "preparing" /\ Kept(w) /\ k.answer = "error"
      <4>1. run' = run
        BY <3>1 DEF PrepareFails
      <4>2. QED
        BY <2>2, <2>9, <3>1, <4>1 DEF Expected
    <3>2. CASE /\ CompleteAction(w) /\ worker[w].at = "answered" /\ Kept(w)
               /\ k.answer \in {"lost", "unknown", "error"}
      <4>1. run' = run
        BY <3>2 DEF CompleteAction
      <4>2. QED
        BY <2>2, <2>9, <3>2, <4>1 DEF Expected
    <3>3. CASE StoreResult(w) /\ worker[w].at = "storing" /\ Kept(w) /\ k.answer = "noeffect"
      <4>1. run' = run
        BY <3>3 DEF StoreResult
      <4>2. QED
        BY <2>2, <2>9, <3>3, <4>1 DEF Expected
    <3>4. CASE ConfirmMapping(w) /\ worker[w].at = "mapping" /\ Kept(w)
      <4>1. run' = run /\ k.answer \in {"error", "success", "drift"}
            /\ (worker[w].token = 0 => k.answer # "error")
        BY <1>1, <2>9, <3>4, ConfirmMoves DEF ConfirmMapping
      <4>2. k.answer = "drift" => worker[w].token # 0
        BY <2>9, <3>4, DriftIsSubmitted
      <4>3. QED
        BY <2>2, <2>9, <3>4, <4>1, <4>2 DEF Expected
    <3>5. CASE /\ Query(w) /\ run[worker[w].run] = "result_unknown"
               /\ k.run = worker[w].run /\ k.answer = "noeffect"
      <4>1. run' = run
        BY <3>5 DEF Query
      <4>2. QED
        BY <2>9, <3>5, <4>1 DEF Expected
    <3>6. QED
      BY <1>4, <2>9, <3>1, <3>2, <3>3, <3>4, <3>5, Arrivals
  <2>10. CASE k.at = "rechecked"
    <3>1. Reverify(w) /\ run[worker[w].run] = "partial" /\ k.run = worker[w].run
      BY <1>4, <2>10, Arrivals
    <3>2. QED
      BY <2>10, <3>1 DEF Reverify, Expected
  <2>11. QED
    BY <2>1, <2>3, <2>4, <2>5, <2>6, <2>7, <2>8, <2>9, <2>10 DEF Call
<1>5. ASSUME NEW w \in Workers, WorkerStep(w) PROVE PhaseInv'
  <2>1. OthersKeep({w})
    BY <1>1, <1>5, WorkerCalls
  <2>2. QED
    BY <1>2, <1>4, <1>5, <2>1 DEF PhaseInv
<1>6. CASE UNCHANGED vars
  <2>1. worker' = worker /\ run' = run
    BY <1>6 DEF vars
  <2>2. QED
    BY <2>1, Zenon DEF PhaseInv
<1>7. QED
  BY <1>3, <1>5, <1>6 DEF BrowserNext, Others

(* What a step makes of the state of a run: the table that CanTransition is, and
   the reason it applies here although neither ControlRun nor a stale worker asks it. *)
LEMMA RunSteps ==
    ASSUME TypeInv, PhaseInv, HeldInv, SubmitInv, [BrowserNext]_vars, NEW q \in BrowserRuns,
           run'[q] # run[q]
    PROVE  \/ run[q] = "absent" /\ run'[q] = "queued"
           \/ run[q] = "queued" /\ run'[q] = "environment_check"
           \/ run[q] = "environment_check" /\ run'[q] = "preparing"
           \/ /\ run[q] \notin Terminal /\ run'[q] \in {"environment_check", "awaiting_takeover", "cancelled"}
              /\ run[q] \in {"submitting", "verifying"} => interrupted'
           \/ /\ run[q] = "preparing" /\ run'[q] = "awaiting_confirmation"
              /\ \E w \in Workers : /\ worker[w].at = "preparing" /\ worker[w].run = q /\ worker[w].fresh
                                    /\ worker'[w].at = "idle"
           \/ run[q] = "awaiting_confirmation" /\ run'[q] = "submitting" /\ bound = q
           \/ run[q] = "submitting" /\ run'[q] \in {"verifying", "result_unknown"}
           \/ run[q] \in {"preparing", "submitting", "verifying", "result_unknown"} /\ run'[q] = "failed"
           \/ /\ run[q] \in {"verifying", "result_unknown"} /\ run'[q] = "environment_check"
              /\ \E w \in Workers : worker[w].at = "continuing" /\ worker[w].run = q /\ worker[w].fresh
              /\ outrun' = (outrun \/ FoundNothing(q))
           \/ /\ run[q] \in {"verifying", "result_unknown"} /\ run'[q] = "succeeded"
              /\ \E w \in Workers : /\ worker[w].at = "closing" /\ worker[w].answer = "success"
                                    /\ worker[w].run = q /\ worker[w].fresh
           \/ /\ run[q] = "verifying" /\ run'[q] = "partial"
              /\ \E w \in Workers : /\ worker[w].at = "closing" /\ worker[w].answer = "drift"
                                    /\ worker[w].run = q /\ worker[w].fresh
           \/ run[q] = "partial" /\ run'[q] = "environment_check"
<1>1. CASE Others
  BY <1>1, OtherTransitions DEF HeldInv
<1>2. ASSUME NEW w \in Workers, WorkerStep(w), worker[w].fresh, worker[w].run = q,
             worker[w].at = "closing", run'[q] = Ended(worker[w].answer)
      PROVE  \/ run[q] = "submitting" /\ run'[q] = "result_unknown"
             \/ run[q] \in {"preparing", "submitting", "verifying", "result_unknown"} /\ run'[q] = "failed"
             \/ /\ run[q] \in {"verifying", "result_unknown"} /\ run'[q] = "succeeded"
                /\ worker[w].answer = "success"
             \/ run[q] = "verifying" /\ run'[q] = "partial" /\ worker[w].answer = "drift"
  <2>1. run[q] \in Expected(worker[w]) /\ worker[w].answer \in Answers
    BY <1>2 DEF PhaseInv, TypeInv, CallInv, Call
  <2>2. QED
    BY <1>2, <2>1 DEF Expected, Ended, Answers
<1>3. ASSUME NEW w \in Workers, WorkerStep(w), worker[w].fresh, worker[w].run = q
      PROVE  run[q] \in Expected(worker[w])
  BY <1>3 DEF PhaseInv
<1>4. ASSUME NEW w \in Workers, WorkerStep(w), worker[w].fresh, worker[w].run = q
      PROVE  /\ worker[w].at = "preparing" => run[q] = "preparing"
             /\ worker[w].at = "authorized" => run[q] = "awaiting_confirmation" /\ bound = q
             /\ worker[w].at = "verifying" => run[q] = "submitting"
             /\ worker[w].at = "continuing" => run[q] \in {"verifying", "result_unknown"}
             /\ worker[w].at = "rechecked" => run[q] = "partial"
  BY <1>3, <1>4 DEF Expected, SubmitInv
<1>5. ASSUME NEW w \in Workers, WorkerStep(w)
      PROVE  \/ run[q] = "environment_check" /\ run'[q] = "preparing"
             \/ /\ worker[w].run = q /\ worker[w].fresh
                /\ \/ /\ run[q] = "preparing" /\ run'[q] = "awaiting_confirmation"
                      /\ worker[w].at = "preparing" /\ worker'[w].at = "idle"
                   \/ run[q] = "awaiting_confirmation" /\ run'[q] = "submitting" /\ bound = q
                   \/ run[q] = "submitting" /\ run'[q] = "verifying"
                   \/ /\ run[q] \in {"verifying", "result_unknown"} /\ run'[q] = "environment_check"
                      /\ worker[w].at = "continuing" /\ outrun' = (outrun \/ FoundNothing(q))
                   \/ worker[w].at = "closing" /\ run'[q] = Ended(worker[w].answer)
                   \/ run[q] = "partial" /\ run'[q] = "environment_check"
  <2>1. \/ run[q] = "environment_check" /\ run'[q] = "preparing"
        \/ /\ worker[w].run = q /\ worker[w].fresh
           /\ \/ /\ worker[w].at = "preparing" /\ worker'[w].at = "idle"
                 /\ run'[q] = "awaiting_confirmation"
              \/ worker[w].at = "authorized" /\ run'[q] = "submitting"
              \/ worker[w].at = "verifying" /\ run'[q] = "verifying"
              \/ /\ worker[w].at = "continuing" /\ run'[q] = "environment_check"
                 /\ outrun' = (outrun \/ FoundNothing(q))
              \/ worker[w].at = "closing" /\ run'[q] = Ended(worker[w].answer)
              \/ worker[w].at = "rechecked" /\ run'[q] = "environment_check"
    BY <1>5, WorkerTransitions
  <2>2. QED
    BY <1>4, <1>5, <2>1
<1>6. ASSUME NEW w \in Workers, WorkerStep(w), worker[w].run = q /\ worker[w].fresh,
             worker[w].at = "closing" /\ run'[q] = Ended(worker[w].answer)
      PROVE  \/ run[q] = "submitting" /\ run'[q] \in {"verifying", "result_unknown"}
             \/ run[q] \in {"preparing", "submitting", "verifying", "result_unknown"} /\ run'[q] = "failed"
             \/ /\ run[q] \in {"verifying", "result_unknown"} /\ run'[q] = "succeeded"
                /\ \E v \in Workers : /\ worker[v].at = "closing" /\ worker[v].answer = "success"
                                      /\ worker[v].run = q /\ worker[v].fresh
             \/ /\ run[q] = "verifying" /\ run'[q] = "partial"
                /\ \E v \in Workers : /\ worker[v].at = "closing" /\ worker[v].answer = "drift"
                                      /\ worker[v].run = q /\ worker[v].fresh
  BY <1>2, <1>6
<1>7. CASE \E w \in Workers : WorkerStep(w)
  BY <1>5, <1>6, <1>7
<1>8. run' # run
  OBVIOUS
<1>9. QED
  BY <1>1, <1>7, <1>8 DEF BrowserNext, Others, vars

LEMMA HeldKeeps ==
    ASSUME TypeInv, TypeInv', HeldInv, [BrowserNext]_vars
    PROVE  HeldInv'
<1>1. RowType /\ CallInv /\ run \in [BrowserRuns -> RunState]
      /\ held \in [BrowserRuns -> {"no", "paused", "taken"}]
  BY DEF TypeInv, RunType, RowType
<1> DEFINE Quiet(r) == /\ run'[r] \notin Terminal
                       /\ \A w \in Workers : worker'[w].fresh /\ worker'[w].run = r => worker'[w].at = "requested"
<1>2. ASSUME Others, NEW r \in BrowserRuns, held'[r] # "no" PROVE Quiet(r)
  <2>1. \A v \in Workers : Same(worker'[v], worker[v]) /\ (worker'[v].fresh => worker[v].fresh)
    BY <1>1, <1>2, OthersMoveNoCall DEF OthersKeep
  <2>2. CASE ControlRun(r)
    <3>1. run'[r] \notin Terminal
      BY <1>1, <1>2, <2>2 DEF ControlRun, Terminal
    <3>2. Overtaken({}, r)
      BY <1>1, <2>2, BumpedOthers DEF ControlRun
    <3>3. QED
      BY <2>1, <3>1, <3>2 DEF Overtaken, Same
  <2>3. CASE ~ControlRun(r)
    <3>1. held[r] # "no"
      <4>1. ASSUME NEW q \in BrowserRuns, ControlRun(q) PROVE held'[r] = held[r]
        BY <1>1, <2>3, <4>1 DEF ControlRun
      <4>2. held' = held \/ \E q \in BrowserRuns : ControlRun(q)
        BY <1>2 DEF Others, CreateRun, AttachRun, CheckEnvironment, AcquireLease, LeaseRunsOut, ReleaseLease,
             IssueConfirmation, BindMapping, ResetExecution, InvalidateExecution
      <4>3. QED
        BY <1>2, <4>1, <4>2
    <3>2. run'[r] \notin Terminal
      BY <1>2, <2>3, <3>1, OtherTransitions DEF HeldInv, Terminal
    <3>3. QED
      BY <2>1, <3>1, <3>2 DEF HeldInv, Same
  <2>4. QED
    BY <2>2, <2>3
<1>3. ASSUME NEW w \in Workers, WorkerStep(w), NEW r \in BrowserRuns, held'[r] # "no" PROVE Quiet(r)
  <2>1. held' = held
    BY <1>3, WorkerCases
       DEF Moving, Preparing, Submitting, Verifying, Leaving, Reconciling, BeginPrepare, ReadForReconcile,
           ReadForSubmit, Prepared, PrepareFails, AuthorizeAction, BeginSubmit, ClickFinal, CompleteAction,
           BeginVerify, StoreResult, ConfirmMapping, ReleaseRunLease, Continue, CloseRun, CallStops, Query,
           Reverify, LeavePartial
  <2>2. /\ run[r] \notin Terminal
        /\ \A v \in Workers : worker[v].fresh /\ worker[v].run = r => worker[v].at = "requested"
    BY <1>3, <2>1 DEF HeldInv
  <2>3. ~BeginPrepare(w, r)
    BY <1>3, <2>1 DEF BeginPrepare
  <2>4. run'[r] = run[r]
    <3> SUFFICES ASSUME run'[r] # run[r] PROVE FALSE
      OBVIOUS
    <3>1. worker[w].run = r /\ worker[w].fresh /\ worker[w].at # "requested"
      BY <1>3, <2>3, WorkerTransitions
    <3>2. QED
      BY <2>2, <3>1
  <2>5. \A v \in Workers \ {w} : Same(worker'[v], worker[v]) /\ (worker'[v].fresh => worker[v].fresh)
    BY <1>1, <1>3, WorkerCalls DEF OthersKeep
  <2>6. ASSUME worker'[w].fresh, worker'[w].run = r PROVE worker'[w].at = "requested"
    <3> DEFINE k == worker'[w]
    <3>1. k \in Call /\ k.at # "idle" /\ run[r] \notin {"partial", "result_unknown"}
      BY <2>2, <2>6 DEF TypeInv, CallInv, CallOk, Terminal
    <3>2. Kept(w) => worker[w].at = "requested"
      BY <2>2, <2>6 DEF Kept
    <3>3. k.at \notin {"preparing", "querying", "reverifying", "rechecked", "mapping"}
      BY <1>3, <2>3, <2>6, <3>1, <3>2, Arrivals
    <3>4. k.at \notin {"releasing", "continuing", "closing"}
      BY <1>3, <2>6, <3>1, <3>2, Arrivals
    <3>5. k.at # "authorized"
      BY <1>3, <2>1, <2>6, WhoClicks DEF MayAct
    <3>6. k.at \notin {"clicking", "answered", "verifying", "storing"}
      BY <1>3, <3>2, Arrivals, WhoClicks
    <3>7. QED
      BY <3>1, <3>3, <3>4, <3>5, <3>6 DEF Call
  <2>7. QED
    BY <2>2, <2>4, <2>5, <2>6 DEF Same
<1>4. CASE UNCHANGED vars
  BY <1>4 DEF vars, HeldInv
<1>5. QED
  BY <1>2, <1>3, <1>4 DEF BrowserNext, Others, HeldInv

(* A form is prepared by one call at a time, as far as the others can put the
   step; the step of a preparation that failed is the latest one only while
   nobody has gone on from there. *)

Before == {"preparing", "environment_check", "awaiting_takeover", "cancelled", "failed"}
Prepares(w) == worker[w].at = "preparing"
Owns(w)     == worker[w].at = "preparing" /\ worker[w].owner

PrepInv ==
    /\ \A w \in Workers : Prepares(w) /\ worker[w].fresh =>
          /\ step[worker[w].run] # "prepareFailed"
          /\ \A v \in Workers \ {w} : Owns(v) => worker[v].run # worker[w].run
    /\ \A w \in Workers : Owns(w) => run[worker[w].run] \in Before
    /\ \A r \in BrowserRuns : step[r] = "prepareFailed" => run[r] \in Before

(* Only the preparation of its run makes the latest step a failed preparation. *)
LEMMA WhoFails ==
    ASSUME TypeInv, [BrowserNext]_vars, NEW r \in BrowserRuns, step'[r] = "prepareFailed"
    PROVE  \/ step[r] = "prepareFailed"
           \/ \E w \in Workers : /\ PrepareFails(w) /\ Owns(w) /\ worker[w].run = r
                                 /\ run' = run /\ worker'[w].at = "closing"
<1>1. RowType /\ CallInv /\ step \in [BrowserRuns -> {"none", "open", "prepareFailed", "failed", "listed"}]
  BY DEF TypeInv, RowType
<1>2. ASSUME NEW s \in {"open", "failed", "listed"}, NEW w \in Workers, NEW q,
             SetStep(w, s) \/ NewStep(q, s) \/ step' = step
      PROVE  step[r] = "prepareFailed"
  BY <1>1, <1>2 DEF SetStep, NewStep
<1>3. ASSUME Others PROVE step' = step
  BY <1>3 DEF Others, CreateRun, AttachRun, CheckEnvironment, ControlRun, AcquireLease, LeaseRunsOut,
         ReleaseLease, IssueConfirmation, BindMapping, ResetExecution, InvalidateExecution, evidence
<1>4. ASSUME NEW w \in Workers, PrepareFails(w), step[r] # "prepareFailed"
      PROVE  Owns(w) /\ worker[w].run = r /\ run' = run /\ worker'[w].at = "closing"
  <2>1. PICK s \in {"prepareFailed", "failed"} : SetStep(w, s)
    BY <1>4 DEF PrepareFails
  <2>2. worker[w].owner /\ worker[w].run = r
    BY <1>1, <1>4, <2>1 DEF SetStep, R
  <2>3. worker' = [worker EXCEPT ![w] = Ending(w, "closing", "error")] /\ run' = run /\ worker[w].at = "preparing"
    BY <1>4 DEF PrepareFails
  <2>4. worker'[w].at = "closing"
    BY <1>1, <2>3, EndingKeeps DEF Answers, CallInv
  <2>5. QED
    BY <2>2, <2>3, <2>4 DEF Owns
<1>5. ASSUME NEW w \in Workers, WorkerStep(w), ~PrepareFails(w)
      PROVE  \/ step' = step
             \/ \E s \in {"open", "failed", "listed"} : SetStep(w, s) \/ \E q : NewStep(q, s)
  BY <1>5, WorkerCases
     DEF Moving, Preparing, Submitting, Verifying, Leaving, Reconciling, BeginPrepare, ReadForReconcile,
         ReadForSubmit, Prepared, AuthorizeAction, BeginSubmit, ClickFinal, CompleteAction,
         BeginVerify, StoreResult, ConfirmMapping, ReleaseRunLease, Continue, CloseRun, CallStops, Query,
         Reverify, LeavePartial, evidence
<1>6. CASE step' = step
  BY <1>6
<1>7. QED
  BY <1>2, <1>3, <1>4, <1>5, <1>6 DEF BrowserNext, Others, vars, evidence

(* Who prepares prepared before, or has begun. *)
LEMMA WhoPrepares ==
    ASSUME TypeInv, NEW w \in Workers, WorkerStep(w)
    PROVE  /\ OthersKeep({w})
           /\ Prepares(w)' => worker'[w].run \in BrowserRuns /\ BeginPrepare(w, worker'[w].run)
BY WorkerCalls, Arrivals DEF Prepares, TypeInv

LEMMA PrepKeeps ==
    ASSUME TypeInv, TypeInv', PhaseInv, HeldInv, SubmitInv, PrepInv, [BrowserNext]_vars
    PROVE  PrepInv'
<1>1. /\ RowType /\ CallInv /\ run \in [BrowserRuns -> RunState]
      /\ step \in [BrowserRuns -> {"none", "open", "prepareFailed", "failed", "listed"}]
  BY DEF TypeInv, RunType, RowType
<1>2. \A v \in Workers : worker[v].at # "idle" => worker[v].run \in BrowserRuns
  BY <1>1 DEF CallInv, CallOk
<1>3. CASE UNCHANGED vars
  <2>1. worker' = worker /\ run' = run /\ step' = step
    BY <1>3 DEF vars, evidence
  <2>2. QED
    BY <2>1, Zenon DEF PrepInv, Prepares, Owns
<1> SUFFICES ASSUME Others \/ \E w \in Workers : WorkerStep(w) PROVE PrepInv'
  BY <1>3 DEF BrowserNext, Others
(* Whoever prepares did so before, or has begun now and is ahead of the others. *)
<1>4. ASSUME NEW v \in Workers, Prepares(v)'
      PROVE  \/ /\ Prepares(v) /\ worker'[v].run = worker[v].run
                /\ worker'[v].fresh => worker[v].fresh
                /\ Owns(v)' => Owns(v)
             \/ worker'[v].run \in BrowserRuns /\ BeginPrepare(v, worker'[v].run)
  <2>1. ASSUME NEW S, v \notin S, OthersKeep(S)
        PROVE  /\ Prepares(v) /\ worker'[v].run = worker[v].run
               /\ worker'[v].fresh => worker[v].fresh
               /\ Owns(v)' => Owns(v)
    BY <1>4, <2>1 DEF Prepares, Owns, OthersKeep, Same
  <2>2. CASE Others
    BY <1>1, <2>1, <2>2, OthersMoveNoCall
  <2>3. ASSUME NEW w \in Workers, WorkerStep(w), v # w PROVE v \notin {w} /\ OthersKeep({w})
    BY <2>3, WhoPrepares
  <2>4. QED
    BY <1>4, <2>1, <2>2, <2>3, WhoPrepares
<1>5. ASSUME NEW w \in Workers, NEW r \in BrowserRuns, BeginPrepare(w, r)
      PROVE  /\ run'[r] = "preparing" /\ step'[r] = "open"
             /\ worker'[w].run = r /\ ~Prepares(w)
             /\ \A v \in Workers \ {w} : /\ worker'[v].fresh => worker[v].run # r
                                         /\ worker'[v].run = r => ~worker'[v].owner
                                         /\ Same(worker'[v], worker[v])
                                         /\ worker'[v].owner => worker[v].owner
  <2>1. /\ OthersKeep({w}) /\ Overtaken({w}, r) /\ worker[w].at = "idle" /\ worker'[w].run = r
        /\ \A v \in Workers \ {w} : worker'[v].run = r => ~worker'[v].owner
    BY <1>1, <1>5, PrepareReads
  <2>2. run'[r] = "preparing" /\ step'[r] = "open"
    BY <1>1, <1>5 DEF BeginPrepare, NewStep
  <2>3. QED
    BY <2>1, <2>2 DEF OthersKeep, Overtaken, Prepares
<1>6. ASSUME NEW v \in Workers, NEW u \in Workers \ {v}, Prepares(v)', worker'[v].fresh, Owns(u)'
      PROVE  worker'[u].run # worker'[v].run
  <2>1. CASE \E w \in Workers, r \in BrowserRuns : BeginPrepare(w, r)
    <3>1. PICK w \in Workers, r \in BrowserRuns : BeginPrepare(w, r)
      BY <2>1
    <3>2. CASE v = w
      BY <1>5, <1>6, <3>1, <3>2 DEF Owns
    <3>3. CASE u = w
      <4>1. worker'[u].run = r /\ worker[v].run # r /\ worker'[v].run = worker[v].run
        BY <1>5, <1>6, <3>1, <3>3 DEF Same
      <4>2. QED
        BY <4>1
    <3>4. CASE u # w /\ v # w
      <4>1. /\ Prepares(v) /\ worker'[v].run = worker[v].run /\ worker[v].fresh
            /\ Owns(u) /\ worker'[u].run = worker[u].run
        <5>1. OthersKeep({w})
          BY <1>1, <3>1, PrepareReads
        <5>2. QED
          BY <1>6, <3>4, <5>1 DEF OthersKeep, Same, Prepares, Owns
      <4>2. QED
        BY <1>6, <4>1 DEF PrepInv
    <3>5. QED
      BY <3>2, <3>3, <3>4
  <2>2. CASE ~\E w \in Workers, r \in BrowserRuns : BeginPrepare(w, r)
    <3>1. /\ Prepares(v) /\ worker'[v].run = worker[v].run /\ worker[v].fresh
      BY <1>4, <1>6, <2>2
    <3>2. Owns(u) /\ worker'[u].run = worker[u].run
      BY <1>4, <1>6, <2>2 DEF Prepares, Owns
    <3>3. QED
      BY <1>6, <3>1, <3>2 DEF PrepInv
  <2>3. QED
    BY <2>1, <2>2
<1>7. ASSUME NEW v \in Workers, Prepares(v)', worker'[v].fresh PROVE step'[worker'[v].run] # "prepareFailed"
  <2>1. CASE BeginPrepare(v, worker'[v].run) /\ worker'[v].run \in BrowserRuns
    BY <1>5, <2>1
  <2>2. CASE Prepares(v) /\ worker'[v].run = worker[v].run /\ worker[v].fresh
    <3> SUFFICES ASSUME step'[worker[v].run] = "prepareFailed" PROVE FALSE
      BY <2>2
    <3>1. worker[v].run \in BrowserRuns /\ step[worker[v].run] # "prepareFailed"
      BY <1>2, <2>2 DEF PrepInv, Prepares
    <3>2. PICK w \in Workers : Owns(w) /\ worker[w].run = worker[v].run /\ worker'[w].at = "closing"
      BY <3>1, WhoFails
    <3>3. w # v
      BY <1>7, <3>2 DEF Prepares
    <3>4. QED
      BY <2>2, <3>2, <3>3 DEF PrepInv
  <2>3. QED
    BY <1>4, <1>7, <2>1, <2>2
(* A run leaves these states with the call that has prepared it. *)
<1>8. ASSUME NEW r \in BrowserRuns, run[r] \in Before, run'[r] \notin Before
      PROVE  /\ run[r] = "preparing" /\ run'[r] = "awaiting_confirmation"
             /\ \E w \in Workers : /\ Prepares(w) /\ worker[w].run = r /\ worker[w].fresh
                                   /\ worker'[w].at = "idle"
  BY <1>8, RunSteps DEF Before, Prepares
<1>9. ASSUME NEW v \in Workers, Owns(v)' PROVE run'[worker'[v].run] \in Before
  <2>1. CASE BeginPrepare(v, worker'[v].run) /\ worker'[v].run \in BrowserRuns
    BY <1>5, <2>1 DEF Before
  <2>2. CASE Owns(v) /\ worker'[v].run = worker[v].run
    <3>1. worker[v].run \in BrowserRuns /\ run[worker[v].run] \in Before
      BY <1>2, <2>2 DEF PrepInv, Owns
    <3>2. ASSUME NEW w \in Workers, Prepares(w), worker[w].run = worker[v].run, worker[w].fresh,
                 worker'[w].at = "idle"
          PROVE  FALSE
      <4>1. w # v
        BY <1>9, <3>2 DEF Owns
      <4>2. QED
        BY <2>2, <3>2, <4>1 DEF PrepInv
    <3>3. QED
      BY <1>8, <2>2, <3>1, <3>2
  <2>3. QED
    BY <1>4, <1>9, <2>1, <2>2 DEF Owns, Prepares
<1>10. ASSUME NEW r \in BrowserRuns, step'[r] = "prepareFailed" PROVE run'[r] \in Before
  <2>1. CASE step[r] = "prepareFailed"
    <3>1. run[r] \in Before
      BY <2>1 DEF PrepInv
    <3>2. ASSUME NEW w \in Workers, Prepares(w), worker[w].run = r, worker[w].fresh PROVE FALSE
      BY <2>1, <3>2 DEF PrepInv
    <3>3. QED
      BY <1>8, <3>1, <3>2
  <2>2. CASE step[r] # "prepareFailed"
    <3>1. PICK w \in Workers : Owns(w) /\ worker[w].run = r /\ run' = run
      BY <1>10, <2>2, WhoFails
    <3>2. QED
      BY <3>1 DEF PrepInv
  <2>3. QED
    BY <2>1, <2>2
<1>11. QED
  BY <1>6, <1>7, <1>9, <1>10 DEF PrepInv

(* A run that submits, or has to be reconciled, has the execution. *)
BoundInv ==
    \A r \in BrowserRuns : run[r] \in {"submitting", "verifying", "result_unknown"} => bound = r

LEMMA WorkersKeepBound ==
    ASSUME NEW w, WorkerStep(w)
    PROVE  bound' = bound /\ mapping' = mapping /\ interrupted' = interrupted
BY WorkerCases
   DEF Moving, Preparing, Submitting, Verifying, Leaving, Reconciling, BeginPrepare, ReadForReconcile,
       ReadForSubmit, Prepared, PrepareFails, AuthorizeAction, BeginSubmit, ClickFinal, CompleteAction,
       BeginVerify, StoreResult, ConfirmMapping, ReleaseRunLease, Continue, CloseRun, CallStops, Query,
       Reverify, LeavePartial, rows, world

(* An execution is bound when it has no run, and released by a run that failed. *)
LEMMA BoundSteps ==
    ASSUME TypeInv, [BrowserNext]_vars
    PROVE  \/ bound' = bound
           \/ bound = 0
           \/ ResetExecution /\ bound \in BrowserRuns /\ run[bound] = "failed"
<1>1. bound \in 0..RunCount /\ ((execution = "pending") <=> (bound = 0))
  BY DEF TypeInv, RowType
<1>2. CASE Others
  <2>1. \/ bound' = bound
        \/ execution = "pending"
        \/ ResetExecution /\ bound # 0 /\ run[bound] = "failed"
    BY <1>2 DEF Others, CreateRun, AttachRun, CheckEnvironment, ControlRun, AcquireLease, LeaseRunsOut,
         ReleaseLease, IssueConfirmation, BindMapping, ResetExecution, InvalidateExecution, SafeToReset, rows
  <2>2. QED
    BY <1>1, <2>1 DEF BrowserRuns
<1>3. CASE \E w \in Workers : WorkerStep(w)
  BY <1>3, WorkersKeepBound
<1>4. QED
  BY <1>2, <1>3 DEF BrowserNext, Others, vars, rows

LEMMA BoundKeeps ==
    ASSUME TypeInv, PhaseInv, HeldInv, SubmitInv, BoundInv, [BrowserNext]_vars
    PROVE  BoundInv'
<1> SUFFICES ASSUME NEW r \in BrowserRuns, run'[r] \in {"submitting", "verifying", "result_unknown"}
             PROVE  bound' = r
  BY DEF BoundInv
<1>1. bound = r /\ run[r] # "failed"
  BY RunSteps DEF BoundInv, Terminal
<1>2. r # 0
  BY DEF BrowserRuns
<1>3. QED
  BY <1>1, <1>2, BoundSteps

(* The confirmation of a call that submits is one of its run, and it stays as the
   authorization has left it until the call says what it saw. *)
TokenInv ==
    /\ \A c \in Tokens : token[c].is = "unissued" => token[c].run = 0
    /\ \A w \in Workers : worker[w].at \in Running => token[worker[w].token].run = worker[w].run
    /\ \A w \in Workers : worker[w].at \in {"authorized", "clicking", "answered"} =>
          token[worker[w].token].is = "authorized"

LEMMA TokenSteps ==
    ASSUME TypeInv, [BrowserNext]_vars, NEW c \in Tokens
    PROVE  /\ token[c].is # "unissued" => token'[c].run = token[c].run /\ token'[c].is # "unissued"
           /\ token'[c].is = "unissued" => token[c].is = "unissued" /\ token'[c].run = token[c].run
           /\ \/ token[c].is \in {"unissued", "usable"} \/ token'[c].is = token[c].is
              \/ \E w \in Workers :
                    /\ worker[w].token = c
                    /\ \/ /\ CompleteAction(w) /\ worker[w].at = "answered"
                          /\ token'[c].is = Outcome(worker[w].answer)
                       \/ StoreResult(w) /\ worker[w].at = "storing" /\ token'[c].is = "drifted"
<1>1. token \in [Tokens -> Confirmation] /\ TokenType /\ CallInv
  BY DEF TypeInv, TokenType
<1>2. ASSUME NEW r \in BrowserRuns, NEW d \in Tokens, IssueConfirmation(r, d)
      PROVE  /\ token[c].is # "unissued" => token'[c].run = token[c].run /\ token'[c].is # "unissued"
             /\ token'[c].is = "unissued" => token[c].is = "unissued" /\ token'[c].run = token[c].run
             /\ token[c].is \in {"unissued", "usable"} \/ token'[c].is = token[c].is
  BY <1>1, <1>2 DEF IssueConfirmation, Confirmation
<1>3. ASSUME NEW r, Void(r)
      PROVE  /\ token[c].is # "unissued" => token'[c].run = token[c].run /\ token'[c].is # "unissued"
             /\ token'[c].is = "unissued" => token[c].is = "unissued" /\ token'[c].run = token[c].run
             /\ token[c].is \in {"unissued", "usable"} \/ token'[c].is = token[c].is
  BY <1>1, <1>3 DEF Void, Confirmation
<1>4. CASE token' = token
  BY <1>4
<1>5. CASE Others
  <2>1. \/ token' = token
        \/ \E r \in BrowserRuns, d \in Tokens : IssueConfirmation(r, d)
        \/ \E r : Void(r)
    BY <1>5 DEF Others, CreateRun, AttachRun, CheckEnvironment, ControlRun, AcquireLease, LeaseRunsOut,
         ReleaseLease, BindMapping, ResetExecution, InvalidateExecution, evidence
  <2>2. QED
    BY <1>2, <1>3, <1>4, <2>1
<1>6. ASSUME NEW w \in Workers, WorkerStep(w), token' # token
      PROVE  /\ token[c].is # "unissued" => token'[c].run = token[c].run /\ token'[c].is # "unissued"
             /\ token'[c].is = "unissued" => token[c].is = "unissued" /\ token'[c].run = token[c].run
             /\ \/ token[c].is \in {"unissued", "usable"} \/ token'[c].is = token[c].is
                \/ /\ worker[w].token = c
                   /\ \/ /\ CompleteAction(w) /\ worker[w].at = "answered"
                         /\ token'[c].is = Outcome(worker[w].answer)
                      \/ StoreResult(w) /\ worker[w].at = "storing" /\ token'[c].is = "drifted"
  <2> DEFINE d == worker[w].token
  <2>1. CASE d # c
    BY <1>1, <1>6, <2>1, WorkersChangeTokens
  <2>2. CASE d = c
    <3>1. CASE token[c].is = "usable" /\ token' = [token EXCEPT ![c].is = "authorized"]
      BY <1>1, <3>1 DEF Confirmation
    <3>2. CASE /\ CompleteAction(w) /\ token'[c].is = Outcome(worker[w].answer)
               /\ token'[c].run = token[c].run
      <4>1. Outcome(worker[w].answer) # "unissued" /\ worker[w].at = "answered"
        BY <3>2 DEF Outcome, CompleteAction
      <4>2. QED
        BY <2>2, <3>2, <4>1
    <3>3. CASE /\ StoreResult(w) /\ token'[c].is \in {"drifted", token[c].is}
               /\ token'[c].run = token[c].run
      <4>1. worker[w].at = "storing"
        BY <3>3 DEF StoreResult
      <4>2. token'[c].is = "unissued" => token[c].is = "unissued" /\ token'[c].run = token[c].run
        BY <3>3
      <4>3. QED
        BY <2>2, <3>3, <4>1, <4>2
    <3>4. QED
      BY <1>1, <1>6, <2>2, <3>1, <3>2, <3>3, WorkersChangeTokens
  <2>3. QED
    BY <2>1, <2>2
<1>7. CASE \E w \in Workers : WorkerStep(w)
  BY <1>4, <1>6, <1>7
<1>8. QED
  BY <1>4, <1>5, <1>7 DEF BrowserNext, Others, vars, evidence

LEMMA TokenKeeps ==
    ASSUME TypeInv, TypeInv', HoldInv, TokenInv, [BrowserNext]_vars
    PROVE  TokenInv'
<1>1. RowType /\ CallInv /\ token \in [Tokens -> Confirmation]
  BY DEF TypeInv, TokenType
<1>2. \A v \in Workers : worker[v].at \in Running => worker[v].token \in Tokens /\ worker[v].run \in BrowserRuns
  BY <1>1 DEF CallInv, CallOk, Running
<1>3. ASSUME NEW c \in Tokens, token'[c].is = "unissued" PROVE token'[c].run = 0
  BY <1>3, TokenSteps DEF TokenInv
<1>4. ASSUME NEW v \in Workers, worker'[v].at \in Running
      PROVE  \/ /\ worker[v].at \in Running
                /\ worker'[v].token = worker[v].token /\ worker'[v].run = worker[v].run
             \/ worker'[v].at = "requested" /\ token'[worker'[v].token].run = worker'[v].run
  <2>1. CASE worker' = worker
    BY <1>4, <2>1
  <2>2. CASE Others
    BY <1>1, <1>4, <2>2, OthersMoveNoCall DEF OthersKeep, Same
  <2>3. ASSUME NEW w \in Workers, WorkerStep(w), v # w
        PROVE  /\ worker[v].at \in Running
               /\ worker'[v].token = worker[v].token /\ worker'[v].run = worker[v].run
    BY <1>1, <1>4, <2>3, WorkerCalls DEF OthersKeep, Same
  <2>4. CASE WorkerStep(v)
    <3>1. CASE worker'[v].at = "requested"
      <4>1. ReadForSubmit(v, worker'[v].run, worker'[v].token)
        BY <2>4, <3>1, Arrivals
      <4>2. QED
        BY <3>1, <4>1 DEF ReadForSubmit
    <3>2. CASE worker'[v].at \in {"authorized", "clicking", "answered", "verifying", "storing"}
      BY <2>4, <3>2, WhoClicks DEF Running
    <3>3. QED
      BY <1>4, <3>1, <3>2 DEF Running
  <2>5. QED
    BY <2>1, <2>2, <2>3, <2>4 DEF BrowserNext, Others, vars
<1>5. ASSUME NEW v \in Workers, worker'[v].at \in Running PROVE token'[worker'[v].token].run = worker'[v].run
  <2>1. CASE /\ worker[v].at \in Running
             /\ worker'[v].token = worker[v].token /\ worker'[v].run = worker[v].run
    <3>1. /\ worker[v].token \in Tokens /\ worker[v].run # 0
          /\ token[worker[v].token].run = worker[v].run
      BY <1>2, <2>1 DEF TokenInv, BrowserRuns
    <3>2. token[worker[v].token].is # "unissued"
      BY <3>1 DEF TokenInv
    <3>3. QED
      BY <2>1, <3>1, <3>2, TokenSteps
  <2>2. QED
    BY <1>4, <1>5, <2>1
(* The call itself has not said yet what it saw, and no other holds it. *)
<1>6. ASSUME NEW v \in Workers, worker[v].at \in {"authorized", "clicking", "answered"},
             worker'[v].at \in {"authorized", "clicking", "answered"},
             worker'[v].token = worker[v].token
      PROVE  token'[worker'[v].token].is = "authorized"
  <2>1. worker[v].token \in Tokens /\ token[worker[v].token].is = "authorized"
    BY <1>2, <1>6 DEF TokenInv, Running
  <2>2. ASSUME NEW w \in Workers, worker[w].token = worker[v].token,
               CompleteAction(w) \/ StoreResult(w), worker[w].at \in {"answered", "storing"}
        PROVE  FALSE
    <3>1. w = v
      BY <1>6, <2>2 DEF HoldInv, Holding
    <3>2. worker'[w].at \notin {"authorized", "clicking", "answered"}
      BY <1>1, <2>2, CompleteMoves, StoreMoves
    <3>3. QED
      BY <1>6, <3>1, <3>2
  <2>3. QED
    BY <1>6, <2>1, <2>2, TokenSteps
<1>7. ASSUME NEW v \in Workers, worker'[v].at \in {"authorized", "clicking", "answered"}
      PROVE  token'[worker'[v].token].is = "authorized"
  <2>1. CASE worker' = worker
    BY <1>6, <1>7, <2>1
  <2>2. CASE Others
    BY <1>1, <1>6, <1>7, <2>2, OthersMoveNoCall DEF OthersKeep, Same
  <2>3. ASSUME NEW w \in Workers, WorkerStep(w), v # w PROVE token'[worker'[v].token].is = "authorized"
    BY <1>1, <1>6, <1>7, <2>3, WorkerCalls DEF OthersKeep, Same
  <2>4. CASE WorkerStep(v)
    <3>1. CASE worker'[v].at = "authorized"
      <4>1. worker[v].at = "requested" /\ worker'[v].token = worker[v].token
        BY <2>4, <3>1, WhoClicks
      <4>2. QED
        BY <2>4, <3>1, <4>1, WhoHolds DEF Holding
    <3>2. CASE worker'[v].at \in {"clicking", "answered"}
      BY <1>6, <2>4, <3>2, WhoClicks
    <3>3. QED
      BY <1>7, <3>1, <3>2
  <2>5. QED
    BY <2>1, <2>2, <2>3, <2>4 DEF BrowserNext, Others, vars
<1>8. QED
  BY <1>3, <1>5, <1>7 DEF TokenInv

(* Nothing that no mapping confirms is left on the platform, as long as no operator
   has stepped in and no run has gone on in spite of what a query of it found. *)

Calm  == ~interrupted /\ ~outrun
Clean == \A o \in Pending : written[o] = 0

(* What calls take for granted: before a click, when they saw that it had no
   effect, and when they go on to the next object. *)
NeedsClean(w) ==
    \/ worker[w].at = "clicking"
    \/ worker[w].at \in {"answered", "verifying", "storing"} /\ worker[w].answer \in {"error", "noeffect"}
    \/ worker[w].at \in {"releasing", "continuing"} /\ worker[w].fresh
    \/ worker[w].at = "closing" /\ worker[w].answer \in {"success", "drift"} /\ worker[w].fresh
    \/ /\ worker[w].at = "querying" /\ worker[w].answer = "noeffect"
       /\ run[worker[w].run] = "result_unknown"

(* Until then the execution stays with the run that clicked, and its evidence
   tells that something may have been created. *)
Traces ==
    /\ bound \in BrowserRuns /\ run[bound] \in {"submitting", "verifying", "result_unknown", "failed"}
    /\ ~noEffect[bound] /\ step[bound] # "prepareFailed"
    /\ \A w \in Workers : Owns(w) => worker[w].run # bound
    /\ \E c \in Tokens : token[c].run = bound /\ token[c].is \in {"authorized", "verified", "drifted", "unknown"}

CleanInv ==
    /\ \A o \in Objects : written[o] <= 1
    /\ \A o \in Pending : written[o] # 0 => o = FirstOf(Pending)
    /\ \A w \in Workers : NeedsClean(w) => Clean
    /\ ~Clean => Traces

(* Evidence of no effect is of a run that is looked into or over, and not of one
   a call has just seen the effect of. *)
SawEffect(w) ==
    \/ worker[w].at = "storing"
    \/ worker[w].at = "mapping" /\ worker[w].token # 0 /\ worker[w].answer = "drift"
    \/ worker[w].at = "closing" /\ worker[w].answer = "drift"

FoundInv ==
    /\ \A r \in BrowserRuns : noEffect[r] => run[r] \in {"verifying", "result_unknown", "failed", "succeeded"}
    /\ \A w \in Workers : worker[w].at = "querying" /\ worker[w].answer = "noeffect" =>
          run[worker[w].run] \in {"result_unknown", "failed", "succeeded"}
    /\ \A w \in Workers : SawEffect(w) /\ worker[w].fresh => ~noEffect[worker[w].run]

CalmInv == Calm => FoundInv /\ CleanInv

(* What these rest on. *)
WorkInv == /\ TypeInv /\ WrittenInv /\ SubmitInv /\ HoldInv
           /\ PhaseInv /\ HeldInv /\ PrepInv /\ BoundInv /\ TokenInv

LEMMA StaysCalm == TypeInv /\ [BrowserNext]_vars /\ Calm' => Calm
<1> SUFFICES ASSUME TypeInv, [BrowserNext]_vars, Calm' PROVE Calm
  OBVIOUS
<1>1. interrupted \in BOOLEAN /\ outrun \in BOOLEAN
  BY DEF TypeInv, RowType
<1>2. CASE Others
  <2>1. ~interrupted
    BY <1>2, OthersChangeRuns DEF Calm
  <2>2. outrun' = outrun
    BY <1>2 DEF Others, CreateRun, AttachRun, CheckEnvironment, ControlRun, AcquireLease, LeaseRunsOut,
         ReleaseLease, IssueConfirmation, BindMapping, ResetExecution, InvalidateExecution, world
  <2>3. QED
    BY <2>1, <2>2 DEF Calm
<1>3. ASSUME NEW w \in Workers, WorkerStep(w) PROVE Calm
  <2>1. interrupted' = interrupted
    BY <1>3, WorkersKeepBound
  <2>2. outrun => outrun'
    BY <1>1, <1>3, WorkerCases
       DEF Moving, Preparing, Submitting, Verifying, Leaving, Reconciling, BeginPrepare, ReadForReconcile,
           ReadForSubmit, Prepared, PrepareFails, AuthorizeAction, BeginSubmit, ClickFinal, CompleteAction,
           BeginVerify, StoreResult, ConfirmMapping, ReleaseRunLease, Continue, CloseRun, CallStops, Query,
           Reverify, LeavePartial, world
  <2>3. QED
    BY <2>1, <2>2 DEF Calm
<1>4. CASE UNCHANGED vars
  BY <1>4 DEF vars, world, Calm
<1>5. QED
  BY <1>2, <1>3, <1>4 DEF BrowserNext, Others

(* A call stays where it is, or makes the step. *)
LEMMA CallSteps ==
    ASSUME TypeInv, [BrowserNext]_vars, NEW v \in Workers
    PROVE  \/ WorkerStep(v)
           \/ /\ Same(worker'[v], worker[v])
              /\ worker'[v].fresh => worker[v].fresh
              /\ worker'[v].owner => worker[v].owner
<1>1. RowType /\ CallInv
  BY DEF TypeInv
<1>2. CASE Others
  BY <1>1, <1>2, OthersMoveNoCall DEF OthersKeep
<1>3. ASSUME NEW w \in Workers, WorkerStep(w), v # w PROVE OthersKeep({w}) /\ v \in Workers \ {w}
  BY <1>1, <1>3, WorkerCalls
<1>4. CASE UNCHANGED vars
  BY <1>4 DEF vars, Same
<1>5. QED
  BY <1>2, <1>3, <1>4 DEF BrowserNext, Others, OthersKeep

(* Evidence of no effect comes from the submit or from a query. *)
LEMMA NoEffectSteps ==
    ASSUME TypeInv, [BrowserNext]_vars, NEW r \in BrowserRuns, noEffect'[r], ~noEffect[r]
    PROVE  /\ run' = run
           /\ \E w \in Workers :
                 /\ worker[w].run = r /\ worker[w].answer = "noeffect"
                 /\ \/ StoreResult(w) /\ worker[w].at = "storing"
                    \/ Query(w) /\ worker[w].at = "querying" /\ run[r] = "result_unknown"
<1>1. noEffect \in [BrowserRuns -> BOOLEAN]
  BY DEF TypeInv, RowType
<1>2. noEffect' # noEffect
  OBVIOUS
<1>3. ~Others
  BY <1>2 DEF Others, CreateRun, AttachRun, CheckEnvironment, ControlRun, AcquireLease, LeaseRunsOut,
         ReleaseLease, IssueConfirmation, BindMapping, ResetExecution, InvalidateExecution, evidence
<1>4. ASSUME NEW w \in Workers, StoreResult(w)
      PROVE  /\ run' = run /\ worker[w].run = r /\ worker[w].answer = "noeffect" /\ worker[w].at = "storing"
  BY <1>1, <1>4 DEF StoreResult, R
<1>5. ASSUME NEW w \in Workers, Query(w)
      PROVE  /\ run' = run /\ worker[w].run = r /\ worker[w].answer = "noeffect" /\ worker[w].at = "querying"
             /\ run[r] = "result_unknown"
  <2>1. /\ run[worker[w].run] = "result_unknown"
        /\ noEffect' = [noEffect EXCEPT ![worker[w].run] = @ \/ (worker[w].answer = "noeffect")]
    BY <1>2, <1>5 DEF Query, R
  <2>2. worker[w].run = r /\ worker[w].answer = "noeffect"
    BY <1>1, <2>1
  <2>3. QED
    BY <1>5, <2>1, <2>2 DEF Query
<1>6. \E w \in Workers : StoreResult(w) \/ Query(w)
  BY <1>2, <1>3, WorkerCases
     DEF BrowserNext, Others, vars, evidence, Moving, Preparing, Submitting, Verifying, Leaving, Reconciling,
         BeginPrepare, ReadForReconcile, ReadForSubmit, Prepared, PrepareFails, AuthorizeAction, BeginSubmit,
         ClickFinal, CompleteAction, BeginVerify, ConfirmMapping, ReleaseRunLease, Continue, CloseRun,
         CallStops, Reverify, LeavePartial
<1>7. QED
  BY <1>4, <1>5, <1>6

(* Nobody finds, for a run, that a click had no effect while a call that knows its
   version is past that question. *)
LEMMA NotFoundNow ==
    ASSUME WorkInv, Calm, [BrowserNext]_vars, NEW v \in Workers, worker[v].fresh,
           \/ worker[v].at = "verifying"
           \/ worker[v].at = "storing" /\ (StoreResult(v) => worker[v].answer # "noeffect")
           \/ worker[v].at = "mapping" /\ worker[v].token # 0
           \/ worker[v].at = "closing" /\ worker[v].answer = "drift",
           ~noEffect[worker[v].run]
    PROVE  ~noEffect'[worker[v].run]
<1> DEFINE r == worker[v].run
<1>1. r \in BrowserRuns /\ TypeInv
  BY DEF WorkInv, TypeInv, CallInv, CallOk
<1>2. run[r] \in {"submitting", "verifying"}
  BY DEF WorkInv, PhaseInv, Expected
<1>3. ASSUME NEW w \in Workers, StoreResult(w), worker[w].at = "storing", worker[w].run = r,
             worker[w].answer = "noeffect"
      PROVE  FALSE
  <2>1. w # v
    BY <1>3
  <2>2. worker[v].at = "requested"
    BY <1>3, <2>1 DEF WorkInv, SubmitInv, Calm, Clicking
  <2>3. QED
    BY <2>2
<1>4. QED
  BY <1>1, <1>2, <1>3, NoEffectSteps

LEMMA FoundKeeps ==
    ASSUME WorkInv, TypeInv', Calm, Calm', FoundInv, [BrowserNext]_vars
    PROVE  FoundInv'
<1>1. /\ TypeInv /\ PhaseInv /\ HeldInv /\ SubmitInv /\ WrittenInv /\ RowType /\ CallInv
      /\ interrupted' = FALSE /\ outrun' = FALSE
  BY DEF WorkInv, TypeInv, Calm, RowType
<1>2. \A v \in Workers : worker[v].at # "idle" => worker[v].run \in BrowserRuns
  BY <1>1 DEF CallInv, CallOk
(* A run that is found to have had no effect does not go on. *)
<1>3. ASSUME NEW r \in BrowserRuns, run[r] \in {"verifying", "result_unknown", "failed", "succeeded"},
             run'[r] # run[r]
      PROVE  \/ run'[r] \in {"failed", "succeeded"}
             \/ run'[r] = "environment_check" /\ ~FoundNothing(r)
             \/ /\ run[r] = "verifying" /\ run'[r] = "partial"
                /\ \E w \in Workers : /\ worker[w].at = "closing" /\ worker[w].answer = "drift"
                                      /\ worker[w].run = r /\ worker[w].fresh
  BY <1>1, <1>3, RunSteps DEF Terminal
<1>4. ASSUME NEW r \in BrowserRuns, noEffect'[r]
      PROVE  run'[r] \in {"verifying", "result_unknown", "failed", "succeeded"}
  <2>1. CASE noEffect[r]
    <3>1. run[r] \in {"verifying", "result_unknown", "failed", "succeeded"} /\ FoundNothing(r)
      BY <2>1 DEF FoundInv, FoundNothing
    <3>2. ASSUME NEW w \in Workers, worker[w].at = "closing", worker[w].answer = "drift",
                 worker[w].run = r, worker[w].fresh
          PROVE  FALSE
      BY <2>1, <3>2 DEF FoundInv, SawEffect
    <3>3. QED
      BY <1>3, <3>1, <3>2
  <2>2. CASE ~noEffect[r]
    <3>1. PICK w \in Workers : /\ worker[w].run = r /\ run' = run
                               /\ worker[w].at = "storing" \/ run[r] = "result_unknown"
      BY <1>1, <1>4, <2>2, NoEffectSteps
    <3>2. worker[w].at = "storing" => run[r] = "verifying"
      BY <1>1, <3>1 DEF SubmitInv, Calm, Clicking, Reached
    <3>3. QED
      BY <3>1, <3>2
  <2>3. QED
    BY <2>1, <2>2
<1>5. ASSUME NEW v \in Workers, worker'[v].at = "querying", worker'[v].answer = "noeffect"
      PROVE  run'[worker'[v].run] \in {"result_unknown", "failed", "succeeded"}
  <2>1. CASE WorkerStep(v)
    <3>1. ReadForReconcile(v, worker'[v].run) /\ run[worker'[v].run] = "result_unknown"
      BY <1>1, <1>5, <2>1, Arrivals
    <3>2. QED
      BY <3>1 DEF ReadForReconcile
  <2>2. CASE Same(worker'[v], worker[v])
    <3>1. /\ worker[v].at = "querying" /\ worker[v].answer = "noeffect" /\ worker'[v].run = worker[v].run
          /\ worker[v].run \in BrowserRuns
      BY <1>2, <1>5, <2>2 DEF Same
    <3>2. run[worker[v].run] \in {"result_unknown", "failed", "succeeded"} /\ FoundNothing(worker[v].run)
      BY <3>1 DEF FoundInv, FoundNothing, R
    <3>3. QED
      BY <1>3, <3>1, <3>2
  <2>3. QED
    BY <1>1, <2>1, <2>2, CallSteps
<1>6. ASSUME NEW v \in Workers, SawEffect(v)', worker'[v].fresh PROVE ~noEffect'[worker'[v].run]
  <2>1. CASE Same(worker'[v], worker[v]) /\ worker[v].fresh
    <3>1. SawEffect(v) /\ worker'[v].run = worker[v].run /\ worker'[v].at = worker[v].at
      BY <1>6, <2>1 DEF SawEffect, Same
    <3>2. ~StoreResult(v) \/ worker[v].at # "storing"
      BY <1>1, <3>1, StoreMoves
    <3>3. ~noEffect[worker[v].run]
      BY <2>1, <3>1 DEF FoundInv
    <3>4. QED
      BY <2>1, <3>1, <3>2, <3>3, NotFoundNow DEF SawEffect
  <2>2. CASE WorkerStep(v)
    <3>1. CASE worker'[v].at = "storing"
      <4>1. worker[v].at = "verifying" /\ worker[v].fresh /\ worker'[v].run = worker[v].run
        BY <1>1, <2>2, <3>1, WhoClicks
      <4>2. run[worker[v].run] = "submitting" /\ worker[v].run \in BrowserRuns
        BY <1>1, <1>2, <4>1 DEF PhaseInv, Expected
      <4>3. ~noEffect[worker[v].run]
        BY <4>2 DEF FoundInv
      <4>4. QED
        BY <4>1, <4>3, NotFoundNow
    <3>2. CASE worker'[v].at = "mapping" /\ worker'[v].token # 0 /\ worker'[v].answer = "drift"
      <4>1. /\ worker'[v].run = worker[v].run /\ worker'[v].answer = worker[v].answer
            /\ worker'[v].token = worker[v].token
            /\ \/ worker[v].at = "storing" /\ Kept(v)
               \/ worker[v].at = "querying"
        BY <1>1, <2>2, <3>2, Arrivals
      <4>2. worker[v].at = "storing" /\ worker[v].fresh
        BY <1>1, <1>6, <3>2, <4>1 DEF Kept, CallInv, CallOk
      <4>3. ~noEffect[worker[v].run]
        BY <4>2 DEF FoundInv, SawEffect
      <4>4. QED
        BY <3>2, <4>1, <4>2, <4>3, NotFoundNow
    <3>3. CASE worker'[v].at = "closing" /\ worker'[v].answer = "drift"
      <4>1. ConfirmMapping(v) /\ worker[v].at = "mapping" /\ Kept(v)
        BY <1>1, <2>2, <3>3, Arrivals
      <4>2. worker[v].token # 0 /\ worker[v].answer = "drift" /\ worker[v].fresh
        BY <1>1, <1>6, <3>3, <4>1, DriftIsSubmitted DEF Kept
      <4>3. ~noEffect[worker[v].run]
        BY <4>1, <4>2 DEF FoundInv, SawEffect
      <4>4. QED
        BY <4>1, <4>2, <4>3, NotFoundNow DEF Kept
    <3>4. QED
      BY <1>6, <3>1, <3>2, <3>3 DEF SawEffect
  <2>3. QED
    BY <1>1, <1>6, <2>1, <2>2, CallSteps
<1>7. QED
  BY <1>4, <1>5, <1>6 DEF FoundInv

LEMMA NoReleaseWithTraces == ~(ResetExecution /\ Traces)
<1> SUFFICES ASSUME ResetExecution, Traces PROVE FALSE
  OBVIOUS
<1>1. SafeToReset(bound)
  BY DEF ResetExecution
<1>2. PICK c \in Tokens : token[c].run = bound /\ token[c].is \in {"authorized", "verified", "drifted", "unknown"}
  BY DEF Traces
<1>3. c \in Used(bound) /\ token[c].is # "failed"
  BY <1>2 DEF Used, Attempt
<1>4. QED
  BY <1>1, <1>3 DEF SafeToReset, Traces

LEMMA TracesKeep ==
    ASSUME WorkInv, Calm, Calm', CleanInv, ~Clean, [BrowserNext]_vars
    PROVE  Traces'
<1>1. /\ TypeInv /\ PhaseInv /\ HeldInv /\ SubmitInv /\ PrepInv /\ CallInv /\ Traces
      /\ interrupted' = FALSE /\ \A w \in Workers : ~NeedsClean(w)
  BY DEF WorkInv, TypeInv, Calm, CleanInv, RowType
<1>2. bound' = bound /\ bound \in BrowserRuns
  BY <1>1, BoundSteps, NoReleaseWithTraces DEF Traces, BrowserRuns
<1>3. run'[bound] \in {"submitting", "verifying", "result_unknown", "failed"}
  <2>1. run[bound] \in {"submitting", "verifying", "result_unknown", "failed"}
    BY <1>1 DEF Traces
  <2>2. ASSUME NEW w \in Workers, worker[w].fresh
        PROVE  /\ worker[w].at # "continuing"
               /\ worker[w].at = "closing" => worker[w].answer \notin {"success", "drift"}
    BY <1>1, <2>2 DEF NeedsClean
  <2>3. QED
    BY <1>1, <1>2, <2>1, <2>2, RunSteps DEF Terminal
<1>4. ~noEffect'[bound]
  <2>1. ASSUME NEW w \in Workers, worker[w].run = bound, worker[w].answer = "noeffect",
               worker[w].at = "storing" \/ (worker[w].at = "querying" /\ run[bound] = "result_unknown")
        PROVE  FALSE
    BY <1>1, <2>1 DEF NeedsClean
  <2>2. QED
    BY <1>1, <1>2, <2>1, NoEffectSteps DEF Traces
<1>5. step'[bound] # "prepareFailed"
  BY <1>1, <1>2, WhoFails DEF Traces
<1>6. ASSUME NEW w \in Workers, Owns(w)' PROVE worker'[w].run # bound
  <2>1. CASE Same(worker'[w], worker[w]) /\ (worker'[w].owner => worker[w].owner)
    BY <1>1, <1>6, <2>1 DEF Owns, Same, Traces
  <2>2. CASE WorkerStep(w)
    <3>1. BeginPrepare(w, worker'[w].run)
      BY <1>1, <1>6, <2>2, Arrivals DEF Owns
    <3>2. QED
      BY <1>1, <3>1 DEF BeginPrepare, Traces
  <2>3. QED
    BY <1>1, <2>1, <2>2, CallSteps
<1>7. \E c \in Tokens : /\ token'[c].run = bound
                        /\ token'[c].is \in {"authorized", "verified", "drifted", "unknown"}
  <2>1. PICK c \in Tokens : /\ token[c].run = bound
                            /\ token[c].is \in {"authorized", "verified", "drifted", "unknown"}
    BY <1>1 DEF Traces
  <2>2. ASSUME NEW w \in Workers, worker[w].at = "answered"
        PROVE  Outcome(worker[w].answer) \in {"verified", "unknown"}
    <3>1. worker[w].answer \in Answers /\ worker[w].answer \notin {"error", "noeffect"}
      BY <1>1, <2>2 DEF CallInv, Call, NeedsClean
    <3>2. QED
      BY <3>1 DEF Outcome, Answers
  <2>3. token'[c].is \in {"authorized", "verified", "drifted", "unknown"}
    BY <1>1, <2>1, <2>2, TokenSteps
  <2>4. token'[c].run = bound
    BY <1>1, <2>1, TokenSteps
  <2>5. QED
    BY <2>3, <2>4
<1>8. QED
  BY <1>2, <1>3, <1>4, <1>5, <1>6, <1>7 DEF Traces

(* A click that has an effect leaves its traces. *)
LEMMA TracesBegin ==
    ASSUME WorkInv, Calm, FoundInv, NEW w \in Workers, ClickFinal(w)
    PROVE  Traces'
<1>1. /\ TypeInv /\ SubmitInv /\ PrepInv /\ TokenInv /\ RowType /\ CallInv /\ ~interrupted
  BY DEF WorkInv, TypeInv, Calm
<1>2. /\ worker[w].at = "clicking" /\ OthersKeep({w}) /\ worker'[w].at = "answered"
      /\ UNCHANGED <<rows, run, evidence>>
  BY <1>1, ClickMoves DEF ClickFinal
<1>3. /\ worker[w].run \in BrowserRuns /\ worker[w].token \in Tokens
  BY <1>1, <1>2 DEF CallInv, CallOk, Running
<1>4. bound = worker[w].run /\ run[bound] = "submitting"
  BY <1>1, <1>2 DEF SubmitInv, Clicking, Reached
<1>5. ~noEffect[bound]
  BY <1>3, <1>4 DEF FoundInv
<1>6. step[bound] # "prepareFailed" /\ \A v \in Workers : Owns(v) => worker[v].run # bound
  BY <1>1, <1>3, <1>4 DEF PrepInv, Before
<1>7. token[worker[w].token].run = bound /\ token[worker[w].token].is = "authorized"
  BY <1>1, <1>2, <1>4 DEF TokenInv, Running
<1>8. ASSUME NEW v \in Workers, Owns(v)' PROVE worker'[v].run # bound
  <2>1. v # w
    BY <1>2, <1>8 DEF Owns
  <2>2. Owns(v) /\ worker'[v].run = worker[v].run
    BY <1>2, <1>8, <2>1 DEF OthersKeep, Same, Owns
  <2>3. QED
    BY <1>6, <2>2
<1>9. bound' = bound /\ run' = run /\ noEffect' = noEffect /\ step' = step /\ token' = token
  BY <1>2 DEF rows, evidence
<1>10. QED
  BY <1>3, <1>4, <1>5, <1>6, <1>7, <1>8, <1>9 DEF Traces

(* What is created and what is confirmed change by one call at a time. *)
LEMMA WrittenSteps ==
    ASSUME WorkInv, [BrowserNext]_vars
    PROVE  \/ written' = written /\ confirmed' = confirmed
           \/ \E w \in Workers :
                 /\ ClickFinal(w) /\ worker[w].at = "clicking" /\ worker'[w].at = "answered"
                 /\ worker'[w].answer \notin {"error", "noeffect"} /\ confirmed' = confirmed
                 /\ FirstOf(Pending) \in Pending
                 /\ written' = [written EXCEPT ![FirstOf(Pending)] = @ + 1]
           \/ \E w \in Workers :
                 /\ ConfirmMapping(w) /\ worker[w].object \in Pending /\ written[worker[w].object] # 0
                 /\ written' = written /\ confirmed' = confirmed \cup {worker[w].object}
<1>1. TypeInv /\ RowType /\ CallInv /\ WrittenInv /\ confirmed \subseteq Objects
  BY DEF WorkInv, TypeInv, RowType
<1>2. CASE Others
  BY <1>2 DEF Others, CreateRun, AttachRun, CheckEnvironment, ControlRun, AcquireLease, LeaseRunsOut,
         ReleaseLease, IssueConfirmation, BindMapping, ResetExecution, InvalidateExecution, rows, world
<1>3. ASSUME NEW w \in Workers, ClickFinal(w)
      PROVE  \/ written' = written /\ confirmed' = confirmed
             \/ /\ worker[w].at = "clicking" /\ worker'[w].at = "answered"
                /\ worker'[w].answer \notin {"error", "noeffect"} /\ confirmed' = confirmed
                /\ FirstOf(Pending) \in Pending
                /\ written' = [written EXCEPT ![FirstOf(Pending)] = @ + 1]
  <2>1. Pending # {} => FirstOf(Pending) \in Pending
    BY FirstIsOne DEF Pending
  <2>2. confirmed' = confirmed
    BY <1>3 DEF ClickFinal, rows
  <2>3. QED
    BY <1>1, <1>3, <2>1, <2>2, ClickMoves
<1>4. ASSUME NEW w \in Workers, ConfirmMapping(w)
      PROVE  /\ written' = written
             /\ \/ confirmed' = confirmed
                \/ /\ worker[w].object \in Pending /\ written[worker[w].object] # 0
                   /\ confirmed' = confirmed \cup {worker[w].object}
  <2>1. written' = written /\ worker[w].at = "mapping"
    BY <1>4 DEF ConfirmMapping, world
  <2>2. worker[w].answer \in {"success", "drift"} /\ CallSaw(w)
    BY <1>1, <2>1 DEF CallInv, CallOk, WrittenInv
  <2>3. written[worker[w].object] # 0
    BY <2>1, <2>2 DEF CallSaw, Saw
  <2>4. QED
    BY <1>1, <1>4, <2>1, <2>3, ConfirmMoves
<1>5. ASSUME NEW w \in Workers, WorkerStep(w), ~ClickFinal(w), ~ConfirmMapping(w)
      PROVE  written' = written /\ confirmed' = confirmed
  BY <1>5, WorkerCases
     DEF Moving, Preparing, Submitting, Verifying, Leaving, Reconciling, BeginPrepare, ReadForReconcile,
         ReadForSubmit, Prepared, PrepareFails, AuthorizeAction, BeginSubmit, CompleteAction,
         BeginVerify, StoreResult, ReleaseRunLease, Continue, CloseRun, CallStops, Query,
         Reverify, LeavePartial, rows, world
<1>6. CASE UNCHANGED vars
  BY <1>6 DEF vars, rows, world
<1>7. QED
  BY <1>2, <1>3, <1>4, <1>5, <1>6 DEF BrowserNext, Others

(* Whoever gets to where it takes the platform to be clean has made sure of it. *)
LEMMA CleanArrives ==
    ASSUME WorkInv, Calm, CleanInv, NEW v \in Workers, WorkerStep(v), NeedsClean(v)', confirmed' = confirmed
    PROVE  Clean
<1>1. TypeInv /\ RowType /\ CallInv /\ SubmitInv
  BY DEF WorkInv, TypeInv
<1>2. NeedsClean(v) => Clean
  BY DEF CleanInv
<1>3. CASE worker'[v].at = "clicking"
  <2>1. worker[v].at = "authorized" /\ worker[v].fresh
    BY <1>1, <1>3, WhoClicks
  <2>2. run[bound] = "awaiting_confirmation"
    BY <1>1, <2>1 DEF SubmitInv
  <2>3. QED
    BY <2>2 DEF CleanInv, Traces
<1>4. CASE worker'[v].at \in {"answered", "verifying", "storing"} /\ worker'[v].answer \in {"error", "noeffect"}
  <2>1. \/ worker[v].at = "clicking"
        \/ worker[v].at \in {"answered", "verifying"} /\ worker'[v].answer = worker[v].answer
    BY <1>1, <1>4, WhoClicks
  <2>2. QED
    BY <1>2, <1>4, <2>1 DEF NeedsClean
(* The mapping is not confirmed: that is another case. *)
<1>5. ASSUME ConfirmMapping(v),
             \/ worker'[v].at \in {"releasing", "continuing"}
             \/ worker'[v].at = "closing" /\ worker'[v].answer \in {"success", "drift"}
      PROVE  FALSE
  <2>1. worker[v].object \in Pending /\ confirmed' = confirmed \cup {worker[v].object}
    BY <1>1, <1>5, ConfirmMoves
  <2>2. QED
    BY <2>1 DEF Pending
<1>6. CASE worker'[v].at \in {"releasing", "continuing"} /\ worker'[v].fresh
  <2>1. worker[v].at = "releasing" /\ Kept(v)
    BY <1>1, <1>5, <1>6, Arrivals
  <2>2. QED
    BY <1>2, <1>6, <2>1 DEF Kept, NeedsClean
<1>7. CASE worker'[v].at = "closing" /\ worker'[v].answer \in {"success", "drift"}
  BY <1>1, <1>5, <1>7, Arrivals
<1>8. CASE worker'[v].at = "querying" /\ worker'[v].answer = "noeffect"
  <2>1. written[FirstOf(Pending)] = 0
    BY <1>1, <1>8, Arrivals
  <2>2. QED
    BY <2>1 DEF CleanInv, Clean
<1>9. QED
  BY <1>3, <1>4, <1>6, <1>7, <1>8 DEF NeedsClean

LEMMA CleanKeeps ==
    ASSUME WorkInv, TypeInv', Calm, Calm', FoundInv, CleanInv, [BrowserNext]_vars
    PROVE  CleanInv'
<1>1. /\ TypeInv /\ PhaseInv /\ HeldInv /\ SubmitInv /\ BoundInv /\ RowType /\ CallInv
      /\ written \in [Objects -> Nat] /\ confirmed \subseteq Objects
      /\ \A v \in Workers : worker[v].at # "idle" => worker[v].run \in BrowserRuns
  BY DEF WorkInv, TypeInv, RowType, CallInv, CallOk
(* A call that stays needs no more than before. *)
<1>2. ASSUME NEW v \in Workers, Same(worker'[v], worker[v]), worker'[v].fresh => worker[v].fresh, NeedsClean(v)'
      PROVE  NeedsClean(v)
  <2>1. CASE worker'[v].at = "querying" /\ worker'[v].answer = "noeffect"
             /\ run'[worker'[v].run] = "result_unknown"
    <3>1. /\ worker[v].at = "querying" /\ worker[v].answer = "noeffect" /\ worker'[v].run = worker[v].run
          /\ worker[v].run \in BrowserRuns
      BY <1>1, <1>2, <2>1 DEF Same
    <3>2. run[worker[v].run] \in {"result_unknown", "failed", "succeeded"}
      BY <3>1 DEF FoundInv
    <3>3. run[worker[v].run] = "result_unknown"
      BY <1>1, <2>1, <3>1, <3>2, RunSteps DEF Terminal
    <3>4. QED
      BY <3>1, <3>3 DEF NeedsClean
  <2>2. CASE ~(worker'[v].at = "querying" /\ worker'[v].answer = "noeffect"
               /\ run'[worker'[v].run] = "result_unknown")
    BY <1>2, <2>2 DEF NeedsClean, Same
  <2>3. QED
    BY <2>1, <2>2
<1>3. CASE written' = written /\ confirmed' = confirmed
  <2>1. Pending' = Pending /\ Clean' = Clean
    BY <1>3 DEF Pending, Clean
  <2>2. ASSUME NEW v \in Workers, NeedsClean(v)' PROVE Clean
    BY <1>1, <1>2, <1>3, <2>2, CallSteps, CleanArrives DEF CleanInv
  <2>3. ~Clean => Traces'
    BY TracesKeep
  <2>4. \A o \in Objects : written'[o] <= 1
    BY <1>3 DEF CleanInv
  <2>5. \A o \in Pending' : written'[o] # 0 => o = FirstOf(Pending')
    BY <1>3, <2>1 DEF CleanInv
  <2>6. QED
    BY <2>1, <2>2, <2>3, <2>4, <2>5 DEF CleanInv
<1>4. ASSUME NEW w \in Workers, ClickFinal(w), worker[w].at = "clicking", worker'[w].at = "answered",
             worker'[w].answer \notin {"error", "noeffect"}, confirmed' = confirmed,
             FirstOf(Pending) \in Pending,
             written' = [written EXCEPT ![FirstOf(Pending)] = @ + 1]
      PROVE  CleanInv'
  <2>1. Clean /\ Pending' = Pending /\ Pending \subseteq Objects
    BY <1>4 DEF CleanInv, NeedsClean, Pending
  <2>2. \A o \in Objects : written'[o] = IF o = FirstOf(Pending) THEN 1 ELSE written[o]
    BY <1>1, <1>4, <2>1 DEF Clean
  <2>3. \A o \in Objects : written'[o] <= 1
    BY <2>2 DEF CleanInv
  <2>4. \A o \in Pending' : written'[o] # 0 => o = FirstOf(Pending')
    BY <2>1, <2>2 DEF Clean
  <2>5. bound = worker[w].run /\ run[bound] = "submitting"
    BY <1>4 DEF WorkInv, SubmitInv, Clicking, Reached, Calm
  <2>6. ASSUME NEW v \in Workers, NeedsClean(v)' PROVE FALSE
    <3>1. v # w
      BY <1>4, <2>6 DEF NeedsClean
    <3>2. Same(worker'[v], worker[v]) /\ (worker'[v].fresh => worker[v].fresh)
      BY <1>1, <1>4, <3>1, ClickMoves DEF OthersKeep
    <3>3. NeedsClean(v) /\ ~Clicking(worker[v])
      BY <1>2, <1>4, <2>6, <3>1, <3>2 DEF WorkInv, SubmitInv, Clicking, Calm
    <3>4. run[worker[v].run] \in {"verifying", "result_unknown"} /\ worker[v].run \in BrowserRuns
      BY <1>1, <3>3 DEF NeedsClean, PhaseInv, Expected, Clicking
    <3>5. bound = worker[v].run
      BY <1>1, <3>4 DEF BoundInv
    <3>6. QED
      BY <2>5, <3>4, <3>5
  <2>7. Traces'
    BY <1>4, TracesBegin
  <2>8. QED
    BY <2>3, <2>4, <2>6, <2>7 DEF CleanInv
(* The object that is confirmed is the only one there was without a mapping. *)
<1>5. ASSUME NEW o \in Pending, written[o] # 0, written' = written, confirmed' = confirmed \cup {o}
      PROVE  CleanInv'
  <2>1. Pending' = Pending \ {o} /\ Pending \subseteq Objects
    BY <1>5 DEF Pending
  <2>2. \A p \in Pending' : written'[p] = 0
    BY <1>5, <2>1 DEF CleanInv
  <2>3. Clean'
    BY <2>2 DEF Clean
  <2>4. \A p \in Objects : written'[p] <= 1
    BY <1>5 DEF CleanInv
  <2>5. QED
    BY <2>2, <2>3, <2>4 DEF CleanInv
<1>6. QED
  BY <1>3, <1>4, <1>5, WrittenSteps

LEMMA CalmKeeps == WorkInv /\ TypeInv' /\ CalmInv /\ [BrowserNext]_vars => CalmInv'
<1> SUFFICES ASSUME WorkInv, TypeInv', CalmInv, [BrowserNext]_vars, Calm' PROVE FoundInv' /\ CleanInv'
  BY DEF CalmInv
<1>1. Calm /\ FoundInv /\ CleanInv
  BY StaysCalm DEF WorkInv, CalmInv
<1>2. QED
  BY <1>1, FoundKeeps, CleanKeeps
-----------------------------------------------------------------------------
(* The theorems. *)

BrowserInv ==
    /\ TypeInv /\ WrittenInv /\ SubmitInv /\ ConfirmedInv
    /\ PhaseInv /\ HeldInv /\ PrepInv /\ BoundInv /\ TokenInv /\ CalmInv

LEMMA BrowserStart == Init => BrowserInv
<1> SUFFICES ASSUME Init PROVE BrowserInv
  OBVIOUS
<1>1. /\ confirmed = {} /\ execution = "pending" /\ interrupted = FALSE
      /\ \A r \in BrowserRuns : run[r] = "absent" /\ held[r] = "no" /\ step[r] = "none" /\ ~noEffect[r]
      /\ \A w \in Workers : worker[w].at = "idle" /\ ~worker[w].fresh
      /\ \A o \in Objects : written[o] = 0
      /\ \A c \in Tokens : token[c].run = 0
  BY DEF Init, BrowserInit, Free
<1>2. WrittenInv
  BY <1>1 DEF WrittenInv, CallSaw, Saw
<1>3. SubmitInv /\ PhaseInv /\ HeldInv /\ BoundInv
  BY <1>1 DEF SubmitInv, Clicking, PhaseInv, HeldInv, BoundInv
<1>4. HoldInv /\ PrepInv /\ TokenInv
  BY <1>1 DEF HoldInv, Holding, PrepInv, Prepares, Owns, TokenInv, Running
<1>5. Creations = {}
  BY <1>1 DEF Creations
<1>6. SpentInv
  BY <1>5, SpentIsFinite, FS_EmptySet, FS_CardinalityType DEF SpentInv
<1>7. FoundInv
  BY <1>1 DEF FoundInv
<1>8. CleanInv
  BY <1>1 DEF CleanInv, Clean, Pending
<1>9. QED
  BY <1>2, <1>3, <1>4, <1>6, <1>7, <1>8, TypeStart DEF BrowserInv, ConfirmedInv, CalmInv

LEMMA BrowserKeeps == BrowserInv /\ [BrowserNext]_vars => BrowserInv'
<1> SUFFICES ASSUME BrowserInv, [BrowserNext]_vars PROVE BrowserInv'
  OBVIOUS
<1>1. /\ TypeInv /\ WrittenInv /\ SubmitInv /\ ConfirmedInv /\ HoldInv
      /\ PhaseInv /\ HeldInv /\ PrepInv /\ BoundInv /\ TokenInv /\ CalmInv /\ WorkInv
  BY DEF BrowserInv, ConfirmedInv, WorkInv
<1>2. TypeInv'
  BY <1>1, TypeKeeps
<1>3. WrittenInv'
  BY <1>1, <1>2, WrittenKeeps
<1>4. SubmitInv'
  <2>1. CASE UNCHANGED vars
    BY <1>1, <2>1 DEF vars, rows, world, SubmitInv, Clicking, Reached
  <2>2. QED
    BY <1>1, <2>1, OthersKeepSubmit, WorkersKeepSubmit DEF BrowserNext, Others
<1>5. ConfirmedInv'
  BY <1>1, HoldKeeps, SpentKeeps DEF ConfirmedInv
<1>6. PhaseInv' /\ HeldInv'
  BY <1>1, <1>2, PhaseKeeps, HeldKeeps
<1>7. PrepInv' /\ BoundInv' /\ TokenInv'
  BY <1>1, <1>2, PrepKeeps, BoundKeeps, TokenKeeps
<1>8. CalmInv'
  BY <1>1, <1>2, CalmKeeps
<1>9. QED
  BY <1>2, <1>3, <1>4, <1>5, <1>6, <1>7, <1>8 DEF BrowserInv

LEMMA BrowserAlways == Spec => []BrowserInv
BY BrowserStart, BrowserKeeps, PTL DEF Spec

(* The rows of a run and of its execution stay in the states the code knows, and
   only a pending execution is without a run. *)
THEOREM BrowserTypeCorrect == Spec => []BrowserType
<1>1. BrowserInv => BrowserType
  BY DEF BrowserInv, TypeInv, RowType, RunType, TokenType, CallInv, BrowserType
<1>2. QED
  BY <1>1, BrowserAlways, PTL

(* Two submits never get past the transition to submitting at a time, unless an
   operator takes a run away from one. *)
THEOREM SubmitsOneByOne == Spec => []OneSubmitAtATime
<1>1. BrowserInv => OneSubmitAtATime
  <2> SUFFICES ASSUME BrowserInv, ~interrupted
               PROVE  Cardinality({w \in Workers : worker[w].at \in {"clicking", "answered"}}) <= 1
    BY DEF OneSubmitAtATime
  <2> DEFINE C == {w \in Workers : worker[w].at \in {"clicking", "answered"}}
  <2>1. \A v, w \in C : v = w
    BY DEF BrowserInv, SubmitInv, Clicking
  <2>2. C = {} \/ \E w \in C : C = {w}
    BY <2>1
  <2> HIDE DEF C
  <2>3. Cardinality(C) <= 1
    BY <2>2, FS_EmptySet, FS_Singleton
  <2>4. QED
    BY <2>3 DEF C
<1>2. QED
  BY <1>1, BrowserAlways, PTL

(* Who holds the version of a run is never refused a transition of it: its step
   tells the state the run is in, operators and reconciliations included. *)
THEOREM TransitionsFollowTheTable == Spec => []TransitionsAllowed
<1>1. ASSUME BrowserInv, NEW w \in Workers, worker[w].fresh, worker[w].at \in Transitions
      PROVE  NextState(worker[w]) \in CanTransition[run[R(w)]]
  <2> DEFINE s == run[worker[w].run]
  <2>1. s \in Expected(worker[w])
    BY <1>1 DEF BrowserInv, PhaseInv
  <2>2. worker[w].answer \in Answers
    BY <1>1 DEF BrowserInv, TypeInv, CallInv, Call
  <2> HIDE DEF s
  <2>3. CASE worker[w].at = "preparing"
    <3>1. s = "preparing" /\ NextState(worker[w]) = "awaiting_confirmation"
      BY <2>1, <2>3 DEF Expected, NextState
    <3>2. QED
      BY <3>1 DEF s, R, CanTransition, RunState
  <2>4. CASE worker[w].at = "authorized"
    <3>1. s = "awaiting_confirmation" /\ NextState(worker[w]) = "submitting"
      BY <2>1, <2>4 DEF Expected, NextState
    <3>2. QED
      BY <3>1 DEF s, R, CanTransition, RunState
  <2>5. CASE worker[w].at = "verifying"
    <3>1. s = "submitting" /\ NextState(worker[w]) = "verifying"
      BY <2>1, <2>5 DEF Expected, NextState
    <3>2. QED
      BY <3>1 DEF s, R, CanTransition, RunState
  <2>6. CASE worker[w].at \in {"continuing", "rechecked"}
    <3>1. s \in {"verifying", "result_unknown", "partial"} /\ NextState(worker[w]) = "environment_check"
      BY <2>1, <2>6 DEF Expected, NextState
    <3>2. QED
      BY <3>1 DEF s, R, CanTransition, RunState, Terminal
  <2>7. CASE worker[w].at = "closing"
    <3>1. /\ NextState(worker[w]) = Ended(worker[w].answer)
          /\ s \in IF worker[w].answer \in {"lost", "unknown"} THEN {"submitting"}
                   ELSE IF worker[w].answer = "error" THEN {"preparing", "submitting", "verifying"}
                   ELSE IF worker[w].answer = "drift" THEN {"verifying"} ELSE {"verifying", "result_unknown"}
      BY <2>1, <2>7 DEF Expected, NextState
    <3>2. \/ s = "submitting" /\ NextState(worker[w]) \in {"result_unknown", "failed"}
          \/ s = "preparing" /\ NextState(worker[w]) = "failed"
          \/ s = "verifying" /\ NextState(worker[w]) \in {"failed", "partial", "succeeded"}
          \/ s = "result_unknown" /\ NextState(worker[w]) \in {"failed", "succeeded"}
      BY <2>2, <3>1 DEF Ended, Answers
    <3>3. QED
      BY <3>2 DEF s, R, CanTransition, RunState, Terminal
  <2>8. QED
    BY <1>1, <2>3, <2>4, <2>5, <2>6, <2>7 DEF Transitions
<1>2. BrowserInv => TransitionsAllowed
  BY <1>1 DEF TransitionsAllowed
<1>3. QED
  BY <1>2, BrowserAlways, PTL

(* Nothing is created twice, whatever workers die, results are unknown, and runs
   are released for another: the condition is the one the property states. *)
THEOREM CreatedAtMostOnce == Spec => []ObjectCreatedOnce
<1>1. BrowserInv => ObjectCreatedOnce
  BY DEF BrowserInv, CalmInv, CleanInv, Calm, ObjectCreatedOnce
<1>2. QED
  BY <1>1, BrowserAlways, PTL

(* A run releases its execution only when nothing it created is left without a
   mapping. *)
THEOREM ReleasesAreClean == Spec => ReleasedWhenClean
<1>1. ASSUME BrowserInv, [BrowserNext]_vars, ~interrupted, ~outrun, bound # 0, bound' # bound
      PROVE  \A o \in Pending : written[o] = 0
  <2>1. ResetExecution
    BY <1>1, BoundSteps DEF BrowserInv
  <2>2. Clean
    BY <1>1, <2>1, NoReleaseWithTraces DEF BrowserInv, CalmInv, CleanInv, Calm
  <2>3. QED
    BY <2>2 DEF Clean
<1>2. QED
  BY <1>1, BrowserAlways, PTL DEF Spec, ReleasedWhenClean

(* What is recorded as succeeded has been confirmed and created. *)
THEOREM SuccessIsOnThePlatform == Spec => []SuccessIsWritten
<1>1. BrowserInv => SuccessIsWritten
  BY DEF BrowserInv, WrittenInv, SuccessIsWritten, MappedConfirmed
<1>2. QED
  BY <1>1, BrowserAlways, PTL

(* No more is created than confirmations were consumed, operators included. *)
THEOREM CreationsAreConfirmed == Spec => []EachCreationConfirmed
<1>1. BrowserInv => EachCreationConfirmed
  <2> SUFFICES ASSUME BrowserInv PROVE Cardinality(Creations) <= Cardinality(Consumed)
    BY DEF EachCreationConfirmed, Creations, Consumed
  <2>1. IsFiniteSet(Creations) /\ Cardinality(Creations) <= Cardinality(Spent)
    BY DEF BrowserInv, ConfirmedInv, SpentInv
  <2>2. Spent \subseteq Consumed
    BY DEF Spent
  <2>3. Cardinality(Spent) <= Cardinality(Consumed)
    BY <2>2, SpentIsFinite, FS_Subset
  <2>4. QED
    BY <2>1, <2>3, SpentIsFinite, FS_CardinalityType
<1>2. QED
  BY <1>1, BrowserAlways, PTL
=============================================================================
