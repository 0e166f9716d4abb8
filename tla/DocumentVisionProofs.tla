------------------------ MODULE DocumentVisionProofs ------------------------
(* Theorems about the visual fallback of a document, for any number of
   attempts, page ranges, execution attempts of the jobs and faults, and about
   the composition of the domains in PlatformJobs. *)
EXTENDS PlatformJobs, LeasedJobProofs, WellFoundedInduction

VisionState == {"none", "failed", "unsure", "partial", "succeeded"} \cup InWork
TaskState   == {"absent", "prepared", "submitting", "submitted", "unknown", "failed", "completed"}
Settled     == TaskState \ {"absent", "prepared"}
HandSteps   == {"opening", "submitting", "sent", "unsent", "doubting", "polling", "storing"}

RowType ==
    /\ vision \in VisionState
    /\ attempt \in 0..AttemptCount
    /\ task \in [Tasks -> TaskState]
    /\ recon \in [Tasks -> {"none", "accepted?", "refused?", "rejected", "applied",
                            "scheduled", "refused"}]
    /\ ready \in SUBSET Nat /\ sent \in [Tasks -> Nat]
    /\ hand \in [Runs -> 0..TaskCount]
    /\ last \in 0..JobCount
    /\ starter \in {"idle", "starting", "scheduling"}
    /\ canceller \in {"idle", "marking"} /\ reconciler \in {"idle", "failed", "unsure"}

(* Tasks exist from the start of their attempt, a run is past its first look at
   the document only in an attempt that was started, and has a task in hand. *)
AttemptInv ==
    /\ attempt = 0 => vision = "none"
    /\ starter = "starting" => attempt < AttemptCount
    /\ starter = "scheduling" => attempt > 0
    /\ \A t \in Tasks : t[1] > attempt => task[t] = "absent"
    /\ \A r \in Runs : /\ pc[r] \in Steps => attempt > 0 /\ Mine(r) <= attempt
                       /\ pc[r] \in HandSteps => hand[r] \in 1..TaskCount /\ task[InHand(r)] # "absent"

(* The intent is recorded before the call, by one run only. *)
SubmitInv ==
    /\ \A t \in Tasks : sent[t] <= 1 /\ (sent[t] = 1 => task[t] \in Settled)
    /\ \A r \in Runs : pc[r] = "submitting" => task[InHand(r)] \in Settled /\ sent[InHand(r)] = 0
    /\ \A r, q \in Runs : pc[r] = "submitting" /\ pc[q] = "submitting" /\ InHand(r) = InHand(q) => r = q

(* What a run has read of the pages holds until a client selects them anew, and
   then its attempt is no longer that of the document. *)
StoreInv ==
    /\ \A r \in Runs : pc[r] = "whole" /\ Mine(r) = attempt => Selected(attempt) \subseteq ready
    /\ SuccessIsStored

DomainInv == RowType /\ AttemptInv /\ SubmitInv /\ StoreInv /\ ScheduledHasJob

VisionInv == LeasedInv(Steps) /\ DomainInv
-----------------------------------------------------------------------------
(* The numbering of the jobs. *)

LEMMA Quotient ==
    ASSUME NEW n \in Nat \ {0}, NEW a \in Nat, NEW x \in 0..(a * n - 1)
    PROVE  x \div n \in 0..(a - 1)
<1>1. x \div n \in Nat /\ (x \div n) * n <= x
  OBVIOUS
<1>2. ASSUME x \div n >= a PROVE FALSE
  <2>1. (x \div n) * n >= a * n
    BY <1>1, <1>2
  <2>2. QED
    BY <1>1, <2>1
<1>3. QED
  BY <1>1, <1>2

LEMMA AttemptOfJob == ASSUME NEW j \in JobIds PROVE AttemptOf(j) \in 1..AttemptCount
<1>1. CASE j <= AttemptCount
  BY <1>1, VisionAssumption DEF AttemptOf, JobIds
<1>2. CASE j > AttemptCount
  <2>1. j - AttemptCount - 1 \in 0..(AttemptCount * TaskCount - 1)
    BY <1>2, VisionAssumption DEF JobIds
  <2>2. (j - AttemptCount - 1) \div TaskCount \in 0..(AttemptCount - 1)
    BY <2>1, Quotient, VisionAssumption
  <2>3. QED
    BY <1>2, <2>2, VisionAssumption DEF AttemptOf, JobIds
<1>3. QED
  BY <1>1, <1>2, VisionAssumption DEF JobIds

LEMMA JobOfATask == ASSUME NEW t \in Tasks PROVE JobOfTask(t) \in JobIds
<1>1. t[1] \in 1..AttemptCount /\ t[2] \in 1..TaskCount
  BY DEF Tasks
<1>2. (t[1] - 1) * TaskCount <= (AttemptCount - 1) * TaskCount /\ 0 <= (t[1] - 1) * TaskCount
  BY <1>1, VisionAssumption
<1>3. JobCount = AttemptCount + (AttemptCount - 1) * TaskCount + TaskCount
  BY VisionAssumption
<1>4. (t[1] - 1) * TaskCount \in Int /\ (AttemptCount - 1) * TaskCount \in Int
  BY <1>1, VisionAssumption
<1>5. QED
  BY <1>1, <1>2, <1>3, <1>4, VisionAssumption DEF JobOfTask, JobIds

LEMMA MineIs == ASSUME NEW r \in Runs PROVE Mine(r) \in 1..AttemptCount
BY RunIs, AttemptOfJob DEF Mine

LEMMA TaskInHand ==
    ASSUME NEW r \in Runs, hand[r] \in 1..TaskCount PROVE InHand(r) \in Tasks
BY MineIs DEF InHand, Tasks

(* The tasks of a run are looked at in their order. *)
LEMMA Smallest == ASSUME NEW S \in SUBSET Nat, S # {} PROVE \E i \in S : \A k \in S : i <= k
<1>1. PICK i \in S : \A k \in S : <<k, i>> \notin OpToRel(<, Nat)
  BY NatLessThanWellFounded, WFMin, Zenon
<1>2. \A k \in S : ~(k < i)
  BY <1>1 DEF OpToRel
<1>3. QED
  BY <1>2

LEMMA FirstExists ==
    ASSUME NEW S \in SUBSET (1..TaskCount), S # {}
    PROVE  \E i \in 1..TaskCount : i \in S /\ \A k \in 1..(i - 1) : k \notin S
<1>1. PICK i \in S : \A k \in S : i <= k
  BY Smallest
<1>2. QED
  BY <1>1

LEMMA NoReschedule == "reschedule" \notin Steps
BY DEF Steps
-----------------------------------------------------------------------------
LEMMA VisionStart == Init => VisionInv
<1> SUFFICES ASSUME Init PROVE VisionInv
  OBVIOUS
<1>1. LeasedInv(Steps)
  BY LeasedStart DEF Init
<1>2. \A r \in Runs : pc[r] = "off" /\ pc[r] \notin Steps \cup HandSteps
  BY DEF Init, LeasedInit, Steps, HandSteps
<1>3. 0 \in 0..AttemptCount /\ 0 \in 0..TaskCount /\ 0 \in 0..JobCount
  BY VisionAssumption, LeasedAssumption
<1>4. RowType
  BY <1>3 DEF Init, VisionInit, RowType, VisionState, TaskState
<1>5. AttemptInv /\ SubmitInv /\ StoreInv /\ ScheduledHasJob
  BY <1>2 DEF Init, VisionInit, AttemptInv, SubmitInv, StoreInv, ScheduledHasJob, SuccessIsStored
<1>6. QED
  BY <1>1, <1>4, <1>5 DEF VisionInv, DomainInv

(* Where the runs are after one of them has moved. *)
LEMMA OneRunMoves ==
    ASSUME LeasedInv(Steps), NEW r \in Runs, NEW label, Go(r, label)
    PROVE  \A q \in Runs : pc'[q] = IF q = r THEN label ELSE pc[q]
BY DEF Go, LeasedInv, LeasedType

(* A job that exists goes on existing. *)
LEMMA JobsStay ==
    ASSUME VisionInv, \A j \in JobIds : status[j] # "absent" => status'[j] # "absent", recon' = recon
    PROVE  ScheduledHasJob'
BY JobOfATask DEF ScheduledHasJob, VisionInv, DomainInv

(* Steps of a handler that neither take a task in hand, nor record the intent to
   submit it, nor call the parser: they may move the task in hand on, store more
   pages and change what the document shows. *)
LEMMA HandlerKeeps ==
    ASSUME VisionInv, NEW r \in Runs, Idle, UNCHANGED <<jobRow, sent, hand>>, UNCHANGED faults \/ Fault,
           NEW label \in {"off"} \cup Returned \cup (Steps \ {"submitting"}), Go(r, label),
           label \in Steps => pc[r] \in Steps \/ Mine(r) = attempt,
           label \in HandSteps => pc[r] \in HandSteps,
           label = "whole" => Selected(Mine(r)) \subseteq ready,
           ready' \in SUBSET Nat, ready \subseteq ready',
           \/ task' = task
           \/ pc[r] \in HandSteps /\ \E s \in Settled : task' = [task EXCEPT ![InHand(r)] = s],
           vision' \in VisionState, attempt = 0 => vision' = "none",
           vision' = "succeeded" => vision = "succeeded" \/ Selected(attempt) \subseteq ready
    PROVE  VisionInv'
<1> USE DEF VisionInv, DomainInv
<1>1. LeasedInv(Steps)'
  BY HandlerStepKeeps, NoReschedule
<1>2. \A q \in Runs : pc'[q] = IF q = r THEN label ELSE pc[q]
  BY OneRunMoves
<1>3. /\ UNCHANGED <<attempt, recon, last, clients, sent, hand>>
      /\ \A q \in Runs : InHand(q)' = InHand(q) /\ Mine(q)' = Mine(q)
  BY DEF Idle, InHand, Mine, AttemptOf
<1>4. pc[r] \in HandSteps => InHand(r) \in Tasks /\ task[InHand(r)] # "absent"
  BY TaskInHand DEF AttemptInv
<1>5. RowType'
  BY <1>3, <1>4 DEF RowType, Settled, clients
<1>6. \A t \in Tasks : /\ task[t] \in Settled => task'[t] \in Settled
                       /\ task'[t] = "absent" <=> task[t] = "absent"
  BY <1>4 DEF RowType, Settled
<1>7. AttemptInv'
  <2>1. \A q \in Runs : pc[q] \in HandSteps => InHand(q) \in Tasks
    BY TaskInHand DEF AttemptInv
  <2>2. \A q \in Runs : pc'[q] \in HandSteps => pc[q] \in HandSteps
    BY <1>2
  <2>3. \A q \in Runs : pc'[q] \in HandSteps => hand'[q] \in 1..TaskCount /\ task'[InHand(q)'] # "absent"
    BY <1>3, <1>6, <2>1, <2>2 DEF AttemptInv
  <2>4. QED
    BY <1>2, <1>3, <1>6, <2>3, MineIs DEF AttemptInv, clients
<1>8. SubmitInv'
  <2>1. \A q \in Runs : pc'[q] = "submitting" => pc[q] = "submitting" /\ InHand(q) \in Tasks
    BY <1>2, TaskInHand DEF AttemptInv, HandSteps, Returned
  <2>2. \A t \in Tasks : sent'[t] <= 1 /\ (sent'[t] = 1 => task'[t] \in Settled)
    BY <1>3, <1>6 DEF SubmitInv
  <2>3. ASSUME NEW q \in Runs, pc'[q] = "submitting"
        PROVE  task'[InHand(q)'] \in Settled /\ sent'[InHand(q)'] = 0
    BY <1>3, <1>6, <2>1, <2>3 DEF SubmitInv
  <2>4. ASSUME NEW p \in Runs, NEW q \in Runs, pc'[p] = "submitting", pc'[q] = "submitting",
               InHand(p)' = InHand(q)'
        PROVE  p = q
    BY <1>3, <2>1, <2>4 DEF SubmitInv
  <2>5. QED
    BY <2>2, <2>3, <2>4 DEF SubmitInv
<1>9. StoreInv'
  <2>1. Selected(attempt)' = Selected(attempt)
    BY <1>3 DEF Selected
  <2>2. \A q \in Runs : pc'[q] = "whole" /\ Mine(q)' = attempt => Selected(attempt) \subseteq ready'
    BY <1>2, <1>3 DEF StoreInv
  <2>3. vision' = "succeeded" => Selected(attempt) \subseteq ready'
    BY DEF StoreInv, SuccessIsStored
  <2>4. QED
    BY <1>3, <2>1, <2>2, <2>3 DEF StoreInv, SuccessIsStored
<1>10. ScheduledHasJob'
  BY <1>3, JobsStay DEF jobRow
<1>11. QED
  BY <1>1, <1>5, <1>7, <1>8, <1>9, <1>10

(* The three others, which do one of these. *)
LEMMA LoadTasksKeeps == ASSUME VisionInv, NEW r \in Runs, LoadTasks(r) PROVE VisionInv'
<1> USE DEF VisionInv, DomainInv
<1>1. PICK i \in 0..TaskCount, label \in {"failing", "doubting", "opening", "polling", "finalizing"} :
         /\ Hold(r, i) /\ Step(r, label)
         /\ label \in HandSteps => i \in 1..TaskCount /\ task[<<Mine(r), i>>] # "absent"
  <2> DEFINE state(i) == task[<<Mine(r), i>>]
             First(S) == CHOOSE i \in 1..TaskCount :
                           state(i) \in S /\ \A k \in 1..(i - 1) : state(k) \notin S
             Some(S)  == \E i \in 1..TaskCount : state(i) \in S
             Stop     == {"submitting", "unknown", "failed"}
             Take(i, label) == Hold(r, i) /\ Step(r, label)
  <2>1. ASSUME NEW S, Some(S) PROVE First(S) \in 1..TaskCount /\ state(First(S)) \in S
    <3> DEFINE T == {i \in 1..TaskCount : state(i) \in S}
    <3>1. \E i \in 1..TaskCount : i \in T /\ \A k \in 1..(i - 1) : k \notin T
      BY <2>1, FirstExists
    <3>2. \E i \in 1..TaskCount : state(i) \in S /\ \A k \in 1..(i - 1) : state(k) \notin S
      BY <3>1, VisionAssumption
    <3>3. QED
      BY <3>2
  <2>2. \/ /\ Some(Stop)
           /\ \E label \in {"failing", "doubting"} : Take(First(Stop), label)
        \/ Some({"prepared"}) /\ Take(First({"prepared"}), "opening")
        \/ Some({"submitted"}) /\ Take(First({"submitted"}), "polling")
        \/ Take(0, "finalizing")
    BY DEF LoadTasks
  <2>3. ASSUME NEW S \in {Stop, {"prepared"}, {"submitted"}}, Some(S)
        PROVE  First(S) \in 0..TaskCount /\ First(S) \in 1..TaskCount /\ state(First(S)) # "absent"
    <3>1. First(S) \in 1..TaskCount /\ state(First(S)) \in S
      BY <2>1, <2>3
    <3> HIDE DEF First
    <3>2. QED
      BY <3>1
  <2>4. 0 \in 0..TaskCount /\ "finalizing" \notin HandSteps
    BY VisionAssumption DEF HandSteps
  <2> HIDE DEF First, Some
  <2>5. QED
    BY <2>2, <2>3, <2>4
<1>2. UNCHANGED <<vision, task, world>> /\ Idle /\ pc[r] \in Steps
  BY DEF LoadTasks, Steps
<1>3. LeasedInv(Steps)'
  BY <1>1, HandlerStepKeeps, NoReschedule DEF Step, Steps
<1>4. \A q \in Runs : pc'[q] = IF q = r THEN label ELSE pc[q]
  BY <1>1, OneRunMoves DEF Step
<1>5. \A q \in Runs : hand'[q] = IF q = r THEN i ELSE hand[q]
  BY <1>1 DEF Hold, RowType
<1>6. \A q \in Runs : /\ q # r => InHand(q)' = InHand(q)
                      /\ Mine(q)' = Mine(q)
                      /\ InHand(r)' = <<Mine(r), i>>
  BY <1>5 DEF InHand, Mine, AttemptOf
<1>7. RowType'
  BY <1>1, <1>2 DEF RowType, Idle, clients, world, Hold
<1>8. AttemptInv'
  <2>1. ASSUME NEW q \in Runs, pc'[q] \in HandSteps
        PROVE  hand'[q] \in 1..TaskCount /\ task'[InHand(q)'] # "absent"
    BY <1>1, <1>2, <1>4, <1>5, <1>6, <2>1 DEF AttemptInv
  <2>2. QED
    BY <1>2, <1>4, <2>1 DEF AttemptInv, Idle, clients
<1>9. SubmitInv'
  <2>1. \A q \in Runs : pc'[q] = "submitting" => q # r /\ pc[q] = "submitting"
    BY <1>4
  <2>2. QED
    BY <1>2, <1>6, <2>1 DEF SubmitInv, world
<1>10. StoreInv'
  <2>1. \A q \in Runs : pc'[q] = "whole" => pc[q] = "whole"
    BY <1>4
  <2>2. QED
    BY <1>2, <1>6, <2>1 DEF StoreInv, SuccessIsStored, Selected, Idle, world
<1>11. ScheduledHasJob'
  BY <1>1, <1>2, JobsStay DEF Step, jobRow, Idle
<1>12. QED
  BY <1>3, <1>7, <1>8, <1>9, <1>10, <1>11

LEMMA PersistIntentKeeps == ASSUME VisionInv, NEW r \in Runs, PersistIntent(r) PROVE VisionInv'
<1> USE DEF VisionInv, DomainInv
<1>1. UNCHANGED <<vision, world, hand>> /\ Idle /\ pc[r] \in HandSteps /\ pc[r] \in Steps /\ pc[r] # "submitting"
  BY DEF PersistIntent, Steps, HandSteps
<1>2. CASE task[InHand(r)] # "prepared"
  BY <1>1, <1>2, HandlerKeeps DEF PersistIntent, Step, world, Returned, Steps, HandSteps, RowType, AttemptInv
<1>3. CASE task[InHand(r)] = "prepared"
  <2>1. task' = [task EXCEPT ![InHand(r)] = "submitting"] /\ Step(r, "submitting")
    BY <1>3 DEF PersistIntent, SetTask
  <2>2. InHand(r) \in Tasks /\ "submitting" \in Settled
    BY <1>1, TaskInHand DEF AttemptInv, Settled, TaskState
  <2>3. LeasedInv(Steps)'
    BY <2>1, HandlerStepKeeps, NoReschedule DEF Step, Steps
  <2>4. \A q \in Runs : pc'[q] = IF q = r THEN "submitting" ELSE pc[q]
    BY <2>1, OneRunMoves DEF Step
  <2>5. \A q \in Runs : InHand(q)' = InHand(q) /\ Mine(q)' = Mine(q)
    BY <1>1 DEF InHand, Mine, AttemptOf
  <2>6. \A t \in Tasks : task'[t] = IF t = InHand(r) THEN "submitting" ELSE task[t]
    BY <2>1 DEF RowType
  <2>7. RowType'
    BY <1>1, <2>1, <2>2 DEF RowType, Idle, clients, world, Settled
  <2>8. \A q \in Runs : pc[q] \in HandSteps => InHand(q) \in Tasks
    BY TaskInHand DEF AttemptInv
  <2>9. AttemptInv'
    <3>1. ASSUME NEW q \in Runs, pc'[q] \in HandSteps
          PROVE  hand'[q] \in 1..TaskCount /\ task'[InHand(q)'] # "absent"
      BY <1>1, <2>4, <2>5, <2>6, <2>8, <3>1 DEF AttemptInv
    <3>2. \A t \in Tasks : t[1] > attempt => task'[t] = "absent"
      BY <1>1, <1>3, <2>6 DEF AttemptInv
    <3>3. QED
      BY <1>1, <2>4, <3>1, <3>2 DEF AttemptInv, Idle, clients
  <2>10. SubmitInv'
    <3>1. \A t \in Tasks : sent[t] = 1 => t # InHand(r)
      BY <1>3 DEF SubmitInv, Settled
    <3>2. sent[InHand(r)] = 0
      BY <2>2, <3>1 DEF SubmitInv, RowType
    <3>3. \A q \in Runs : pc[q] = "submitting" => InHand(q) # InHand(r) /\ InHand(q) \in Tasks
      BY <1>3, <2>8 DEF SubmitInv, Settled, HandSteps
    <3>4. \A t \in Tasks : sent'[t] <= 1 /\ (sent'[t] = 1 => task'[t] \in Settled)
      BY <1>1, <2>2, <2>6 DEF SubmitInv, world
    <3>5. ASSUME NEW q \in Runs, pc'[q] = "submitting"
          PROVE  task'[InHand(q)'] \in Settled /\ sent'[InHand(q)'] = 0
      BY <1>1, <2>2, <2>4, <2>5, <2>6, <3>2, <3>3, <3>5 DEF SubmitInv, world
    <3>6. ASSUME NEW p \in Runs, NEW q \in Runs, pc'[p] = "submitting", pc'[q] = "submitting",
                 InHand(p)' = InHand(q)'
          PROVE  p = q
      BY <2>4, <2>5, <3>3, <3>6 DEF SubmitInv
    <3>7. QED
      BY <3>4, <3>5, <3>6 DEF SubmitInv
  <2>11. StoreInv'
    <3>1. \A q \in Runs : pc'[q] = "whole" => pc[q] = "whole"
      BY <2>4
    <3>2. QED
      BY <1>1, <2>5, <2>6, <3>1 DEF StoreInv, SuccessIsStored, Selected, Idle, world
  <2>12. ScheduledHasJob'
    BY <1>1, <2>1, JobsStay DEF Step, jobRow, Idle
  <2>13. QED
    BY <2>3, <2>7, <2>9, <2>10, <2>11, <2>12
<1>4. QED
  BY <1>2, <1>3

LEMMA SubmitPreparedKeeps == ASSUME VisionInv, NEW r \in Runs, SubmitPrepared(r) PROVE VisionInv'
<1> USE DEF VisionInv, DomainInv
<1>1. PICK label \in {"sent", "unsent"} : Step(r, label)
  BY DEF SubmitPrepared
<1>2. /\ UNCHANGED <<vision, task, ready, hand>> /\ Idle /\ pc[r] = "submitting"
      /\ sent' = [sent EXCEPT ![InHand(r)] = @ + 1]
  BY DEF SubmitPrepared
<1>3. \A q \in Runs : pc[q] \in HandSteps => InHand(q) \in Tasks
  BY TaskInHand DEF AttemptInv
<1>4. InHand(r) \in Tasks /\ task[InHand(r)] \in Settled /\ sent[InHand(r)] = 0
  BY <1>2, <1>3 DEF SubmitInv, HandSteps
<1>5. LeasedInv(Steps)'
  BY <1>1, HandlerStepKeeps, NoReschedule DEF Step, Steps
<1>6. \A q \in Runs : pc'[q] = IF q = r THEN label ELSE pc[q]
  BY <1>1, OneRunMoves DEF Step
<1>7. \A q \in Runs : InHand(q)' = InHand(q) /\ Mine(q)' = Mine(q)
  BY <1>2 DEF InHand, Mine, AttemptOf
<1>8. \A t \in Tasks : sent'[t] = IF t = InHand(r) THEN 1 ELSE sent[t]
  BY <1>2, <1>4 DEF RowType
<1>9. RowType'
  BY <1>2, <1>4 DEF RowType, Idle, clients
<1>10. AttemptInv'
  BY <1>1, <1>2, <1>6, <1>7 DEF AttemptInv, Idle, clients, HandSteps, Steps
<1>11. SubmitInv'
  <2>1. \A q \in Runs : pc'[q] = "submitting" => /\ q # r /\ pc[q] = "submitting"
                                                /\ InHand(q) # InHand(r) /\ InHand(q) \in Tasks
    BY <1>2, <1>3, <1>6 DEF SubmitInv, HandSteps
  <2>2. \A t \in Tasks : sent'[t] <= 1 /\ (sent'[t] = 1 => task'[t] \in Settled)
    BY <1>2, <1>4, <1>8 DEF SubmitInv
  <2>3. ASSUME NEW q \in Runs, pc'[q] = "submitting"
        PROVE  task'[InHand(q)'] \in Settled /\ sent'[InHand(q)'] = 0
    BY <1>2, <1>7, <1>8, <2>1, <2>3 DEF SubmitInv
  <2>4. QED
    BY <1>7, <2>1, <2>2, <2>3 DEF SubmitInv
<1>12. StoreInv'
  <2>1. \A q \in Runs : pc'[q] = "whole" => pc[q] = "whole"
    BY <1>6
  <2>2. QED
    BY <1>2, <1>7, <2>1 DEF StoreInv, SuccessIsStored, Selected, Idle
<1>13. ScheduledHasJob'
  BY <1>1, <1>2, JobsStay DEF Step, jobRow, Idle
<1>14. QED
  BY <1>5, <1>9, <1>10, <1>11, <1>12, <1>13

LEMMA HandlerStepIs ==
    ASSUME VisionInv, NEW r \in Runs, HandlerStep(r) \/ HandlerFails(r)
    PROVE  VisionInv'
<1> USE DEF VisionInv, DomainInv
<1>1. CASE HandlerFails(r)
  BY <1>1, HandlerKeeps DEF HandlerFails, Slip, Quiet, visionVars, rows, world, Idle, Returned, Steps,
                            HandSteps, RowType, AttemptInv
<1>2. CASE LoadDocument(r)
  <2>1. PICK label \in {"ok", "starting"} : Step(r, label) /\ (label = "starting" => attempt = Mine(r))
    BY <1>2 DEF LoadDocument
  <2>2. QED
    BY <1>2, <2>1, HandlerKeeps
       DEF LoadDocument, Step, Quiet, visionVars, rows, world, Idle, Returned, Steps, HandSteps, RowType, AttemptInv
<1>3. CASE StartRun(r)
  <2>1. PICK label \in {"loading", "rejected"} : Step(r, label)
    BY <1>3 DEF StartRun
  <2>2. vision' = "running" /\ attempt > 0 /\ pc[r] \in Steps
    BY <1>3 DEF StartRun, SetVision, AttemptInv, Steps
  <2>3. QED
    BY <1>3, <2>1, <2>2, HandlerKeeps
       DEF StartRun, Step, world, Returned, Steps, HandSteps, RowType, VisionState, InWork
<1>4. CASE SourceInvalid(r)
  <2>1. Go(r, "failing") /\ UNCHANGED jobRow /\ (UNCHANGED faults \/ Fault)
    BY <1>4 DEF SourceInvalid, Step, Slip
  <2>2. task' = task \/ task' = [task EXCEPT ![InHand(r)] = "failed"]
    BY <1>4 DEF SourceInvalid, SetTask
  <2>3. UNCHANGED <<vision, world, hand>> /\ Idle /\ pc[r] \in HandSteps /\ pc[r] \in Steps
    BY <1>4 DEF SourceInvalid, HandSteps, Steps
  <2>4. QED
    BY <2>1, <2>2, <2>3, HandlerKeeps
       DEF world, Steps, HandSteps, RowType, AttemptInv, Settled, TaskState
<1>5. CASE PersistSubmission(r) \/ MarkTaskUnknown(r)
  <2>1. PICK label \in {"deferred", "unsure"} : Go(r, label)
    BY <1>5 DEF PersistSubmission, MarkTaskUnknown, Step, Slip
  <2>2. UNCHANGED jobRow /\ (UNCHANGED faults \/ Fault)
    BY <1>5 DEF PersistSubmission, MarkTaskUnknown, Step, Slip
  <2>3. task' = task \/ \E s \in {"submitted", "unknown"} : task' = [task EXCEPT ![InHand(r)] = s]
    BY <1>5 DEF PersistSubmission, MarkTaskUnknown, SetTask
  <2>4. UNCHANGED <<vision, world, hand>> /\ Idle /\ pc[r] \in HandSteps /\ pc[r] \in Steps
    BY <1>5 DEF PersistSubmission, MarkTaskUnknown, HandSteps, Steps
  <2>5. QED
    BY <2>1, <2>2, <2>3, <2>4, HandlerKeeps
       DEF world, Returned, Steps, HandSteps, RowType, AttemptInv, Settled, TaskState
<1>6. CASE MarkFailed(r)
  <2>1. vision' \in VisionState /\ (attempt = 0 => vision' = "none") /\ (vision' = "succeeded" => vision = "succeeded")
    BY <1>6 DEF MarkFailed, MarkVisionFailed, SetVision, RowType, VisionState, AttemptInv, InWork
  <2>2. QED
    BY <1>6, <2>1, HandlerKeeps DEF MarkFailed, Slip, Step, world, Returned, Steps, HandSteps, RowType
<1>7. CASE Poll(r)
  <2>1. attempt > 0 /\ pc[r] \in Steps
    BY <1>7 DEF Poll, AttemptInv, Steps
  <2>2. PICK label \in {"deferred", "failing", "rejected", "storing"} : Step(r, label)
    BY <1>7 DEF Poll
  <2>3. vision' = "running" \/ vision' = vision
    BY <1>7 DEF Poll, SetVision
  <2>4. task' = task \/ task' = [task EXCEPT ![InHand(r)] = "failed"]
    BY <1>7 DEF Poll, SetTask
  <2>5. UNCHANGED <<world, hand>> /\ Idle /\ pc[r] \in HandSteps
    BY <1>7 DEF Poll, HandSteps
  <2>6. QED
    BY <2>1, <2>2, <2>3, <2>4, <2>5, HandlerKeeps
       DEF Step, world, Returned, Steps, HandSteps, RowType, VisionState, InWork, Settled, TaskState
<1>8. CASE PersistTaskResult(r)
  <2>1. PICK label \in {"deferred", "rejected", "failing"} : Go(r, label)
    BY <1>8 DEF PersistTaskResult, Step, Slip
  <2>2. /\ UNCHANGED <<jobRow, vision, sent, hand>> /\ Idle /\ pc[r] \in HandSteps
        /\ UNCHANGED faults \/ Fault
    BY <1>8 DEF PersistTaskResult, Step, Slip, HandSteps
  <2>3. task' = task \/ task' = [task EXCEPT ![InHand(r)] = "completed"]
    BY <1>8 DEF PersistTaskResult, SetTask
  <2>4. ready' \in SUBSET Nat /\ ready \subseteq ready'
    <3>1. PagesOf[InHand(r)] \in SUBSET Nat
      BY <2>2, TaskInHand, VisionAssumption DEF AttemptInv
    <3>2. ready' = ready \/ \E found \in SUBSET PagesOf[InHand(r)] : ready' = ready \cup found
      BY <1>8 DEF PersistTaskResult
    <3>3. QED
      BY <3>1, <3>2 DEF RowType
  <2>5. QED
    BY <2>1, <2>2, <2>3, <2>4, HandlerKeeps
       DEF Returned, Steps, HandSteps, RowType, AttemptInv, Settled, TaskState
<1>9. CASE CountRemaining(r) \/ ReadPages(r)
  <2>1. PICK label \in {"rejected", "failing", "reading", "whole", "missing"} :
           /\ Go(r, label)
           /\ label = "whole" => Selected(Mine(r)) \subseteq ready
    BY <1>9 DEF CountRemaining, ReadPages, Step, Slip
  <2>2. pc[r] \in Steps /\ Quiet /\ UNCHANGED jobRow /\ (UNCHANGED faults \/ Fault)
    BY <1>9 DEF CountRemaining, ReadPages, Steps, Step, Slip
  <2>3. QED
    BY <2>1, <2>2, HandlerKeeps
       DEF Quiet, visionVars, rows, world, Idle, Returned, Steps, HandSteps, RowType, AttemptInv
<1>10. CASE Finalize(r)
  <2>1. PICK label \in {"ok", "failing"} : Go(r, label)
    BY <1>10 DEF Finalize, Step, Slip
  <2>2. attempt > 0 /\ pc[r] \in Steps
    BY <1>10 DEF Finalize, AttemptInv, Steps
  <2>3. \/ vision' = vision \/ vision' = "partial"
        \/ vision' = "succeeded" /\ Selected(attempt) \subseteq ready
    BY <1>10 DEF Finalize, SetVision, StoreInv
  <2>4. /\ UNCHANGED <<jobRow, task, world, hand>> /\ Idle
        /\ UNCHANGED faults \/ Fault
    BY <1>10 DEF Finalize, Step, Slip
  <2>5. QED
    BY <2>1, <2>2, <2>3, <2>4, HandlerKeeps
       DEF world, Returned, Steps, HandSteps, RowType, VisionState
<1>11. CASE LoadTasks(r) \/ PersistIntent(r) \/ SubmitPrepared(r)
  BY <1>11, LoadTasksKeeps, PersistIntentKeeps, SubmitPreparedKeeps
<1>12. CASE VisionUnavailable(r)
  <2>1. vision' \in VisionState /\ (attempt = 0 => vision' = "none") /\ (vision' = "succeeded" => vision = "succeeded")
    BY <1>12 DEF VisionUnavailable, MarkVisionFailed, SetVision, RowType, VisionState, AttemptInv, InWork
  <2>2. QED
    BY <1>12, <2>1, HandlerKeeps DEF VisionUnavailable, Slip, Step, world, Returned, Steps, HandSteps, RowType
<1>13. QED
  BY <1>1, <1>2, <1>3, <1>4, <1>5, <1>6, <1>7, <1>8, <1>9, <1>10, <1>11, <1>12 DEF HandlerStep

(* A step that moves no run, no task in hand and no submission. *)
LEMMA OthersKeep ==
    ASSUME VisionInv, UNCHANGED <<pc, task, world, hand, attempt, recon>>, LeasedInv(Steps)',
           RowType', \A j \in JobIds : status[j] # "absent" => status'[j] # "absent",
           attempt = 0 => vision' = "none",
           vision' = "succeeded" => vision = "succeeded",
           starter' = "starting" => attempt < AttemptCount,
           starter' = "scheduling" => attempt > 0
    PROVE  VisionInv'
<1> USE DEF VisionInv, DomainInv
<1>1. \A q \in Runs : InHand(q)' = InHand(q) /\ Mine(q)' = Mine(q)
  BY DEF InHand, Mine, AttemptOf
<1>2. AttemptInv'
  BY <1>1 DEF AttemptInv
<1>3. SubmitInv'
  BY <1>1 DEF SubmitInv, world
<1>4. StoreInv'
  BY <1>1 DEF StoreInv, SuccessIsStored, Selected, world
<1>5. ScheduledHasJob'
  BY JobsStay
<1>6. QED
  BY <1>2, <1>3, <1>4, <1>5

LEMMA ScheduleKeeps ==
    ASSUME VisionInv, NEW j \in JobIds, Schedule(j)
    PROVE  /\ LeasedInv(Steps)' /\ UNCHANGED pc /\ last' \in 0..JobCount
           /\ \A i \in JobIds : status[i] # "absent" => status'[i] # "absent"
<1>1. LeasedInv(Steps)'
  BY EnqueueKeeps DEF Schedule, VisionInv
<1>2. UNCHANGED pc /\ \A i \in JobIds : status[i] # "absent" => status'[i] # "absent"
  BY DEF Schedule, Enqueue, VisionInv, LeasedInv, LeasedType
<1>3. last' \in 0..JobCount
  BY DEF Schedule, VisionInv, DomainInv, RowType, JobIds
<1>4. QED
  BY <1>1, <1>2, <1>3

LEMMA AttemptIsJob == ASSUME VisionInv, attempt > 0 PROVE attempt \in JobIds
<1>1. AttemptCount * TaskCount >= 0 /\ AttemptCount * TaskCount \in Int
  BY VisionAssumption
<1>2. JobCount = AttemptCount + AttemptCount * TaskCount
  BY VisionAssumption
<1>3. QED
  BY <1>1, <1>2, VisionAssumption DEF VisionInv, DomainInv, RowType, JobIds

LEMMA ClientsKeep ==
    ASSUME VisionInv,
           \/ ReadForStart \/ ScheduleAttempt \/ StartStops
           \/ RequestVisionCancel \/ MarkVisionCancelled
           \/ FindAbandoned \/ CloseAbandoned \/ RecoverOrphan
           \/ \E t \in Tasks : ScheduleApplied(t)
    PROVE  VisionInv'
<1> USE DEF VisionInv, DomainInv
<1>1. CASE ReadForStart
  BY <1>1, OthersKeep, StutterKeeps
     DEF ReadForStart, RowType, AttemptInv, rows, leased, jobs, jobRow, world
<1>2. CASE StartStops
  <2>1. LeasedInv(Steps)'
    BY <1>2, LeasedAssumption DEF StartStops, Fault, jobs, jobRow, LeasedInv, LeasedType, BudgetInv
  <2>2. QED
    BY <1>2, <2>1, OthersKeep DEF StartStops, RowType, AttemptInv, rows, jobs, jobRow, world
<1>3. CASE ScheduleAttempt
  <2>1. attempt > 0 /\ attempt \in JobIds /\ starter' = "idle"
    BY <1>3, AttemptIsJob DEF ScheduleAttempt, AttemptInv
  <2>2. UNCHANGED <<attempt, task, recon, world, hand, canceller, reconciler>>
    BY <1>3 DEF ScheduleAttempt
  <2>3. CASE Schedule(attempt) /\ UNCHANGED vision
    BY <2>1, <2>2, <2>3, ScheduleKeeps, OthersKeep DEF RowType, AttemptInv, world
  <2>4. CASE Fault /\ MarkVisionFailed("failed") /\ UNCHANGED <<jobs, last>>
    <3>1. LeasedInv(Steps)'
      BY <2>4, LeasedAssumption DEF Fault, jobs, jobRow, LeasedInv, LeasedType, BudgetInv
    <3>2. vision' \in {vision, "failed"}
      BY <2>4 DEF MarkVisionFailed, SetVision
    <3>3. QED
      BY <2>1, <2>2, <2>4, <3>1, <3>2, OthersKeep DEF RowType, VisionState, AttemptInv, world, jobs, jobRow
  <2>5. QED
    BY <1>3, <2>3, <2>4 DEF ScheduleAttempt
<1>4. CASE RequestVisionCancel
  <2>1. PICK j \in JobIds : RequestCancel(j)
    BY <1>4 DEF RequestVisionCancel
  <2>2. LeasedInv(Steps)' /\ pc' = pc /\ \A i \in JobIds : status[i] # "absent" => status'[i] # "absent"
    BY <2>1, RequestCancelKeeps DEF RequestCancel, Active, LeasedInv, LeasedType
  <2>3. canceller' \in {"idle", "marking"} /\ UNCHANGED <<rows, world, hand, last, starter, reconciler>>
    BY <1>4 DEF RequestVisionCancel
  <2>4. QED
    BY <2>2, <2>3, OthersKeep DEF RowType, AttemptInv, rows, world
<1>5. CASE MarkVisionCancelled \/ CloseAbandoned
  <2>1. LeasedInv(Steps)' /\ pc' = pc /\ UNCHANGED jobRow
    BY <1>5, StutterKeeps DEF MarkVisionCancelled, CloseAbandoned, leased, jobs
  <2>2. /\ vision' \in {vision, "failed", "unsure"}
        /\ vision' # vision => vision \in InWork
    BY <1>5 DEF MarkVisionCancelled, CloseAbandoned, MarkVisionFailed, SetVision, RowType
  <2>3. /\ UNCHANGED <<attempt, task, recon, world, hand, last, starter>>
        /\ canceller' \in {canceller, "idle"} /\ reconciler' \in {reconciler, "idle"}
    BY <1>5 DEF MarkVisionCancelled, CloseAbandoned
  <2>4. QED
    BY <2>1, <2>2, <2>3, OthersKeep DEF RowType, VisionState, InWork, AttemptInv, world, jobRow
<1>6. CASE FindAbandoned
  <2>1. LeasedInv(Steps)' /\ pc' = pc /\ UNCHANGED jobRow
    BY <1>6, StutterKeeps DEF FindAbandoned, leased, jobs
  <2>2. QED
    BY <1>6, <2>1, OthersKeep DEF FindAbandoned, RowType, AttemptInv, rows, world, jobRow
<1>7. CASE RecoverOrphan
  <2>1. attempt \in JobIds
    BY <1>7, AttemptIsJob DEF RecoverOrphan, AttemptInv, RowType
  <2>2. QED
    BY <1>7, <2>1, ScheduleKeeps, OthersKeep DEF RecoverOrphan, RowType, AttemptInv, rows, world, clients
<1>8. ASSUME NEW t \in Tasks, ScheduleApplied(t) PROVE VisionInv'
  BY <1>8, JobOfATask, ScheduleKeeps, OthersKeep DEF ScheduleApplied, RowType, AttemptInv, rows, world, clients
<1>9. QED
  BY <1>1, <1>2, <1>3, <1>4, <1>5, <1>6, <1>7, <1>8

LEMMA BeginAttemptKeeps == ASSUME VisionInv, BeginAttempt PROVE VisionInv'
<1> USE DEF VisionInv, DomainInv
<1>1. /\ UNCHANGED <<leased, recon, sent, hand, last, canceller, reconciler>>
      /\ attempt < AttemptCount
  BY DEF BeginAttempt, AttemptInv
<1>2. LeasedInv(Steps)' /\ UNCHANGED <<pc, jobRow>>
  BY <1>1, StutterKeeps DEF leased, jobs
<1>3. CASE starter' = "idle" /\ UNCHANGED <<vision, after, attempt, task, ready>>
  BY <1>1, <1>2, <1>3, OthersKeep DEF RowType, AttemptInv, jobRow, world
<1>4. CASE /\ SetVision("queued") /\ attempt' = attempt + 1
           /\ task' = [t \in Tasks |-> IF t[1] = attempt + 1 THEN "prepared" ELSE task[t]]
           /\ ready' = ready \ Selected(attempt + 1) /\ starter' = "scheduling"
  <2>1. \A q \in Runs : InHand(q)' = InHand(q) /\ Mine(q)' = Mine(q)
    BY <1>1 DEF InHand, Mine, AttemptOf
  <2>2. RowType'
    <3>1. attempt' \in 0..AttemptCount
      BY <1>1, <1>4, VisionAssumption DEF RowType
    <3>2. task' \in [Tasks -> TaskState]
      BY <1>4 DEF RowType, TaskState
    <3>3. vision' \in VisionState /\ starter' \in {"idle", "starting", "scheduling"}
      BY <1>4 DEF SetVision, VisionState, InWork
    <3>4. QED
      BY <1>1, <1>4, <3>1, <3>2, <3>3 DEF RowType
  <2>3. \A t \in Tasks : /\ task[t] # "absent" => task'[t] = task[t]
                         /\ task'[t] # task[t] => task'[t] = "prepared"
    BY <1>4 DEF AttemptInv, RowType, Tasks
  <2>4. \A q \in Runs : pc[q] \in HandSteps => InHand(q) \in Tasks /\ task[InHand(q)] # "absent"
    BY TaskInHand DEF AttemptInv
  <2>5. AttemptInv'
    <3>1. \A t \in Tasks : t[1] > attempt + 1 => task'[t] = "absent"
      BY <1>4 DEF AttemptInv, RowType, Tasks
    <3>2. attempt' > 0 /\ attempt' # 0
      BY <1>4 DEF RowType
    <3>3. \A q \in Runs : pc'[q] \in HandSteps => hand'[q] \in 1..TaskCount /\ task'[InHand(q)'] # "absent"
      BY <1>1, <1>2, <2>1, <2>3, <2>4 DEF AttemptInv
    <3>4. \A q \in Runs : pc'[q] \in Steps => Mine(q)' <= attempt'
      BY <1>2, <1>4, <2>1, MineIs DEF AttemptInv, RowType
    <3>5. QED
      BY <1>4, <3>1, <3>2, <3>3, <3>4 DEF AttemptInv
  <2>6. SubmitInv'
    <3>1. \A t \in Tasks : task[t] \in Settled => task'[t] = task[t]
      BY <2>3 DEF Settled
    <3>2. \A q \in Runs : pc[q] = "submitting" => InHand(q) \in Tasks
      BY <2>4 DEF HandSteps
    <3>3. \A t \in Tasks : sent'[t] <= 1 /\ (sent'[t] = 1 => task'[t] \in Settled)
      BY <1>1, <3>1 DEF SubmitInv
    <3>4. ASSUME NEW q \in Runs, pc'[q] = "submitting"
          PROVE  task'[InHand(q)'] \in Settled /\ sent'[InHand(q)'] = 0
      BY <1>1, <1>2, <2>1, <3>1, <3>2, <3>4 DEF SubmitInv
    <3>5. QED
      BY <1>2, <2>1, <3>3, <3>4 DEF SubmitInv
  <2>7. StoreInv'
    <3>1. vision' # "succeeded"
      BY <1>4 DEF SetVision
    <3>2. \A q \in Runs : pc'[q] = "whole" => Mine(q)' # attempt'
      BY <1>2, <1>4, <2>1, MineIs DEF AttemptInv, RowType, Steps
    <3>3. QED
      BY <3>1, <3>2 DEF StoreInv, SuccessIsStored
  <2>8. ScheduledHasJob'
    BY <1>1, <1>2, JobsStay DEF jobRow
  <2>9. QED
    BY <1>2, <2>2, <2>5, <2>6, <2>7, <2>8
<1>5. QED
  BY <1>3, <1>4 DEF BeginAttempt

LEMMA ReconciliationKeeps ==
    ASSUME VisionInv, NEW t \in Tasks,
           \/ ProposeReconciliation(t) \/ RejectReconciliation(t) \/ ConfirmReconciliation(t)
           \/ MarkScheduled(t)
    PROVE  VisionInv'
<1> USE DEF VisionInv, DomainInv
<1>1. UNCHANGED <<leased, attempt, world, hand, last, clients>>
  BY DEF ProposeReconciliation, RejectReconciliation, ConfirmReconciliation, MarkScheduled
<1>2. LeasedInv(Steps)' /\ UNCHANGED <<pc, jobRow>>
  BY <1>1, StutterKeeps DEF leased, jobs
<1>3. \A q \in Runs : InHand(q)' = InHand(q) /\ Mine(q)' = Mine(q)
  BY <1>1 DEF InHand, Mine, AttemptOf
<1>4. /\ \E s \in {"accepted?", "refused?", "rejected", "applied", "refused", "scheduled"} :
           /\ recon' = [recon EXCEPT ![t] = s]
           /\ s = "scheduled" => status[JobOfTask(t)] # "absent"
      /\ \/ UNCHANGED <<vision, task>>
         \/ /\ t[1] = attempt /\ task[t] \in {"unknown", "submitting"}
            /\ \E s \in {"submitted", "failed"} : task' = [task EXCEPT ![t] = s]
            /\ vision' \in {"queued", "failed"}
  BY DEF ProposeReconciliation, RejectReconciliation, ConfirmReconciliation, MarkScheduled,
         Uncertain, SetTask, SetVision
<1>5. RowType'
  BY <1>1, <1>4 DEF RowType, VisionState, InWork, TaskState, clients, world
<1>6. \A u \in Tasks : task'[u] = task[u] \/ (task[u] \in Settled /\ task'[u] \in Settled \ {"completed"})
  BY <1>4 DEF RowType, Settled, TaskState
<1>7. \A q \in Runs : pc[q] \in HandSteps => InHand(q) \in Tasks
  BY TaskInHand DEF AttemptInv
<1>8. AttemptInv'
  <2>1. attempt = 0 => vision' = vision
    BY <1>4 DEF Tasks
  <2>2. \A q \in Runs : pc'[q] \in HandSteps => hand'[q] \in 1..TaskCount /\ task'[InHand(q)'] # "absent"
    BY <1>1, <1>2, <1>3, <1>6, <1>7 DEF AttemptInv, Settled
  <2>3. \A u \in Tasks : u[1] > attempt => task'[u] = "absent"
    BY <1>6 DEF AttemptInv, Settled
  <2>4. QED
    BY <1>1, <1>2, <2>1, <2>2, <2>3 DEF AttemptInv, clients
<1>9. SubmitInv'
  <2>1. \A q \in Runs : pc[q] = "submitting" => InHand(q) \in Tasks
    BY <1>7 DEF HandSteps
  <2>2. \A u \in Tasks : sent'[u] <= 1 /\ (sent'[u] = 1 => task'[u] \in Settled)
    BY <1>1, <1>6 DEF SubmitInv, world
  <2>3. ASSUME NEW q \in Runs, pc'[q] = "submitting"
        PROVE  task'[InHand(q)'] \in Settled /\ sent'[InHand(q)'] = 0
    BY <1>1, <1>2, <1>3, <1>6, <2>1, <2>3 DEF SubmitInv, world
  <2>4. QED
    BY <1>2, <1>3, <2>2, <2>3 DEF SubmitInv
<1>10. StoreInv'
  BY <1>1, <1>2, <1>3, <1>4 DEF StoreInv, SuccessIsStored, Selected, world
<1>11. ScheduledHasJob'
  <2>1. \A u \in Tasks : JobOfTask(u)' = JobOfTask(u)
    BY DEF JobOfTask
  <2>2. QED
    BY <1>2, <1>4, <2>1 DEF ScheduledHasJob, jobRow, RowType
<1>12. QED
  BY <1>2, <1>5, <1>8, <1>9, <1>10, <1>11
-----------------------------------------------------------------------------
LEMMA RuntimeStepKeeps ==
    ASSUME VisionInv, RuntimeStep,
           hand' = [r \in Runs |-> IF pc'[r] = "off" THEN 0 ELSE hand[r]],
           UNCHANGED <<rows, world, last, clients>>
    PROVE  VisionInv'
<1> USE DEF VisionInv, DomainInv
<1>1. LeasedInv(Steps)'
  BY RuntimeKeeps, NoReschedule
<1>2. \A q \in Runs : pc'[q] = pc[q] \/ pc'[q] \in {"off", "claimed"} \cup Checked
  <2>1. ASSUME NEW j \in JobIds, Claim(j) PROVE \A q \in Runs : pc'[q] \in {pc[q], "claimed"}
    BY <2>1 DEF Claim, Go, LeasedInv, LeasedType
  <2>2. ASSUME NEW r \in Runs, RunnerStep(r) \/ Crash(r)
        PROVE  \A q \in Runs : pc'[q] = pc[q] \/ pc'[q] \in {"off"} \cup Checked
    <3>1. \E label \in {"off"} \cup Checked : Go(r, label)
      BY <2>2 DEF RunnerStep, CheckCancel, Settle, Crash, GiveUp, Checked
    <3>2. QED
      BY <3>1, OneRunMoves
  <2>3. QED
    BY <2>1, <2>2 DEF RuntimeStep, Expire, Lapse
<1>3. \A q \in Runs : pc'[q] \in Steps => pc'[q] = pc[q] /\ pc'[q] # "off"
  BY <1>2 DEF Checked, Steps
<1>4. HandSteps \subseteq Steps
  BY DEF HandSteps, Steps
<1>5. \A q \in Runs : pc'[q] \in Steps => hand'[q] = hand[q]
  BY <1>3
<1>6. \A q \in Runs : /\ Mine(q)' = Mine(q)
                      /\ pc'[q] \in Steps => InHand(q)' = InHand(q)
  BY <1>5 DEF InHand, Mine, AttemptOf
<1>7. RowType'
  <2>1. hand' \in [Runs -> 0..TaskCount]
    BY VisionAssumption DEF RowType
  <2>2. QED
    BY <2>1 DEF RowType, rows, world, clients
<1>8. AttemptInv'
  BY <1>3, <1>4, <1>5, <1>6 DEF AttemptInv, rows, clients
<1>9. SubmitInv'
  <2>1. \A q \in Runs : pc'[q] = "submitting" => pc[q] = "submitting" /\ InHand(q)' = InHand(q)
    BY <1>3, <1>6 DEF Steps
  <2>2. QED
    BY <2>1 DEF SubmitInv, rows, world
<1>10. StoreInv'
  <2>1. \A q \in Runs : pc'[q] = "whole" => pc[q] = "whole"
    BY <1>3 DEF Steps
  <2>2. QED
    BY <1>6, <2>1 DEF StoreInv, SuccessIsStored, Selected, rows, world
<1>11. ScheduledHasJob'
  <2>1. \A j \in JobIds : status[j] # "absent" => status'[j] # "absent"
    <3>1. ASSUME NEW j \in JobIds, NEW s, s # "absent", status' = [status EXCEPT ![j] = s]
          PROVE  \A i \in JobIds : status[i] # "absent" => status'[i] # "absent"
      BY <3>1 DEF LeasedInv, LeasedType
    <3>2. ASSUME NEW j \in JobIds, Claim(j) \/ Expire(j)
          PROVE  \E s \in {"running", "cancelled", "queued", "failed"} : status' = [status EXCEPT ![j] = s]
      BY <3>2 DEF Claim, Expire, Lapse
    <3>3. ASSUME NEW r \in Runs, RunnerStep(r) \/ Crash(r)
          PROVE  \/ status' = status
                 \/ \E s \in {"cancelled", "succeeded", "queued", "failed"} : status' = [status EXCEPT ![r[1]] = s]
      BY <3>3 DEF RunnerStep, CheckCancel, Settle, Crash, GiveUp, jobRow, Checked
    <3>4. QED
      BY <3>1, <3>2, <3>3, RunIs DEF RuntimeStep
  <2>2. QED
    BY <2>1, JobsStay DEF rows
<1>12. QED
  BY <1>1, <1>7, <1>8, <1>9, <1>10, <1>11

LEMMA VisionStutters == VisionInv /\ UNCHANGED vars => VisionInv'
<1> SUFFICES ASSUME VisionInv, UNCHANGED vars PROVE VisionInv'
  OBVIOUS
<1>1. LeasedInv(Steps)'
  BY StutterKeeps DEF VisionInv, vars
<1>2. QED
  BY <1>1, OthersKeep DEF VisionInv, DomainInv, RowType, AttemptInv, vars, visionVars, rows, world, clients,
                          leased, jobs, jobRow

LEMMA VisionStep == VisionInv /\ [VisionNext]_vars => VisionInv'
BY HandlerStepIs, ClientsKeep, BeginAttemptKeeps, ReconciliationKeeps, RuntimeStepKeeps, VisionStutters DEF VisionNext

LEMMA VisionInvariant == Spec => []VisionInv
BY VisionStart, VisionStep, PTL DEF Spec
-----------------------------------------------------------------------------
(* The parser is never called twice for a page range of an attempt: the intent
   is a conditional update, and no outcome, known or not, takes it back. *)
THEOREM PaidOnce == Spec => []SubmittedAtMostOnce
<1>1. VisionInv => SubmittedAtMostOnce
  BY DEF VisionInv, DomainInv, SubmitInv, SubmittedAtMostOnce
<1>2. QED
  BY <1>1, VisionInvariant, PTL

(* What is shown as succeeded has a result of every page its attempt selected, for
   any ranges, answers that leave pages out, attempts and late runs. *)
THEOREM VisionSuccessStored == Spec => []SuccessIsStored
<1>1. VisionInv => SuccessIsStored
  BY DEF VisionInv, DomainInv, StoreInv
<1>2. QED
  BY <1>1, VisionInvariant, PTL

(* A reconciliation that is recorded as scheduled has its job. *)
THEOREM VisionScheduledHasJob == Spec => []ScheduledHasJob
<1>1. VisionInv => ScheduledHasJob
  BY DEF VisionInv, DomainInv
<1>2. QED
  BY <1>1, VisionInvariant, PTL

(* The comparison of the times, which no other invariant is about. *)
AfterType == after \in BOOLEAN

LEMMA AfterTyped == AfterType /\ [VisionNext]_vars => AfterType'
<1> SUFFICES ASSUME after \in BOOLEAN, [VisionNext]_vars PROVE after' \in BOOLEAN
  BY DEF AfterType
<1>1. ASSUME JobsTouched PROVE after' \in BOOLEAN
  BY <1>1 DEF JobsTouched
<1>2. ASSUME NEW j, Schedule(j) PROVE after' \in BOOLEAN
  BY <1>2 DEF Schedule
<1>3. ASSUME NEW code, MarkVisionFailed(code) PROVE after' \in BOOLEAN
  BY <1>3 DEF MarkVisionFailed, SetVision
<1>4. CASE UNCHANGED vars
  BY <1>4 DEF vars, visionVars
<1>5. CASE ReadForStart \/ BeginAttempt \/ ScheduleAttempt \/ StartStops
  BY <1>2, <1>3, <1>5 DEF ReadForStart, BeginAttempt, ScheduleAttempt, StartStops, SetVision
<1>6. CASE RequestVisionCancel \/ MarkVisionCancelled \/ FindAbandoned \/ CloseAbandoned \/ RecoverOrphan
  BY <1>1, <1>2, <1>3, <1>6
     DEF RequestVisionCancel, MarkVisionCancelled, FindAbandoned, CloseAbandoned, RecoverOrphan
<1>7. ASSUME NEW t \in Tasks,
             \/ ProposeReconciliation(t) \/ RejectReconciliation(t) \/ ConfirmReconciliation(t)
             \/ ScheduleApplied(t) \/ MarkScheduled(t)
      PROVE  after' \in BOOLEAN
  BY <1>2, <1>7 DEF ProposeReconciliation, RejectReconciliation, ConfirmReconciliation, ScheduleApplied,
                    MarkScheduled, SetVision
<1>8. ASSUME NEW r \in Runs, HandlerStep(r) \/ HandlerFails(r) PROVE after' \in BOOLEAN
  <2>1. CASE HandlerFails(r) \/ LoadDocument(r) \/ StartRun(r) \/ CountRemaining(r) \/ ReadPages(r)
    BY <2>1 DEF HandlerFails, LoadDocument, StartRun, CountRemaining, ReadPages, Quiet, visionVars, SetVision
  <2>2. CASE LoadTasks(r) \/ SourceInvalid(r) \/ PersistIntent(r) \/ SubmitPrepared(r)
             \/ PersistSubmission(r) \/ MarkTaskUnknown(r)
    BY <2>2 DEF LoadTasks, SourceInvalid, PersistIntent, SubmitPrepared, PersistSubmission, MarkTaskUnknown
  <2>3. CASE MarkFailed(r) \/ VisionUnavailable(r)
    BY <1>3, <2>3 DEF MarkFailed, VisionUnavailable
  <2>4. CASE Poll(r)
    BY <2>4 DEF Poll, SetVision
  <2>5. CASE PersistTaskResult(r)
    BY <2>5 DEF PersistTaskResult
  <2>6. CASE Finalize(r)
    BY <2>6 DEF Finalize, SetVision
  <2>7. QED
    BY <1>8, <2>1, <2>2, <2>3, <2>4, <2>5, <2>6 DEF HandlerStep
<1>9. QED
  BY <1>1, <1>4, <1>5, <1>6, <1>7, <1>8 DEF VisionNext

(* The rows of the document, its tasks, reconciliations and jobs stay in their
   domains. *)
THEOREM VisionTypeCorrect == Spec => []VisionType
<1>1. VisionInv /\ AfterType => VisionType
  BY DEF AfterType, VisionInv, DomainInv, LeasedInv, RowType, VisionState, TaskState, VisionType
<1>2. Init => AfterType
  BY DEF AfterType, Init, VisionInit
<1>3. Spec => []AfterType
  BY <1>2, AfterTyped, PTL DEF Spec
<1>4. QED
  BY <1>1, <1>3, VisionInvariant, PTL

(* The jobs of the fallback move as JobLifecycle says. *)
THEOREM VisionFollowsLifecycle == Spec => FollowsLifecycle
<1>1. Init => Lifecycle!Init
  BY LifecycleStart DEF Init
<1>2. VisionInv /\ [VisionNext]_vars => [Lifecycle!Next]_(Lifecycle!vars)
  <2> SUFFICES ASSUME VisionInv, [VisionNext]_vars PROVE LifecycleStep
    BY DEF LifecycleStep
  <2>1. ASSUME NEW j \in JobIds, Schedule(j) PROVE LifecycleStep
    BY <2>1, EnqueueIsCreate DEF Schedule, VisionInv
  <2>2. ASSUME UNCHANGED jobRow PROVE LifecycleStep
    BY <2>2, NoJobStep
  <2>3. CASE UNCHANGED vars
    BY <2>2, <2>3 DEF vars, leased, jobs
  <2>4. CASE ReadForStart \/ BeginAttempt \/ StartStops \/ MarkVisionCancelled \/ FindAbandoned \/ CloseAbandoned
    BY <2>2, <2>4
       DEF ReadForStart, BeginAttempt, StartStops, MarkVisionCancelled, FindAbandoned, CloseAbandoned, leased, jobs
  <2>5. CASE ScheduleAttempt \/ RecoverOrphan
    <3>1. attempt > 0
      BY <2>5 DEF ScheduleAttempt, RecoverOrphan, VisionInv, DomainInv, AttemptInv, RowType
    <3>2. QED
      BY <2>1, <2>2, <2>5, <3>1, AttemptIsJob DEF ScheduleAttempt, RecoverOrphan, jobs
  <2>6. CASE RequestVisionCancel
    BY <2>6, RequestCancelIsWithdraw DEF RequestVisionCancel, VisionInv
  <2>7. ASSUME NEW t \in Tasks,
               \/ ProposeReconciliation(t) \/ RejectReconciliation(t) \/ ConfirmReconciliation(t)
               \/ ScheduleApplied(t) \/ MarkScheduled(t)
        PROVE  LifecycleStep
    BY <2>1, <2>2, <2>7, JobOfATask
       DEF ProposeReconciliation, RejectReconciliation, ConfirmReconciliation, ScheduleApplied, MarkScheduled,
           leased, jobs
  <2>8. ASSUME NEW r \in Runs, HandlerStep(r) \/ HandlerFails(r) PROVE LifecycleStep
    <3>1. UNCHANGED jobRow
      BY <2>8 DEF HandlerStep, HandlerFails, LoadDocument, VisionUnavailable, StartRun, LoadTasks, SourceInvalid, PersistIntent,
                  SubmitPrepared, PersistSubmission, MarkTaskUnknown, MarkFailed, Poll, PersistTaskResult,
                  CountRemaining, ReadPages, Finalize, Step, Slip
    <3>2. QED
      BY <2>2, <3>1
  <2>9. CASE RuntimeStep
    BY <2>9, RuntimeFollows DEF VisionInv
  <2>10. QED
    BY <2>3, <2>4, <2>5, <2>6, <2>7, <2>8, <2>9 DEF VisionNext
<1>3. QED
  BY <1>1, <1>2, VisionInvariant, PTL DEF Spec, FollowsLifecycle, Lifecycle!Spec
-----------------------------------------------------------------------------
(* The composition: the lemmas of each domain, for the kind that is at work. *)

KindInv ==
    /\ kind = "agent" => Agent!AgentInv
    /\ kind = "document" => Document!DocumentInv
    /\ kind = "vision" => VisionInv /\ AfterType

LEMMA PlatformStart == PlatformInit => KindInv
BY LeasedAssumption, Agent!AgentStart, Document!DocumentStart, VisionStart
   DEF PlatformInit, KindInv, AfterType, Init, VisionInit

(* A step of the composition is one of the kind at work. *)
LEMMA KindSteps ==
    ASSUME [PlatformNext]_all
    PROVE  /\ kind' = kind
           /\ kind = "agent" => [Agent!AgentNext]_(Agent!vars)
           /\ kind = "document" => [Document!DocumentNext]_(Document!vars)
           /\ kind = "vision" => [VisionNext]_vars
           /\ kind # "agent" => agentTask' = agentTask
<1>1. CASE UNCHANGED all
  <2>1. UNCHANGED <<leased, kind, agentRows, documentRows, visionVars>>
    BY <1>1 DEF all
  <2>2. UNCHANGED Agent!vars
    BY <2>1 DEF leased, jobs, jobRow, agentRows, Agent!vars, Agent!agentVars, Agent!taskVars,
                Agent!leased, Agent!jobs, Agent!jobRow
  <2>3. UNCHANGED Document!vars
    BY <2>1 DEF leased, jobs, jobRow, documentRows, Document!vars, Document!documentVars, Document!document,
                Document!times, Document!helpers, Document!retry, Document!leased, Document!jobs, Document!jobRow
  <2>4. UNCHANGED vars
    BY <2>1 DEF vars
  <2>5. QED
    BY <2>1, <2>2, <2>3, <2>4 DEF agentRows
<1>2. CASE PlatformNext
  BY <1>2 DEF PlatformNext, AgentMoves, DocumentMoves, VisionMoves, agentRows
<1>3. QED
  BY <1>1, <1>2

LEMMA PlatformStep == KindInv /\ [PlatformNext]_all => KindInv'
<1> SUFFICES ASSUME KindInv, [PlatformNext]_all PROVE KindInv'
  OBVIOUS
<1>1. kind' = kind
  BY KindSteps
<1>2. CASE kind = "agent"
  <2>1. Agent!AgentInv'
    BY <1>2, KindSteps, LeasedAssumption, Agent!AgentStep DEF KindInv
  <2>2. QED
    BY <1>1, <1>2, <2>1 DEF KindInv
<1>3. CASE kind = "document"
  <2>1. Document!DocumentInv'
    BY <1>3, KindSteps, LeasedAssumption, Document!DocumentStep DEF KindInv
  <2>2. QED
    BY <1>1, <1>3, <2>1 DEF KindInv
<1>4. CASE kind = "vision"
  <2>1. VisionInv' /\ AfterType'
    BY <1>4, KindSteps, VisionStep, AfterTyped DEF KindInv
  <2>2. QED
    BY <1>1, <1>4, <2>1 DEF KindInv
<1>5. QED
  BY <1>1, <1>2, <1>3, <1>4 DEF KindInv

LEMMA PlatformInvariant == PlatformSpec => []KindInv
BY PlatformStart, PlatformStep, PTL DEF PlatformSpec

(* Whichever kind is at work, the rows stay in their domains. *)
THEOREM PlatformTypeCorrect == PlatformSpec => []TypeOK
<1>1. KindInv /\ kind = "agent" => Agent!AgentType
  BY DEF KindInv, Agent!AgentInv, Agent!LeasedInv, Agent!RowType, Agent!AgentType
<1>2. KindInv /\ kind = "document" => Document!DocumentType
  BY DEF KindInv, Document!DocumentInv, Document!LeasedInv, Document!HelperType, Document!RowType,
         Document!TimesType, Document!DocumentType
<1>3. KindInv /\ kind = "vision" => VisionType
  BY DEF KindInv, AfterType, VisionInv, DomainInv, LeasedInv, RowType, VisionState, TaskState, VisionType
<1>4. KindInv => TypeOK
  BY <1>1, <1>2, <1>3 DEF TypeOK
<1>5. QED
  BY <1>4, PlatformInvariant, PTL

(* RuntimeHandler of agent: the job of a task succeeds only after the task. *)
THEOREM PlatformSuccessRecorded == PlatformSpec => []JobSuccessIsRecorded
<1>1. KindInv => JobSuccessIsRecorded
  BY DEF KindInv, JobSuccessIsRecorded, Agent!AgentInv, Agent!ReturnInv
<1>2. QED
  BY <1>1, PlatformInvariant, PTL

(* Nothing in the platform writes an agent task that has ended. *)
THEOREM PlatformEndsTaskOnce == PlatformSpec => TaskEndsOnce
<1>1. KindInv /\ [PlatformNext]_all => [(agentTask \in Agent!EndedTask) => (agentTask' = agentTask)]_all
  <2> SUFFICES ASSUME KindInv, [PlatformNext]_all, agentTask \in Agent!EndedTask
               PROVE  agentTask' = agentTask
    OBVIOUS
  <2>1. CASE kind = "agent"
    <3>1. Agent!KeepsEnd
      BY <2>1, KindSteps, LeasedAssumption, Agent!AgentStep DEF KindInv
    <3>2. QED
      BY <3>1 DEF Agent!KeepsEnd
  <2>2. QED
    BY <2>1, KindSteps
<1>2. QED
  BY <1>1, PlatformInvariant, PTL DEF PlatformSpec, TaskEndsOnce

(* The handlers and clients of knowledge show no document without its chunks. *)
THEOREM PlatformShownHasChunks == PlatformSpec => []ShownDocumentHasChunks
<1>1. KindInv => ShownDocumentHasChunks
  BY DEF KindInv, ShownDocumentHasChunks, Document!DocumentInv
<1>2. QED
  BY <1>1, PlatformInvariant, PTL
=============================================================================
