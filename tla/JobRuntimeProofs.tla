-------------------------- MODULE JobRuntimeProofs --------------------------
(* Theorems about the job runtime, for any jobs, runners, attempt limits,
   lease and deferrals.  Those about ownership assume OwnersDistinct. *)
EXTENDS LeasedRuntime, TLAPS

(* Every step is one of the actions below; the lemmas about steps split on it. *)
AnyStep ==
    \/ \E j \in Jobs : Enqueue(j) \/ Get(j) \/ RequestCancel(j)
    \/ \E w \in Workers : StartRecovery(w) \/ ReclaimCancelled(w) \/ ReclaimExhausted(w)
                          \/ ReclaimAbandoned(w)
    \/ \E w \in Workers, j \in Jobs : Claim(w, j)
    \/ \E w \in Workers : ClaimNothing(w) \/ HandlerReturns(w) \/ CheckCancel(w)
                          \/ CancelClaim(w) \/ Succeed(w) \/ Reschedule(w) \/ Fail(w)
                          \/ DropLostLease(w) \/ RenewLease(w) \/ LoseLease(w)
                          \/ UpdateProgress(w) \/ Abandon(w)
    \/ Tick
    \/ UNCHANGED vars

LEMMA NextIsAnyStep == [Next]_vars => AnyStep
BY DEF Next, Recover, Execute, AnyStep

LEMMA TypeInit == Init => TypeOK
BY JobAssumption, WorkerAssumption, TimeAssumption
   DEF Init, TypeOK, Status, Ended, PCs, Outcomes, Active

LEMMA TypeRelease ==
    ASSUME TypeOK, NEW J \in SUBSET Jobs, NEW s \in Status, NEW d \in 0..MaxDelay,
           Release(J, s, d)
    PROVE  /\ status' \in [Jobs -> Status]
           /\ attempts' \in [Jobs -> Nat]
           /\ owner' \in [Jobs -> Owners \cup {NoOwner}]
           /\ leaseAge' \in [Jobs -> 0..Lease]
           /\ delay' \in [Jobs -> 0..MaxDelay]
           /\ cancelReq' \in [Jobs -> BOOLEAN]
           /\ seen' \in [Jobs -> Status \cup {"none"}]
BY TimeAssumption DEF TypeOK, Release, BumpVersion

LEMMA TypeWriteClaim ==
    ASSUME TypeOK, NEW w \in Workers, Active(w), NEW s \in Status, NEW d \in 0..MaxDelay,
           WriteClaim(w, s, d)
    PROVE  TypeOK'
<1>1. held[w] \in Jobs
  BY DEF TypeOK
<1>2. /\ pc' \in [Workers -> PCs]
      /\ held' \in [Workers -> Jobs \cup {NoJob}]
      /\ heldAttempt' \in [Workers -> Nat]
      /\ outcome' \in [Workers -> Outcomes]
      /\ raced' \in [Jobs -> BOOLEAN]
      /\ \A v \in Workers : Active(v)' => held'[v] \in Jobs
  BY DEF WriteClaim, GoIdle, TypeOK, PCs, Outcomes, Active
<1>3. CASE Owns(w)
  <2>1. Release({held[w]}, s, d)
    BY <1>3 DEF WriteClaim
  <2>2. QED
    BY <1>1, <1>2, <2>1, TypeRelease DEF TypeOK
<1>4. CASE ~Owns(w)
  BY <1>2, <1>4 DEF WriteClaim, row, TypeOK
<1>5. QED
  BY <1>3, <1>4

LEMMA TypeReclaim ==
    ASSUME TypeOK, NEW J \in SUBSET Jobs, NEW s \in Status,
           NEW w \in Workers, NEW label \in {"expireExhausted", "expireRest", "claiming"},
           Release(J, s, 0), GoTo(w, label), UNCHANGED raced
    PROVE  TypeOK'
<1>1. 0 \in 0..MaxDelay
  BY TimeAssumption
<1>2. pc' \in [Workers -> PCs] /\ (\A v \in Workers : Active(v)' => Active(v))
  BY DEF GoTo, TypeOK, PCs, Active
<1>3. QED
  BY <1>1, <1>2, TypeRelease DEF GoTo, TypeOK

LEMMA TypeStep == TypeOK /\ [Next]_vars => TypeOK'
<1> SUFFICES ASSUME TypeOK, AnyStep PROVE TypeOK'
  BY NextIsAnyStep
<1> USE JobAssumption, WorkerAssumption, TimeAssumption
<1>1. ASSUME NEW j \in Jobs, Enqueue(j) PROVE TypeOK'
  BY <1>1 DEF Enqueue, TypeOK, runner, Status, Active
<1>2. ASSUME NEW j \in Jobs, Get(j) PROVE TypeOK'
  BY <1>2 DEF Get, TypeOK, runner, Status, Active
<1>3. ASSUME NEW j \in Jobs, RequestCancel(j) PROVE TypeOK'
  <2>1. raced' \in [Jobs -> BOOLEAN]
    BY <1>3 DEF RequestCancel, TypeOK, PastCheck
  <2>2. QED
    BY <1>3, <2>1 DEF RequestCancel, BumpVersion, TypeOK, runner, Status, Ended, Active
<1>4. ASSUME NEW w \in Workers, StartRecovery(w) PROVE TypeOK'
  BY <1>4 DEF StartRecovery, GoTo, TypeOK, row, PCs, Active
<1>5. ASSUME NEW w \in Workers, ReclaimCancelled(w) PROVE TypeOK'
  <2>1. {j \in Expired : cancelReq[j]} \in SUBSET Jobs /\ "cancelled" \in Status
    BY DEF Expired, Status, Ended
  <2>2. QED
    BY <1>5, <2>1, TypeReclaim DEF ReclaimCancelled
<1>6. ASSUME NEW w \in Workers, ReclaimExhausted(w) PROVE TypeOK'
  <2>1. /\ {j \in Expired : ~cancelReq[j] /\ attempts[j] >= MaxAttempts[j]} \in SUBSET Jobs
        /\ "failed" \in Status
    BY DEF Expired, Status, Ended
  <2>2. QED
    BY <1>6, <2>1, TypeReclaim DEF ReclaimExhausted
<1>7. ASSUME NEW w \in Workers, ReclaimAbandoned(w) PROVE TypeOK'
  <2>1. /\ {j \in Expired : ~cancelReq[j] /\ attempts[j] < MaxAttempts[j]} \in SUBSET Jobs
        /\ "queued" \in Status
    BY DEF Expired, Status
  <2>2. QED
    BY <1>7, <2>1, TypeReclaim DEF ReclaimAbandoned
<1>8. ASSUME NEW w \in Workers, NEW j \in Jobs, Claim(w, j) PROVE TypeOK'
  <2>1. pc' \in [Workers -> PCs] /\ outcome' \in [Workers -> Outcomes]
    BY <1>8 DEF Claim, TypeOK, PCs, Outcomes
  <2>2. QED
    BY <1>8, <2>1 DEF Claim, BumpVersion, TypeOK, Status, Active
<1>9. ASSUME NEW w \in Workers, ClaimNothing(w) PROVE TypeOK'
  BY <1>9 DEF ClaimNothing, GoTo, TypeOK, row, PCs, Active
<1>10. ASSUME NEW w \in Workers, HandlerReturns(w) PROVE TypeOK'
  BY <1>10 DEF HandlerReturns, HandlerReturnsWith, TypeOK, row, PCs, Outcomes, Active
<1>11. ASSUME NEW w \in Workers, CheckCancel(w) PROVE TypeOK'
  BY <1>11 DEF CheckCancel, GoTo, TypeOK, row, PCs, Active
<1>12. ASSUME NEW w \in Workers, CancelClaim(w) PROVE TypeOK'
  BY <1>12, TypeWriteClaim DEF CancelClaim, Active, Status, Ended
<1>13. ASSUME NEW w \in Workers, Succeed(w) PROVE TypeOK'
  BY <1>13, TypeWriteClaim DEF Succeed, Active, Status, Ended
<1>14. ASSUME NEW w \in Workers, Reschedule(w) PROVE TypeOK'
  BY <1>14, TypeWriteClaim DEF Reschedule, Active, Status
<1>15. ASSUME NEW w \in Workers, Fail(w) PROVE TypeOK'
  BY <1>15, TypeWriteClaim DEF Fail, Active, Status, Ended
<1>16. ASSUME NEW w \in Workers, DropLostLease(w) \/ Abandon(w) PROVE TypeOK'
  BY <1>16 DEF DropLostLease, Abandon, GoIdle, TypeOK, row, PCs, Outcomes, Active
<1>17. ASSUME NEW w \in Workers, RenewLease(w) PROVE TypeOK'
  BY <1>17 DEF RenewLease, TypeOK, runner, Active
<1>18. ASSUME NEW w \in Workers, LoseLease(w) PROVE TypeOK'
  BY <1>18 DEF LoseLease, HandlerReturnsWith, TypeOK, row, PCs, Outcomes, Active
<1>19. ASSUME NEW w \in Workers, UpdateProgress(w) PROVE TypeOK'
  BY <1>19 DEF UpdateProgress, BumpVersion, TypeOK, runner, Active
<1>20. ASSUME Tick PROVE TypeOK'
  BY <1>20 DEF Tick, TypeOK, runner, Active
<1>21. ASSUME UNCHANGED vars PROVE TypeOK'
  BY <1>21 DEF vars, row, runner, TypeOK, Active
<1>22. QED
  BY <1>1, <1>2, <1>3, <1>4, <1>5, <1>6, <1>7, <1>8, <1>9, <1>10, <1>11, <1>12, <1>13,
     <1>14, <1>15, <1>16, <1>17, <1>18, <1>19, <1>20, <1>21 DEF AnyStep

(* Type correctness of the rows and the runners. *)
THEOREM TypeCorrect == Spec => []TypeOK
BY TypeInit, TypeStep, PTL DEF Spec
-----------------------------------------------------------------------------
(* Ownership.  A step that claims nothing leaves the attempts alone, makes no
   runner active, changes no active runner's claim, and starts no job. *)
ClaimsNothing ==
    /\ attempts' = attempts
    /\ \A v \in Workers : Active(v)' => /\ Active(v)
                                        /\ held'[v] = held[v]
                                        /\ heldAttempt'[v] = heldAttempt[v]
    /\ \A j \in Jobs : status'[j] = "running" => status[j] = "running" /\ owner'[j] = owner[j]

LEMMA ReleaseClaimsNothing ==
    ASSUME TypeOK, NEW J, NEW s, NEW d, s # "running", Release(J, s, d)
    PROVE  /\ attempts' = attempts
           /\ \A j \in Jobs : status'[j] = "running" => status[j] = "running" /\ owner'[j] = owner[j]
BY DEF Release, TypeOK

LEMMA WriteClaimsNothing ==
    ASSUME TypeOK, NEW w \in Workers, NEW s, NEW d, s # "running", WriteClaim(w, s, d)
    PROVE  ClaimsNothing
<1>1. \A v \in Workers : Active(v)' => /\ Active(v)
                                       /\ held'[v] = held[v]
                                       /\ heldAttempt'[v] = heldAttempt[v]
  BY DEF WriteClaim, GoIdle, TypeOK, Active
<1>2. CASE Owns(w)
  BY <1>1, <1>2, ReleaseClaimsNothing DEF WriteClaim, ClaimsNothing
<1>3. CASE ~Owns(w)
  BY <1>1, <1>3 DEF WriteClaim, row, ClaimsNothing
<1>4. QED
  BY <1>2, <1>3

LEMMA OnlyClaimClaims ==
    ASSUME TypeOK, AnyStep
    PROVE  ClaimsNothing \/ \E w \in Workers, j \in Jobs : Claim(w, j)
<1>1. ASSUME NEW j \in Jobs, Enqueue(j) \/ Get(j) PROVE ClaimsNothing
  BY <1>1 DEF Enqueue, Get, runner, ClaimsNothing, TypeOK, Active
<1>2. ASSUME NEW j \in Jobs, RequestCancel(j) PROVE ClaimsNothing
  BY <1>2 DEF RequestCancel, runner, ClaimsNothing, TypeOK, Active
<1>3. ASSUME NEW w \in Workers, StartRecovery(w) PROVE ClaimsNothing
  BY <1>3 DEF StartRecovery, GoTo, row, ClaimsNothing, TypeOK, Active
<1>4. ASSUME NEW w \in Workers, NEW label \in {"expireExhausted", "expireRest", "claiming"},
             GoTo(w, label)
      PROVE  \A v \in Workers : Active(v)' => /\ Active(v)
                                              /\ held'[v] = held[v]
                                              /\ heldAttempt'[v] = heldAttempt[v]
  BY <1>4 DEF GoTo, TypeOK, Active
<1>5. ASSUME NEW w \in Workers, ReclaimCancelled(w) \/ ReclaimExhausted(w) \/ ReclaimAbandoned(w)
      PROVE  ClaimsNothing
  BY <1>4, <1>5, ReleaseClaimsNothing
     DEF ReclaimCancelled, ReclaimExhausted, ReclaimAbandoned, ClaimsNothing
<1>6. ASSUME NEW w \in Workers, ClaimNothing(w) PROVE ClaimsNothing
  BY <1>6 DEF ClaimNothing, GoTo, row, ClaimsNothing, TypeOK, Active
<1>7. ASSUME NEW w \in Workers, HandlerReturns(w) \/ LoseLease(w) PROVE ClaimsNothing
  BY <1>7 DEF HandlerReturns, LoseLease, HandlerReturnsWith, row, ClaimsNothing, TypeOK, Active
<1>8. ASSUME NEW w \in Workers, CheckCancel(w) PROVE ClaimsNothing
  BY <1>8 DEF CheckCancel, GoTo, row, ClaimsNothing, TypeOK, Active
<1>9. ASSUME NEW w \in Workers, CancelClaim(w) \/ Succeed(w) \/ Reschedule(w) \/ Fail(w)
      PROVE  ClaimsNothing
  BY <1>9, WriteClaimsNothing DEF CancelClaim, Succeed, Reschedule, Fail
<1>10. ASSUME NEW w \in Workers, DropLostLease(w) \/ Abandon(w) PROVE ClaimsNothing
  BY <1>10 DEF DropLostLease, Abandon, GoIdle, row, ClaimsNothing, TypeOK, Active
<1>11. ASSUME NEW w \in Workers, RenewLease(w) \/ UpdateProgress(w) PROVE ClaimsNothing
  BY <1>11 DEF RenewLease, UpdateProgress, runner, ClaimsNothing, Active
<1>12. ASSUME Tick \/ UNCHANGED vars PROVE ClaimsNothing
  BY <1>12 DEF Tick, vars, row, runner, ClaimsNothing, Active
<1>13. QED
  BY <1>1, <1>2, <1>3, <1>5, <1>6, <1>7, <1>8, <1>9, <1>10, <1>11, <1>12 DEF AnyStep

(* The inductive invariant of ownership: no active runner is ahead of its row. *)
ClaimInv ==
    /\ \A w \in Workers : Active(w) => heldAttempt[w] <= attempts[held[w]]
    /\ GuardMeansOwnAttempt
    /\ AttemptsAreDistinct

LEMMA ClaimInvStep ==
    ASSUME OwnersDistinct, TypeOK, TypeOK', ClaimInv, AnyStep
    PROVE  ClaimInv'
<1>1. CASE ClaimsNothing
  BY <1>1 DEF ClaimsNothing, ClaimInv, GuardMeansOwnAttempt, AttemptsAreDistinct, Owns, TypeOK
<1>2. ASSUME NEW w \in Workers, NEW j \in Jobs, Claim(w, j) PROVE ClaimInv'
  <2> USE <1>2 DEF Claim
  <2>1. /\ held'[w] = j /\ heldAttempt'[w] = attempts[j] + 1 /\ attempts'[j] = attempts[j] + 1
        /\ Active(w)' /\ ~Active(w)
    BY DEF TypeOK, Active
  <2>2. \A v \in Workers \ {w} : /\ Active(v)' => Active(v)
                                 /\ held'[v] = held[v] /\ heldAttempt'[v] = heldAttempt[v]
    BY DEF TypeOK, Active
  <2>3. ASSUME NEW v \in Workers \ {w}, Active(v)
        PROVE  /\ heldAttempt[v] <= attempts'[held[v]]
               /\ held[v] = j => heldAttempt[v] < attempts'[j]
    BY <2>1, <2>3 DEF ClaimInv, TypeOK
  <2>4. \A v \in Workers : Active(v)' => heldAttempt'[v] <= attempts'[held'[v]]
    BY <2>1, <2>2, <2>3 DEF TypeOK
  <2>5. GuardMeansOwnAttempt'
    <3> SUFFICES ASSUME NEW v \in Workers, Active(v)', Owns(v)'
                 PROVE  heldAttempt'[v] = attempts'[held'[v]]
      BY DEF GuardMeansOwnAttempt
    <3>1. CASE v = w
      BY <3>1, <2>1
    <3>2. CASE v # w /\ held[v] = j
      <4>1. OwnerOf[v] = OwnerOf[w]
        BY <3>2, <2>2 DEF Owns, TypeOK
      <4>2. QED
        BY <4>1, <3>2 DEF OwnersDistinct
    <3>3. CASE v # w /\ held[v] # j
      BY <3>3, <2>2 DEF ClaimInv, GuardMeansOwnAttempt, Owns, TypeOK
    <3>4. QED
      BY <3>1, <3>2, <3>3
  <2>6. AttemptsAreDistinct'
    <3> SUFFICES ASSUME NEW u \in Workers, NEW v \in Workers, u # v,
                        Active(u)', Active(v)', held'[u] = held'[v]
                 PROVE  heldAttempt'[u] # heldAttempt'[v]
      BY DEF AttemptsAreDistinct
    <3>1. CASE u # w /\ v # w
      BY <3>1, <2>2 DEF ClaimInv, AttemptsAreDistinct
    <3>2. CASE u = w
      BY <3>2, <2>1, <2>2, <2>3 DEF TypeOK
    <3>3. CASE v = w
      BY <3>3, <2>1, <2>2, <2>3 DEF TypeOK
    <3>4. QED
      BY <3>1, <3>2, <3>3
  <2>7. QED
    BY <2>4, <2>5, <2>6 DEF ClaimInv
<1>3. QED
  BY <1>1, <1>2, OnlyClaimClaims

LEMMA ClaimInvAlways == ASSUME OwnersDistinct PROVE Spec => []ClaimInv
<1>1. Init => ClaimInv
  BY DEF Init, ClaimInv, GuardMeansOwnAttempt, AttemptsAreDistinct, Active
<1>2. TypeOK /\ TypeOK' /\ ClaimInv /\ [Next]_vars => ClaimInv'
  BY ClaimInvStep, NextIsAnyStep
<1>3. QED
  BY <1>1, <1>2, TypeCorrect, PTL DEF Spec

(* With a WorkerID of its own for every runner, the guards on lock_owner let a
   runner write only the attempt it claimed. *)
THEOREM OwnershipIsFenced == ASSUME OwnersDistinct PROVE Spec => []GuardMeansOwnAttempt
BY ClaimInvAlways, PTL DEF ClaimInv

(* ... and no two runners ever hold the same attempt of a job. *)
THEOREM AttemptsStayDistinct == ASSUME OwnersDistinct PROVE Spec => []AttemptsAreDistinct
BY ClaimInvAlways, PTL DEF ClaimInv
-----------------------------------------------------------------------------
(* The attempt budget.  A deferral is checked against the attempt in the claim,
   not against the row: it keeps the budget because the claim is fenced. *)
BudgetInv ==
    /\ AttemptBudget
    /\ \A j \in Jobs : status[j] = "absent" => attempts[j] = 0

(* Steps that leave attempt_count alone and put in the queue only jobs with an
   attempt left keep the budget. *)
LEMMA BudgetKept ==
    ASSUME TypeOK, BudgetInv, attempts' = attempts,
           \A j \in Jobs : /\ status'[j] = "queued" => status[j] = "queued" \/ attempts[j] < MaxAttempts[j]
                           /\ status'[j] = "absent" => status[j] = "absent"
    PROVE  BudgetInv'
<1> SUFFICES ASSUME NEW j \in Jobs
             PROVE  /\ attempts'[j] <= MaxAttempts[j]
                    /\ status'[j] = "queued" => attempts'[j] < MaxAttempts[j]
                    /\ status'[j] = "absent" => attempts'[j] = 0
  BY DEF BudgetInv, AttemptBudget
<1> QED
  BY DEF BudgetInv, AttemptBudget

LEMMA BudgetWrite ==
    ASSUME TypeOK, BudgetInv, NEW w \in Workers, Active(w), NEW s \in Status \ {"absent"}, NEW d,
           WriteClaim(w, s, d), s = "queued" /\ Owns(w) => attempts[held[w]] < MaxAttempts[held[w]]
    PROVE  BudgetInv'
<1>1. CASE Owns(w)
  <2>1. Release({held[w]}, s, d)
    BY <1>1 DEF WriteClaim
  <2>2. QED
    BY <1>1, <2>1, BudgetKept DEF Release, TypeOK
<1>2. CASE ~Owns(w)
  BY <1>2, BudgetKept DEF WriteClaim, row
<1>3. QED
  BY <1>1, <1>2

LEMMA BudgetStep ==
    ASSUME TypeOK, ClaimInv, BudgetInv, AnyStep
    PROVE  BudgetInv'
<1> USE JobAssumption
<1>1. ASSUME NEW j \in Jobs, Enqueue(j) PROVE BudgetInv'
  BY <1>1 DEF Enqueue, BudgetInv, AttemptBudget, TypeOK
<1>2. ASSUME NEW j \in Jobs, Get(j) PROVE BudgetInv'
  BY <1>2, BudgetKept DEF Get
<1>3. ASSUME NEW j \in Jobs, RequestCancel(j) PROVE BudgetInv'
  BY <1>3, BudgetKept DEF RequestCancel, TypeOK
<1>4. ASSUME NEW w \in Workers, ReclaimCancelled(w) \/ ReclaimExhausted(w) \/ ReclaimAbandoned(w)
      PROVE  BudgetInv'
  BY <1>4, BudgetKept DEF ReclaimCancelled, ReclaimExhausted, ReclaimAbandoned, Release
<1>5. ASSUME NEW w \in Workers, NEW j \in Jobs, Claim(w, j) PROVE BudgetInv'
  BY <1>5 DEF Claim, Claimable, BudgetInv, AttemptBudget, TypeOK
<1>6. ASSUME NEW w \in Workers, CancelClaim(w) \/ Succeed(w) \/ Fail(w) PROVE BudgetInv'
  BY <1>6, BudgetWrite DEF CancelClaim, Succeed, Fail, Active, Status, Ended
<1>7. ASSUME NEW w \in Workers, Reschedule(w) PROVE BudgetInv'
  <2>1. Active(w) /\ (Owns(w) => attempts[held[w]] < MaxAttempts[held[w]])
    BY <1>7 DEF Reschedule, Active, ClaimInv, GuardMeansOwnAttempt
  <2>2. QED
    BY <1>7, <2>1, BudgetWrite DEF Reschedule, Status
<1>8. ASSUME UNCHANGED <<status, attempts>> PROVE BudgetInv'
  BY <1>8, BudgetKept
<1>9. QED
  BY <1>1, <1>2, <1>3, <1>4, <1>5, <1>6, <1>7, <1>8
     DEF AnyStep, StartRecovery, ClaimNothing, HandlerReturns, LoseLease, HandlerReturnsWith,
         CheckCancel, DropLostLease, Abandon, RenewLease, UpdateProgress, Tick, vars, row

LEMMA BudgetInvAlways == ASSUME OwnersDistinct PROVE Spec => []BudgetInv
<1>1. Init => BudgetInv
  BY JobAssumption DEF Init, BudgetInv, AttemptBudget
<1>2. TypeOK /\ ClaimInv /\ BudgetInv /\ [Next]_vars => BudgetInv'
  BY BudgetStep, NextIsAnyStep
<1>3. QED
  BY <1>1, <1>2, TypeCorrect, ClaimInvAlways, PTL DEF Spec

(* No job is attempted more often than max_attempts, and a queued job always
   has an attempt left, although Claim does not check it. *)
THEOREM AttemptBudgetHolds == ASSUME OwnersDistinct PROVE Spec => []AttemptBudget
BY BudgetInvAlways, PTL DEF BudgetInv
-----------------------------------------------------------------------------
(* Cancellation.  No ownership assumption is needed here: a runner past its
   check on a cancelled job either raced with the request or owns nothing. *)
CancelInv ==
    \A j \in Jobs : cancelReq[j] /\ ~raced[j] =>
        status[j] \in {"running", "cancelled"} /\ ~PastCheck(j)

(* A step that requests no cancellation keeps the invariant when no cancelled
   job leaves for anything but "cancelled", and nobody gets past the check. *)
LEMMA CancelKept ==
    ASSUME CancelInv, cancelReq' = cancelReq, raced' = raced,
           \A j \in Jobs : cancelReq[j] /\ ~raced[j] =>
               /\ status'[j] \in {status[j], "cancelled"}
               /\ PastCheck(j)' => PastCheck(j)
    PROVE  CancelInv'
BY DEF CancelInv

LEMMA PastCheckRelease ==
    ASSUME TypeOK, NEW J, NEW s, NEW d, s # "running", Release(J, s, d),
           NEW w \in Workers, NEW label \in PCs \ {"finishing"}, pc' = [pc EXCEPT ![w] = label],
           \A v \in Workers \ {w} : held'[v] = held[v]
    PROVE  \A j \in Jobs : PastCheck(j)' => PastCheck(j)
<1> SUFFICES ASSUME NEW j \in Jobs, NEW v \in Workers,
                    pc'[v] = "finishing", held'[v] = j, Owns(v)'
             PROVE  PastCheck(j)
  BY DEF PastCheck
<1>1. v # w /\ pc[v] = "finishing" /\ held[v] = j
  BY DEF TypeOK
<1>2. Owns(v)
  BY <1>1, ReleaseClaimsNothing DEF Owns, Release, TypeOK
<1>3. QED
  BY <1>1, <1>2 DEF PastCheck

LEMMA PastCheckFrame ==
    ASSUME TypeOK, UNCHANGED <<status, owner>>, NEW w \in Workers,
           pc'[w] # "finishing",
           \A v \in Workers \ {w} : held'[v] = held[v] /\ pc'[v] = pc[v]
    PROVE  \A j \in Jobs : PastCheck(j)' => PastCheck(j)
<1> SUFFICES ASSUME NEW j \in Jobs, NEW v \in Workers,
                    pc'[v] = "finishing", held'[v] = j, Owns(v)'
             PROVE  PastCheck(j)
  BY DEF PastCheck
<1>1. v # w
  OBVIOUS
<1>2. QED
  BY <1>1 DEF PastCheck, Owns

LEMMA CancelWrite ==
    ASSUME TypeOK, CancelInv, NEW w \in Workers, Active(w), NEW s \in Status \ {"running"}, NEW d,
           WriteClaim(w, s, d), pc[w] = "finishing" \/ s = "cancelled"
    PROVE  CancelInv'
<1>1. held[w] \in Jobs
  BY DEF TypeOK
<1>2. /\ pc' = [pc EXCEPT ![w] = "idle"] /\ "idle" \in PCs \ {"finishing"}
      /\ raced' = raced /\ pc'[w] # "finishing"
      /\ \A v \in Workers \ {w} : held'[v] = held[v] /\ pc'[v] = pc[v]
  BY DEF WriteClaim, GoIdle, PCs, TypeOK
<1>3. CASE Owns(w)
  <2>1. Release({held[w]}, s, d)
    BY <1>3 DEF WriteClaim
  <2>2. \A j \in Jobs : PastCheck(j)' => PastCheck(j)
    BY <1>2, <2>1, PastCheckRelease
  <2>3. \A j \in Jobs : cancelReq[j] /\ ~raced[j] => status'[j] \in {status[j], "cancelled"}
    BY <1>1, <1>3, <2>1 DEF Release, CancelInv, PastCheck, TypeOK
  <2>4. QED
    BY <1>2, <2>1, <2>2, <2>3, CancelKept DEF Release
<1>4. CASE ~Owns(w)
  <2>1. UNCHANGED row
    BY <1>4 DEF WriteClaim
  <2>2. \A j \in Jobs : PastCheck(j)' => PastCheck(j)
    BY <1>2, <2>1, PastCheckFrame DEF row
  <2>3. QED
    BY <1>2, <2>1, <2>2, CancelKept DEF row
<1>5. QED
  BY <1>3, <1>4

LEMMA CancelStep ==
    ASSUME TypeOK, CancelInv, AnyStep
    PROVE  CancelInv'
<1>1. ASSUME NEW j \in Jobs, Enqueue(j) PROVE CancelInv'
  BY <1>1 DEF Enqueue, runner, CancelInv, PastCheck, Owns, TypeOK
<1>2. ASSUME NEW j \in Jobs, Get(j) PROVE CancelInv'
  BY <1>2 DEF Get, runner, CancelInv, PastCheck, Owns
<1>3. ASSUME NEW j \in Jobs, RequestCancel(j) PROVE CancelInv'
  <2> SUFFICES ASSUME NEW i \in Jobs, cancelReq'[i], ~raced'[i]
               PROVE  status'[i] \in {"running", "cancelled"} /\ ~PastCheck(i)'
    BY DEF CancelInv
  <2>1. PastCheck(i)' => PastCheck(i)
    BY <1>3 DEF RequestCancel, runner, PastCheck, Owns, TypeOK
  <2>2. CASE i = j
    BY <1>3, <2>1, <2>2 DEF RequestCancel, TypeOK
  <2>3. CASE i # j
    BY <1>3, <2>1, <2>3 DEF RequestCancel, CancelInv, TypeOK
  <2>4. QED
    BY <2>2, <2>3
<1>4. ASSUME NEW w \in Workers, ReclaimCancelled(w) \/ ReclaimExhausted(w) \/ ReclaimAbandoned(w)
      PROVE  CancelInv'
  <2>1. PICK label \in {"expireExhausted", "expireRest", "claiming"} : GoTo(w, label)
    BY <1>4 DEF ReclaimCancelled, ReclaimExhausted, ReclaimAbandoned
  <2>2. PICK J \in SUBSET Jobs, s \in {"cancelled", "failed", "queued"} :
            Release(J, s, 0) /\ \A j \in J : cancelReq[j] => s = "cancelled"
    BY <1>4 DEF ReclaimCancelled, ReclaimExhausted, ReclaimAbandoned, Expired
  <2>3. \A j \in Jobs : PastCheck(j)' => PastCheck(j)
    BY <2>1, <2>2, PastCheckRelease DEF GoTo, PCs
  <2>4. raced' = raced
    BY <1>4 DEF ReclaimCancelled, ReclaimExhausted, ReclaimAbandoned
  <2>5. QED
    BY <2>2, <2>3, <2>4, CancelKept DEF Release, TypeOK
<1>5. ASSUME NEW w \in Workers, NEW j \in Jobs, Claim(w, j) PROVE CancelInv'
  <2> USE <1>5 DEF Claim, Claimable
  <2>1. ASSUME NEW i \in Jobs, cancelReq[i] PROVE PastCheck(i)' => PastCheck(i)
    <3> SUFFICES ASSUME NEW v \in Workers, pc'[v] = "finishing", held'[v] = i, Owns(v)'
                 PROVE  PastCheck(i)
      BY DEF PastCheck
    <3>1. i # j
      BY <2>1
    <3>2. v # w /\ pc[v] = "finishing" /\ held[v] = i
      BY <3>1 DEF TypeOK
    <3>3. Owns(v)
      BY <3>1, <3>2 DEF Owns, TypeOK
    <3>4. QED
      BY <3>2, <3>3 DEF PastCheck
  <2>2. \A i \in Jobs : cancelReq[i] => status'[i] = status[i]
    BY DEF TypeOK
  <2>3. QED
    BY <2>1, <2>2, CancelKept
<1>6. ASSUME NEW w \in Workers, CheckCancel(w) PROVE CancelInv'
  <2>1. ASSUME NEW i \in Jobs, cancelReq[i] PROVE PastCheck(i)' => PastCheck(i)
    <3> SUFFICES ASSUME NEW v \in Workers, pc'[v] = "finishing", held'[v] = i, Owns(v)'
                 PROVE  PastCheck(i)
      BY DEF PastCheck
    <3>1. v # w /\ pc[v] = "finishing" /\ held[v] = i /\ Owns(v)
      BY <1>6, <2>1 DEF CheckCancel, GoTo, row, Owns, TypeOK
    <3>2. QED
      BY <3>1 DEF PastCheck
  <2>2. QED
    BY <1>6, <2>1, CancelKept DEF CheckCancel, row
<1>7. ASSUME NEW w \in Workers, CancelClaim(w) PROVE CancelInv'
  BY <1>7, CancelWrite DEF CancelClaim, Active, Status, Ended
<1>8. ASSUME NEW w \in Workers, Succeed(w) PROVE CancelInv'
  BY <1>8, CancelWrite DEF Succeed, Active, Status, Ended
<1>9. ASSUME NEW w \in Workers, Reschedule(w) PROVE CancelInv'
  BY <1>9, CancelWrite DEF Reschedule, Active, Status, Ended
<1>10. ASSUME NEW w \in Workers, Fail(w) PROVE CancelInv'
  BY <1>10, CancelWrite DEF Fail, Active, Status, Ended
<1>11. ASSUME NEW w \in Workers,
              \/ StartRecovery(w) \/ ClaimNothing(w) \/ HandlerReturns(w) \/ LoseLease(w)
              \/ DropLostLease(w) \/ Abandon(w)
       PROVE  CancelInv'
  <2>1. /\ UNCHANGED row /\ raced' = raced /\ pc'[w] # "finishing"
        /\ \A v \in Workers \ {w} : held'[v] = held[v] /\ pc'[v] = pc[v]
    BY <1>11 DEF StartRecovery, ClaimNothing, HandlerReturns, LoseLease, HandlerReturnsWith,
                 DropLostLease, Abandon, GoTo, GoIdle, TypeOK
  <2>2. \A j \in Jobs : PastCheck(j)' => PastCheck(j)
    BY <2>1, PastCheckFrame DEF row
  <2>3. QED
    BY <2>1, <2>2, CancelKept DEF row
<1>12. ASSUME UNCHANGED <<status, owner, cancelReq, pc, held, raced>> PROVE CancelInv'
  BY <1>12 DEF CancelInv, PastCheck, Owns
<1>13. QED
  BY <1>1, <1>2, <1>3, <1>4, <1>5, <1>6, <1>7, <1>8, <1>9, <1>10, <1>11, <1>12
     DEF AnyStep, RenewLease, UpdateProgress, Tick, vars, row, runner

(* Cancellation wins over success, deferral, failure and recovery, except for a
   request that lands between its claimant's check and its last write. *)
THEOREM CancellationWinsOutsideTheRace == Spec => []CancellationWins
<1>1. Init => CancelInv
  BY DEF Init, CancelInv
<1>2. TypeOK /\ CancelInv /\ [Next]_vars => CancelInv'
  BY CancelStep, NextIsAnyStep
<1>3. CancelInv => CancellationWins
  BY DEF CancelInv, CancellationWins
<1>4. QED
  BY <1>1, <1>2, <1>3, TypeCorrect, PTL DEF Spec
-----------------------------------------------------------------------------
(* Versions.  A statement that changes a status bumps the version with it. *)
LEMMA VersionKept ==
    ASSUME VersionTellsStatus,
           \A j \in Jobs : seen'[j] # "none" => seen'[j] = seen[j] /\ status'[j] = status[j]
    PROVE  VersionTellsStatus'
BY DEF VersionTellsStatus

LEMMA VersionRelease ==
    ASSUME TypeOK, VersionTellsStatus, NEW J, NEW s, NEW d, Release(J, s, d)
    PROVE  VersionTellsStatus'
BY VersionKept DEF Release, BumpVersion

LEMMA VersionStep ==
    ASSUME TypeOK, VersionTellsStatus, \A j \in Jobs : status[j] = "absent" => seen[j] = "none",
           AnyStep
    PROVE  VersionTellsStatus' /\ \A j \in Jobs : status'[j] = "absent" => seen'[j] = "none"
<1> DEFINE Goal == VersionTellsStatus' /\ \A j \in Jobs : status'[j] = "absent" => seen'[j] = "none"
<1>1. ASSUME NEW j \in Jobs, Enqueue(j) PROVE Goal
  BY <1>1 DEF Enqueue, VersionTellsStatus, TypeOK
<1>2. ASSUME NEW j \in Jobs, Get(j) PROVE Goal
  BY <1>2 DEF Get, VersionTellsStatus, TypeOK
<1>3. ASSUME NEW j \in Jobs, RequestCancel(j) PROVE Goal
  BY <1>3 DEF RequestCancel, BumpVersion, VersionTellsStatus, TypeOK
<1>4. ASSUME NEW J, NEW s \in Status \ {"absent"}, NEW d, Release(J, s, d) PROVE Goal
  BY <1>4, VersionRelease DEF Release, BumpVersion, TypeOK
<1>5. ASSUME NEW w \in Workers, ReclaimCancelled(w) \/ ReclaimExhausted(w) \/ ReclaimAbandoned(w)
      PROVE  Goal
  BY <1>4, <1>5 DEF ReclaimCancelled, ReclaimExhausted, ReclaimAbandoned, Status, Ended
<1>6. ASSUME NEW w \in Workers, NEW j \in Jobs, Claim(w, j) PROVE Goal
  BY <1>6 DEF Claim, BumpVersion, VersionTellsStatus, TypeOK
<1>7. ASSUME NEW w \in Workers, NEW s \in Status \ {"absent"}, NEW d, WriteClaim(w, s, d)
      PROVE  Goal
  BY <1>4, <1>7 DEF WriteClaim, row, VersionTellsStatus
<1>8. ASSUME NEW w \in Workers, CancelClaim(w) \/ Succeed(w) \/ Reschedule(w) \/ Fail(w)
      PROVE  Goal
  BY <1>7, <1>8 DEF CancelClaim, Succeed, Reschedule, Fail, Status, Ended
<1>9. ASSUME NEW w \in Workers, UpdateProgress(w) PROVE Goal
  BY <1>9 DEF UpdateProgress, BumpVersion, VersionTellsStatus
<1>10. ASSUME UNCHANGED <<status, seen>> PROVE Goal
  BY <1>10 DEF VersionTellsStatus
<1>11. QED
  BY <1>1, <1>2, <1>3, <1>5, <1>6, <1>8, <1>9, <1>10
     DEF AnyStep, StartRecovery, ClaimNothing, HandlerReturns, LoseLease, HandlerReturnsWith,
         CheckCancel, DropLostLease, Abandon, RenewLease, Tick, vars, row

(* A client that holds a version knows the job's status: RequestCancel, which
   compares the version, acts on the job its caller saw. *)
THEOREM VersionsTellStatus == Spec => []VersionTellsStatus
<1> DEFINE AbsentUnseen == \A j \in Jobs : status[j] = "absent" => seen[j] = "none"
<1>1. Init => VersionTellsStatus /\ AbsentUnseen
  BY DEF Init, VersionTellsStatus
<1>2. TypeOK /\ VersionTellsStatus /\ AbsentUnseen /\ [Next]_vars
      => VersionTellsStatus' /\ AbsentUnseen'
  BY VersionStep, NextIsAnyStep
<1>3. QED
  BY <1>1, <1>2, TypeCorrect, PTL DEF Spec
-----------------------------------------------------------------------------
(* Who ends a running job. *)
LEMMA ReleaseByWrite ==
    ASSUME TypeOK, ClaimInv, NEW w \in Workers, Active(w), NEW s, NEW d, WriteClaim(w, s, d),
           NEW j \in Jobs, status[j] = "running", status'[j] # "running"
    PROVE  held[w] = j /\ heldAttempt[w] = attempts[j]
<1>1. Owns(w) /\ held[w] = j
  BY DEF WriteClaim, Release, row, TypeOK
<1>2. QED
  BY <1>1 DEF ClaimInv, GuardMeansOwnAttempt

(* A running job leaves that state by a write of the runner that holds its
   current attempt, or by recovery after its lease ran out. *)
THEOREM OnlyClaimantOrExpiryReleases ==
    ASSUME OwnersDistinct PROVE Spec => ReleasedByClaimantOrExpiry
<1> DEFINE Step ==
      \A j \in Jobs :
         status[j] = "running" /\ status'[j] # "running" =>
            \/ leaseAge[j] = Lease
            \/ \E w \in Workers : Active(w) /\ ~Active(w)'
                                    /\ held[w] = j /\ heldAttempt[w] = attempts[j]
<1>1. ASSUME TypeOK, ClaimInv, AnyStep PROVE Step
  <2> SUFFICES ASSUME NEW j \in Jobs, status[j] = "running", status'[j] # "running",
                      leaseAge[j] # Lease
               PROVE  \E w \in Workers : Active(w) /\ ~Active(w)'
                                           /\ held[w] = j /\ heldAttempt[w] = attempts[j]
    OBVIOUS
  <2>1. ASSUME NEW w \in Workers, CancelClaim(w) PROVE Active(w) /\ \E s, d : WriteClaim(w, s, d)
    BY <2>1 DEF CancelClaim, Active
  <2>2. ASSUME NEW w \in Workers, Succeed(w) \/ Reschedule(w) \/ Fail(w)
        PROVE  Active(w) /\ \E s, d : WriteClaim(w, s, d)
    BY <2>2 DEF Succeed, Reschedule, Fail, Active
  <2>3. ASSUME NEW i \in Jobs, Enqueue(i) PROVE FALSE
    BY <1>1, <2>3 DEF Enqueue, TypeOK
  <2>4. ASSUME NEW i \in Jobs, RequestCancel(i) PROVE FALSE
    BY <1>1, <2>4 DEF RequestCancel, TypeOK
  <2>5. ASSUME NEW w \in Workers, ReclaimCancelled(w) \/ ReclaimExhausted(w) \/ ReclaimAbandoned(w)
        PROVE  FALSE
    BY <2>5 DEF ReclaimCancelled, ReclaimExhausted, ReclaimAbandoned, Release, Expired
  <2>6. ASSUME NEW w \in Workers, NEW i \in Jobs, Claim(w, i) PROVE FALSE
    BY <1>1, <2>6 DEF Claim, TypeOK
  <2>7. ASSUME UNCHANGED status PROVE FALSE
    BY <2>7
  <2>8. ASSUME NEW w \in Workers,
               \/ StartRecovery(w) \/ ClaimNothing(w) \/ HandlerReturns(w) \/ LoseLease(w)
               \/ CheckCancel(w) \/ DropLostLease(w) \/ Abandon(w) \/ RenewLease(w)
               \/ UpdateProgress(w)
        PROVE  FALSE
    BY <2>7, <2>8 DEF StartRecovery, ClaimNothing, HandlerReturns, LoseLease, HandlerReturnsWith,
           CheckCancel, DropLostLease, Abandon, RenewLease, UpdateProgress, row
  <2>9. ASSUME (\E i \in Jobs : Get(i)) \/ Tick \/ UNCHANGED vars PROVE FALSE
    BY <2>7, <2>9 DEF Get, Tick, vars, row
  <2>10. \E w \in Workers : CancelClaim(w) \/ Succeed(w) \/ Reschedule(w) \/ Fail(w)
    <3> SUFFICES ASSUME ~(\E w \in Workers : CancelClaim(w) \/ Succeed(w) \/ Reschedule(w) \/ Fail(w))
                 PROVE  FALSE
      OBVIOUS
    <3>1. (\E i \in Jobs : Enqueue(i) \/ Get(i) \/ RequestCancel(i)) => FALSE
      BY <2>3, <2>4, <2>9
    <3>2. (\E w \in Workers : StartRecovery(w) \/ ReclaimCancelled(w) \/ ReclaimExhausted(w)
                              \/ ReclaimAbandoned(w)) => FALSE
      BY <2>5, <2>8
    <3>3. (\E w \in Workers, i \in Jobs : Claim(w, i)) => FALSE
      BY <2>6
    <3>4. QED
      BY <1>1, <2>8, <2>9, <3>1, <3>2, <3>3 DEF AnyStep
  <2>11. PICK w \in Workers : Active(w) /\ \E s, d : WriteClaim(w, s, d)
    BY <2>1, <2>2, <2>10
  <2>12. Active(w) /\ ~Active(w)' /\ held[w] = j /\ heldAttempt[w] = attempts[j]
    <3>1. PICK s, d : WriteClaim(w, s, d)
      BY <2>11
    <3>2. held[w] = j /\ heldAttempt[w] = attempts[j]
      BY <1>1, <2>11, <3>1, ReleaseByWrite
    <3>3. ~Active(w)'
      BY <1>1, <3>1 DEF WriteClaim, GoIdle, Active, TypeOK
    <3>4. QED
      BY <2>11, <3>2, <3>3
  <2>13. QED
    BY <2>12
<1>2. TypeOK /\ ClaimInv /\ [Next]_vars => [Step]_vars
  BY <1>1, NextIsAnyStep
<1>3. QED
  BY <1>2, TypeCorrect, ClaimInvAlways, PTL DEF Spec, ReleasedByClaimantOrExpiry
-----------------------------------------------------------------------------
(* Refinement of the job lifecycle. *)
LEMMA ReleaseMoves ==
    ASSUME TypeOK, NEW J \in SUBSET Jobs, NEW s \in Ended \cup {"queued"}, NEW d, Release(J, s, d),
           \A j \in J : status[j] = "running",
           s = "queued" => \A j \in J : attempts[j] < MaxAttempts[j]
    PROVE  Lifecycle!Next
<1>1. Lifecycle!Move(J, "running", s) /\ UNCHANGED attempts
  BY DEF Release, Lifecycle!Move
<1>2. CASE s = "queued"
  BY <1>1, <1>2 DEF Lifecycle!Next, Lifecycle!Requeue
<1>3. CASE s \in Ended
  BY <1>1, <1>3 DEF Lifecycle!Next, Lifecycle!End, Lifecycle!Ended, Ended
<1>4. QED
  BY <1>2, <1>3

LEMMA WriteMoves ==
    ASSUME TypeOK, NEW w \in Workers, Active(w), NEW s \in Ended \cup {"queued"}, NEW d,
           WriteClaim(w, s, d), s = "queued" /\ Owns(w) => attempts[held[w]] < MaxAttempts[held[w]]
    PROVE  Lifecycle!Next \/ UNCHANGED Lifecycle!vars
<1>1. CASE Owns(w)
  <2>1. {held[w]} \in SUBSET Jobs /\ Release({held[w]}, s, d)
    BY <1>1 DEF WriteClaim, TypeOK
  <2>2. QED
    BY <1>1, <2>1, ReleaseMoves DEF Owns
<1>2. CASE ~Owns(w)
  BY <1>2 DEF WriteClaim, row, Lifecycle!vars
<1>3. QED
  BY <1>1, <1>2

LEMMA LifecycleStep ==
    ASSUME TypeOK, ClaimInv, BudgetInv, AnyStep
    PROVE  Lifecycle!Next \/ UNCHANGED Lifecycle!vars
<1> DEFINE Goal == Lifecycle!Next \/ UNCHANGED Lifecycle!vars
<1>1. ASSUME NEW j \in Jobs, Enqueue(j) PROVE Goal
  <2>1. Lifecycle!Create({j})
    BY <1>1 DEF Enqueue, Lifecycle!Create, Lifecycle!Move, TypeOK
  <2>2. QED
    BY <2>1 DEF Lifecycle!Next
<1>2. ASSUME NEW j \in Jobs, RequestCancel(j) PROVE Goal
  <2>1. CASE status[j] = "queued"
    <3>1. Lifecycle!Withdraw({j})
      BY <1>2, <2>1 DEF RequestCancel, Lifecycle!Withdraw, Lifecycle!Move, TypeOK
    <3>2. QED
      BY <3>1 DEF Lifecycle!Next
  <2>2. CASE status[j] # "queued"
    BY <1>2, <2>2 DEF RequestCancel, Lifecycle!vars, TypeOK
  <2>3. QED
    BY <2>1, <2>2
<1>3. ASSUME NEW w \in Workers, ReclaimCancelled(w) PROVE Goal
  <2>1. /\ {j \in Expired : cancelReq[j]} \in SUBSET Jobs
        /\ \A j \in {i \in Expired : cancelReq[i]} : status[j] = "running"
    BY DEF Expired
  <2>2. QED
    BY <1>3, <2>1, ReleaseMoves DEF ReclaimCancelled, Ended
<1>4. ASSUME NEW w \in Workers, ReclaimExhausted(w) PROVE Goal
  <2> DEFINE J == {j \in Expired : ~cancelReq[j] /\ attempts[j] >= MaxAttempts[j]}
  <2>1. J \in SUBSET Jobs /\ (\A j \in J : status[j] = "running") /\ Release(J, "failed", 0)
    BY <1>4 DEF Expired, ReclaimExhausted
  <2>2. QED
    BY <2>1, ReleaseMoves DEF Ended
<1>5. ASSUME NEW w \in Workers, ReclaimAbandoned(w) PROVE Goal
  <2> DEFINE J == {j \in Expired : ~cancelReq[j] /\ attempts[j] < MaxAttempts[j]}
  <2>1. /\ J \in SUBSET Jobs /\ Release(J, "queued", 0)
        /\ \A j \in J : status[j] = "running" /\ attempts[j] < MaxAttempts[j]
    BY <1>5 DEF Expired, ReclaimAbandoned
  <2>2. QED
    BY <2>1, ReleaseMoves
<1>6. ASSUME NEW w \in Workers, NEW j \in Jobs, Claim(w, j) PROVE Goal
  <2>1. attempts[j] < MaxAttempts[j]
    BY <1>6 DEF Claim, Claimable, BudgetInv, AttemptBudget
  <2>2. Lifecycle!Start(j)
    BY <1>6, <2>1 DEF Claim, Claimable, Lifecycle!Start, Lifecycle!Move, TypeOK
  <2>3. QED
    BY <2>2 DEF Lifecycle!Next
<1>7. ASSUME NEW w \in Workers, CancelClaim(w) \/ Succeed(w) \/ Fail(w) PROVE Goal
  BY <1>7, WriteMoves DEF CancelClaim, Succeed, Fail, Active, Ended
<1>8. ASSUME NEW w \in Workers, Reschedule(w) PROVE Goal
  <2>1. Active(w) /\ (Owns(w) => attempts[held[w]] < MaxAttempts[held[w]])
    BY <1>8 DEF Reschedule, Active, ClaimInv, GuardMeansOwnAttempt
  <2>2. QED
    BY <1>8, <2>1, WriteMoves DEF Reschedule
<1>9. ASSUME UNCHANGED <<status, attempts>> PROVE Goal
  BY <1>9 DEF Lifecycle!vars
<1>10. QED
  BY <1>1, <1>2, <1>3, <1>4, <1>5, <1>6, <1>7, <1>8, <1>9
     DEF AnyStep, Get, StartRecovery, ClaimNothing, HandlerReturns, LoseLease, HandlerReturnsWith,
         CheckCancel, DropLostLease, Abandon, RenewLease, UpdateProgress, Tick, vars, row

(* The runtime implements JobLifecycle: in particular an ended job never moves
   again, and an attempt starts only while the budget lasts. *)
THEOREM RuntimeImplementsLifecycle == ASSUME OwnersDistinct PROVE Spec => ImplementsLifecycle
<1>1. Init => Lifecycle!Init
  BY DEF Init, Lifecycle!Init
<1>2. TypeOK /\ ClaimInv /\ BudgetInv /\ [Next]_vars => [Lifecycle!Next]_(Lifecycle!vars)
  BY LifecycleStep, NextIsAnyStep
<1>3. QED
  BY <1>1, <1>2, TypeCorrect, ClaimInvAlways, BudgetInvAlways, PTL
     DEF Spec, ImplementsLifecycle, Lifecycle!Spec
-----------------------------------------------------------------------------
(* Refinement of LeasedJob.  What its mapping needs of an active runner: its
   attempt counts, a row that still carries its attempt carries its WorkerID too,
   and who is about to cancel has seen the request. *)
RunnerInv ==
    \A w \in Workers : Active(w) =>
        /\ heldAttempt[w] > 0
        /\ status[held[w]] = "running" /\ heldAttempt[w] = attempts[held[w]] =>
               owner[held[w]] = OwnerOf[w]
        /\ pc[w] = "cancelling" => cancelReq[held[w]]

LEMMA CancellingMoves ==
    ASSUME TypeOK, AnyStep
    PROVE  /\ \A j \in Jobs : cancelReq[j] => cancelReq'[j]
           /\ \A w \in Workers : pc'[w] = "cancelling" =>
                 \/ pc[w] = "cancelling"
                 \/ pc[w] = "checking" /\ cancelReq[held[w]]
<1> DEFINE Goal == /\ \A j \in Jobs : cancelReq[j] => cancelReq'[j]
                   /\ \A w \in Workers : pc'[w] = "cancelling" =>
                         pc[w] = "cancelling" \/ (pc[w] = "checking" /\ cancelReq[held[w]])
<1>1. ASSUME NEW j \in Jobs, Enqueue(j) \/ Get(j) PROVE Goal
  BY <1>1 DEF Enqueue, Get, runner
<1>2. ASSUME NEW j \in Jobs, RequestCancel(j) PROVE Goal
  BY <1>2 DEF RequestCancel, runner, TypeOK
<1>3. ASSUME NEW w \in Workers, NEW label \in {"expireCancelled", "expireExhausted", "expireRest", "claiming", "idle"},
             GoTo(w, label), cancelReq' = cancelReq
      PROVE  Goal
  BY <1>3 DEF GoTo, TypeOK
<1>4. ASSUME NEW w \in Workers,
             \/ StartRecovery(w) \/ ReclaimCancelled(w) \/ ReclaimExhausted(w) \/ ReclaimAbandoned(w)
             \/ ClaimNothing(w)
      PROVE  Goal
  BY <1>3, <1>4 DEF StartRecovery, ReclaimCancelled, ReclaimExhausted, ReclaimAbandoned, ClaimNothing,
                    Release, row
<1>5. ASSUME NEW w \in Workers, NEW j \in Jobs, Claim(w, j) PROVE Goal
  BY <1>5 DEF Claim, TypeOK
<1>6. ASSUME NEW w \in Workers, HandlerReturns(w) \/ LoseLease(w) PROVE Goal
  BY <1>6 DEF HandlerReturns, LoseLease, HandlerReturnsWith, row, TypeOK
<1>7. ASSUME NEW w \in Workers, CheckCancel(w) PROVE Goal
  BY <1>7 DEF CheckCancel, GoTo, row, TypeOK
<1>8. ASSUME NEW w \in Workers, GoIdle(w), cancelReq' = cancelReq PROVE Goal
  BY <1>8 DEF GoIdle, TypeOK
<1>9. ASSUME NEW w \in Workers, CancelClaim(w) \/ Succeed(w) \/ Reschedule(w) \/ Fail(w)
      PROVE  Goal
  BY <1>8, <1>9 DEF CancelClaim, Succeed, Reschedule, Fail, WriteClaim, Release, row
<1>10. ASSUME NEW w \in Workers, DropLostLease(w) \/ Abandon(w) PROVE Goal
  BY <1>8, <1>10 DEF DropLostLease, Abandon, row
<1>11. ASSUME NEW w \in Workers, RenewLease(w) \/ UpdateProgress(w) PROVE Goal
  BY <1>11 DEF RenewLease, UpdateProgress, runner
<1>12. ASSUME Tick \/ UNCHANGED vars PROVE Goal
  BY <1>12 DEF Tick, vars, row, runner
<1>13. QED
  BY <1>1, <1>2, <1>4, <1>5, <1>6, <1>7, <1>9, <1>10, <1>11, <1>12 DEF AnyStep

LEMMA RunnerKeeps ==
    ASSUME TypeOK, TypeOK', ClaimInv, RunnerInv, AnyStep
    PROVE  RunnerInv'
<1> SUFFICES ASSUME NEW v \in Workers, Active(v)'
             PROVE  /\ heldAttempt'[v] > 0
                    /\ status'[held'[v]] = "running" /\ heldAttempt'[v] = attempts'[held'[v]] =>
                           owner'[held'[v]] = OwnerOf[v]
                    /\ pc'[v] = "cancelling" => cancelReq'[held'[v]]
  BY DEF RunnerInv
<1>1. CASE ClaimsNothing
  <2>1. /\ Active(v) /\ held'[v] = held[v] /\ heldAttempt'[v] = heldAttempt[v] /\ held[v] \in Jobs
        /\ attempts' = attempts
        /\ status'[held[v]] = "running" => status[held[v]] = "running" /\ owner'[held[v]] = owner[held[v]]
    BY <1>1 DEF ClaimsNothing, TypeOK
  <2>2. pc'[v] = "cancelling" => cancelReq'[held[v]]
    BY <2>1, CancellingMoves DEF RunnerInv
  <2>3. QED
    BY <2>1, <2>2 DEF RunnerInv
<1>2. ASSUME NEW w \in Workers, NEW j \in Jobs, Claim(w, j)
      PROVE  /\ heldAttempt'[v] > 0
             /\ status'[held'[v]] = "running" /\ heldAttempt'[v] = attempts'[held'[v]] =>
                    owner'[held'[v]] = OwnerOf[v]
             /\ pc'[v] = "cancelling" => cancelReq'[held'[v]]
  <2> USE <1>2 DEF Claim
  <2>1. CASE v = w
    BY <2>1 DEF TypeOK
  <2>2. CASE v # w
    <3>1. /\ Active(v) /\ held'[v] = held[v] /\ heldAttempt'[v] = heldAttempt[v] /\ pc'[v] = pc[v]
          /\ held[v] \in Jobs
      BY <2>2 DEF Active, TypeOK
    <3>2. held[v] = j => heldAttempt[v] # attempts'[j]
      BY <3>1 DEF ClaimInv, TypeOK
    <3>3. held[v] # j => UNCHANGED <<status[held[v]], attempts[held[v]], owner[held[v]]>>
      BY <3>1 DEF TypeOK
    <3>4. QED
      BY <3>1, <3>2, <3>3 DEF RunnerInv
  <2>3. QED
    BY <2>1, <2>2
<1>3. QED
  BY <1>1, <1>2, OnlyClaimClaims

(* What the steps below may use. *)
SeenInv == TypeOK /\ ClaimInv /\ BudgetInv /\ RunnerInv

Limit == MaxAttempts[Job]

LEMMA Seen == Job \in Jobs /\ Job \in Handled /\ Limit \in Nat \ {0}
BY JobAssumption, SeenAssumption DEF Limit

(* At most one runner executes an attempt. *)
LEMMA RunAtWorker ==
    ASSUME AttemptsAreDistinct, NEW w \in Workers, NEW k, Works(w, k)
    PROVE  RunAt(k) = Place(w)
<1>1. \A v \in Workers : Works(v, k) => v = w
  BY DEF AttemptsAreDistinct, Works
<1>2. (CHOOSE v \in Workers : Works(v, k)) = w
  BY <1>1
<1>3. QED
  BY <1>2 DEF RunAt

LEMMA RunAtWorkerNext ==
    ASSUME AttemptsAreDistinct', NEW w \in Workers, NEW k, Works(w, k)'
    PROVE  RunAt(k)' = Place(w)'
<1>1. \A v \in Workers : Works(v, k)' => v = w
  BY DEF AttemptsAreDistinct, Works
<1>2. (CHOOSE v \in Workers : Works(v, k)') = w
  BY <1>1
<1>3. QED
  BY <1>2 DEF RunAt

(* The run of an attempt stays where it is if its runner does. *)
LEMMA RunAtStays ==
    ASSUME AttemptsAreDistinct, AttemptsAreDistinct', NEW k,
           \A v \in Workers : /\ Works(v, k)' <=> Works(v, k)
                              /\ Works(v, k) => Place(v)' = Place(v)
    PROVE  RunAt(k)' = RunAt(k)
<1>1. CASE \E v \in Workers : Works(v, k)
  <2>1. PICK v \in Workers : Works(v, k)
    BY <1>1
  <2>2. QED
    BY <2>1, RunAtWorker, RunAtWorkerNext
<1>2. CASE ~ \E v \in Workers : Works(v, k)
  BY <1>2 DEF RunAt
<1>3. QED
  BY <1>1, <1>2

(* The steps of the runs of Job, as LeasedJob sees them. *)
LEMMA GoesTo ==
    ASSUME NEW k \in 1..Limit, NEW label,
           \A i \in 1..Limit : RunAt(i)' = IF i = k THEN label ELSE RunAt(i)
    PROVE  Leased!Go(<<1, k>>, label)
<1> DEFINE R == {1} \X (1..Limit)
<1>1. \A r \in R : r = <<1, k>> <=> r[2] = k
  OBVIOUS
<1>2. [r \in R |-> RunAt(r[2])'] = [[r \in R |-> RunAt(r[2])] EXCEPT ![<<1, k>>] = label]
  BY <1>1
<1>3. QED
  BY <1>2 DEF Leased!Go, Limit

LEMMA RunsStay ==
    ASSUME \A i \in 1..Limit : RunAt(i)' = RunAt(i)
    PROVE  [r \in {1} \X (1..Limit) |-> RunAt(r[2])]' = [r \in {1} \X (1..Limit) |-> RunAt(r[2])]
OBVIOUS

(* Only the runner of a step moves, and with it the run it executes. *)
OnlyMoves(w) ==
    \A v \in Workers \ {w} : UNCHANGED <<pc[v], held[v], heldAttempt[v], outcome[v]>>

LEMMA OthersStay ==
    ASSUME AttemptsAreDistinct, AttemptsAreDistinct', NEW w \in Workers, OnlyMoves(w),
           NEW k, ~Works(w, k), ~Works(w, k)'
    PROVE  RunAt(k)' = RunAt(k)
<1>1. \A v \in Workers : /\ Works(v, k)' <=> Works(v, k)
                         /\ Works(v, k) => Place(v)' = Place(v)
  BY DEF OnlyMoves, Works, Place, Active
<1>2. QED
  BY <1>1, RunAtStays

(* ... from one place to another, or to its end. *)
LEMMA WorkerMoves ==
    ASSUME SeenInv, SeenInv', NEW w \in Workers, OnlyMoves(w), NEW k, Works(w, k),
           (held'[w] = held[w] /\ heldAttempt'[w] = heldAttempt[w]) \/ ~Active(w)'
    PROVE  /\ k \in 1..Limit /\ RunAt(k) = Place(w)
           /\ Works(w, k)' => Leased!Go(<<1, k>>, Place(w)')
           /\ ~Works(w, k)' => Leased!Go(<<1, k>>, "off")
<1>1. AttemptsAreDistinct /\ AttemptsAreDistinct'
  BY DEF SeenInv, ClaimInv
<1>2. k \in 1..Limit
  BY Seen DEF SeenInv, Works, ClaimInv, BudgetInv, AttemptBudget, RunnerInv, TypeOK, Limit
<1>3. \A i \in 1..Limit : i # k => RunAt(i)' = RunAt(i)
  <2> SUFFICES ASSUME NEW i \in 1..Limit, i # k PROVE RunAt(i)' = RunAt(i)
    OBVIOUS
  <2>1. ~Works(w, i) /\ ~Works(w, i)'
    BY DEF Works
  <2>2. QED
    BY <1>1, <2>1, OthersStay
<1>4. ASSUME Works(w, k)' PROVE Leased!Go(<<1, k>>, Place(w)')
  <2>1. RunAt(k)' = Place(w)'
    BY <1>1, <1>4, RunAtWorkerNext
  <2>2. QED
    BY <1>2, <1>3, <2>1, GoesTo
<1>5. ASSUME ~Works(w, k)' PROVE Leased!Go(<<1, k>>, "off")
  <2>1. \A v \in Workers : ~Works(v, k)'
    BY <1>1, <1>5 DEF OnlyMoves, Works, Active, AttemptsAreDistinct
  <2>2. RunAt(k)' = "off"
    BY <2>1 DEF RunAt
  <2>3. QED
    BY <1>2, <1>3, <2>2, GoesTo
<1>6. QED
  BY <1>1, <1>2, <1>4, <1>5, RunAtWorker

(* A step of the runtime is one of LeasedJob, or none, for the job looked at. *)
LeasedStep == Leased!LeasedNext \/ UNCHANGED Leased!jobs

LEMMA RunSeen ==
    ASSUME NEW k \in 1..Limit
    PROVE  /\ <<1, k>> \in Leased!Runs
           /\ [r \in {1} \X (1..MaxAttempts[Job]) |-> RunAt(r[2])][<<1, k>>] = RunAt(k)
<1>1. k \in 1..MaxAttempts[Job]
  BY DEF Limit
<1>2. 1 \in Leased!JobIds /\ [i \in 1..1 |-> MaxAttempts[Job]][1] = MaxAttempts[Job]
  BY DEF Leased!JobIds
<1>3. <<1, k>> \in {1} \X (1..[i \in 1..1 |-> MaxAttempts[Job]][1])
  BY <1>1, <1>2
<1>4. <<1, k>> \in Leased!Runs
  BY <1>2, <1>3 DEF Leased!Runs
<1>5. QED
  BY <1>1, <1>4

LEMMA OneEntry ==
    \A x, y : [[i \in 1..1 |-> x] EXCEPT ![1] = y] = [i \in 1..1 |-> y]
OBVIOUS

LEMMA RowStays ==
    ASSUME UNCHANGED <<status[Job], attempts[Job], cancelReq[Job]>> PROVE UNCHANGED Leased!jobRow
BY DEF Leased!jobRow

LEMMA JobStays ==
    ASSUME UNCHANGED <<status[Job], attempts[Job], cancelReq[Job]>>,
           \A i \in 1..Limit : RunAt(i)' = RunAt(i)
    PROVE  LeasedStep
<1>1. UNCHANGED Leased!jobRow
  BY RowStays
<1>2. [r \in {1} \X (1..MaxAttempts[Job]) |-> RunAt(r[2])]' = [r \in {1} \X (1..MaxAttempts[Job]) |-> RunAt(r[2])]
  BY RunsStay DEF Limit
<1>3. QED
  BY <1>1, <1>2 DEF LeasedStep, Leased!jobs

LEMMA RunnersStay ==
    ASSUME UNCHANGED runner PROVE \A i \in 1..Limit : RunAt(i)' = RunAt(i)
BY DEF runner, RunAt, Works, Place, Active

LEMMA IdleStays ==
    ASSUME SeenInv, SeenInv', NEW w \in Workers, OnlyMoves(w), ~Active(w), ~Active(w)'
    PROVE  \A i \in 1..Limit : RunAt(i)' = RunAt(i)
<1>1. AttemptsAreDistinct /\ AttemptsAreDistinct'
  BY DEF SeenInv, ClaimInv
<1>2. \A i : ~Works(w, i) /\ ~Works(w, i)'
  BY DEF Works
<1>3. QED
  BY <1>1, <1>2, OthersStay

LEMMA CallerSteps ==
    ASSUME SeenInv, SeenInv', NEW j \in Jobs, Enqueue(j) \/ Get(j) \/ RequestCancel(j)
    PROVE  LeasedStep
<1> DEFINE runs == [r \in {1} \X (1..MaxAttempts[Job]) |-> RunAt(r[2])]
<1>1. UNCHANGED runner
  BY DEF Enqueue, Get, RequestCancel
<1>2. /\ \A i \in 1..Limit : RunAt(i)' = RunAt(i)
      /\ runs' = runs
  BY <1>1, RunnersStay, RunsStay DEF Limit
<1>3. TypeOK /\ Job \in Jobs /\ 1 \in Leased!JobIds
  BY Seen DEF SeenInv, Leased!JobIds
<1>4. CASE j # Job \/ Get(j)
  <2>1. UNCHANGED <<status[Job], attempts[Job], cancelReq[Job]>>
    BY <1>3, <1>4 DEF Enqueue, Get, RequestCancel, TypeOK
  <2>2. QED
    BY <1>2, <2>1, JobStays
<1>5. CASE Enqueue(Job)
  <2>1. status'[Job] = "queued" /\ status[Job] = "absent" /\ UNCHANGED <<attempts, cancelReq>>
    BY <1>3, <1>5 DEF Enqueue, TypeOK
  <2>2. Leased!Enqueue(1)
    BY <1>2, <2>1 DEF Leased!Enqueue
  <2>3. QED
    BY <1>3, <2>2 DEF LeasedStep, Leased!LeasedNext
<1>6. CASE RequestCancel(Job)
  <2>1. /\ status[Job] \in {"queued", "running"} /\ UNCHANGED attempts /\ cancelReq'[Job] = TRUE
        /\ status'[Job] = IF status[Job] = "queued" THEN "cancelled" ELSE status[Job]
    BY <1>3, <1>6 DEF RequestCancel, TypeOK
  <2> DEFINE st == [i \in 1..1 |-> status[Job]]
             cr == [i \in 1..1 |-> cancelReq[Job]]
             at == [i \in 1..1 |-> attempts[Job]]
  <2>2. st[1] \in {"queued", "running"} /\ at' = at
    BY <2>1
  <2>3. st' = [st EXCEPT ![1] = IF @ = "queued" THEN "cancelled" ELSE @]
    BY <2>1
  <2>4. cr' = [cr EXCEPT ![1] = TRUE]
    <3>1. cancelReq' = [cancelReq EXCEPT ![Job] = TRUE] /\ cancelReq \in [Jobs -> BOOLEAN]
      BY <1>3, <1>6 DEF RequestCancel, TypeOK
    <3>2. cancelReq'[Job] = TRUE
      BY <1>3, <3>1
    <3>3. cr' = [i \in 1..1 |-> TRUE]
      BY <3>2
    <3>4. [cr EXCEPT ![1] = TRUE] = [i \in 1..1 |-> TRUE]
      BY OneEntry
    <3>5. QED
      BY <3>3, <3>4
  <2>5. Leased!RequestCancel(1)
    BY <1>2, <2>2, <2>3, <2>4 DEF Leased!RequestCancel, Leased!Active
  <2>6. QED
    BY <1>3, <2>5 DEF LeasedStep, Leased!LeasedNext
<1>7. QED
  BY <1>4, <1>5, <1>6

LEMMA LapseSteps ==
    ASSUME SeenInv, SeenInv', UNCHANGED <<attempts, cancelReq>>, status[Job] = "running",
           status'[Job] = IF cancelReq[Job] THEN "cancelled"
                          ELSE IF attempts[Job] < Limit THEN "queued" ELSE "failed",
           \A i \in 1..Limit : RunAt(i)' = RunAt(i)
    PROVE  LeasedStep
<1> DEFINE runs == [r \in {1} \X (1..MaxAttempts[Job]) |-> RunAt(r[2])]
<1>1. runs' = runs
  BY RunsStay DEF Limit
<1>2. Leased!Lapse(1)
  BY <1>1 DEF Leased!Lapse, Limit
<1>3. 1 \in Leased!JobIds
  BY DEF Leased!JobIds
<1>4. QED
  BY <1>2, <1>3 DEF LeasedStep, Leased!LeasedNext

LEMMA ReclaimSteps ==
    ASSUME SeenInv, SeenInv', NEW w \in Workers,
           ReclaimCancelled(w) \/ ReclaimExhausted(w) \/ ReclaimAbandoned(w)
    PROVE  LeasedStep
<1>1. TypeOK /\ Job \in Jobs
  BY Seen DEF SeenInv
<1>2. OnlyMoves(w) /\ ~Active(w) /\ ~Active(w)'
  BY <1>1 DEF ReclaimCancelled, ReclaimExhausted, ReclaimAbandoned, GoTo, OnlyMoves, Active, TypeOK
<1>3. \A i \in 1..Limit : RunAt(i)' = RunAt(i)
  BY <1>2, IdleStays
<1>4. /\ UNCHANGED <<attempts, cancelReq>>
      /\ \/ status'[Job] = status[Job]
         \/ /\ status[Job] = "running"
            /\ status'[Job] = IF cancelReq[Job] THEN "cancelled"
                              ELSE IF attempts[Job] < MaxAttempts[Job] THEN "queued" ELSE "failed"
  <2>1. attempts[Job] \in Nat /\ MaxAttempts[Job] \in Nat
    BY <1>1, JobAssumption DEF TypeOK
  <2>2. QED
    BY <1>1, <2>1 DEF ReclaimCancelled, ReclaimExhausted, ReclaimAbandoned, Release, Expired, TypeOK
<1>5. QED
  BY <1>3, <1>4, JobStays, LapseSteps DEF Limit

(* Claim starts the run of the next attempt, which nobody executes yet. *)
LEMMA ClaimSteps ==
    ASSUME SeenInv, SeenInv', NEW w \in Workers, NEW j \in Jobs, Claim(w, j)
    PROVE  LeasedStep
<1>1. /\ TypeOK /\ TypeOK' /\ Job \in Jobs /\ Job \in Handled
      /\ AttemptsAreDistinct /\ AttemptsAreDistinct'
  BY Seen DEF SeenInv, ClaimInv
<1>2. OnlyMoves(w) /\ ~Active(w) /\ held'[w] = j /\ heldAttempt'[w] = attempts[j] + 1
  BY <1>1 DEF Claim, OnlyMoves, Active, TypeOK
<1>3. CASE j # Job
  <2>1. UNCHANGED <<status[Job], attempts[Job], cancelReq[Job]>>
    BY <1>1, <1>3 DEF Claim, TypeOK
  <2>2. \A i : ~Works(w, i) /\ ~Works(w, i)'
    BY <1>2, <1>3 DEF Works
  <2>3. \A i \in 1..Limit : RunAt(i)' = RunAt(i)
    BY <1>1, <1>2, <2>2, OthersStay
  <2>4. QED
    BY <2>1, <2>3, JobStays
<1>4. CASE j = Job
  <2> PICK k : k = attempts[Job] + 1
    OBVIOUS
  <2> DEFINE st == [i \in 1..1 |-> status[Job]]
             at == [i \in 1..1 |-> attempts[Job]]
             cr == [i \in 1..1 |-> cancelReq[Job]]
  <2>1. k \in 1..Limit
    BY <1>1, <1>4, Seen DEF Claim, Claimable, SeenInv, BudgetInv, AttemptBudget, TypeOK, Limit
  <2>2. Works(w, k)' /\ Place(w)' = "claimed"
    <3>1. pc'[w] = "handling"
      BY <1>1, <1>4 DEF Claim, TypeOK
    <3>2. QED
      BY <1>2, <1>4, <3>1 DEF Works, Active, Place
  <2>3. RunAt(k)' = "claimed"
    BY <1>1, <2>1, <2>2, RunAtWorkerNext
  <2>4. \A i \in 1..Limit : i # k => RunAt(i)' = RunAt(i)
    <3> SUFFICES ASSUME NEW i \in 1..Limit, i # k PROVE RunAt(i)' = RunAt(i)
      OBVIOUS
    <3>1. ~Works(w, i) /\ ~Works(w, i)'
      BY <1>2, <1>4 DEF Works
    <3>2. QED
      BY <1>1, <1>2, <3>1, OthersStay
  <2>5. Leased!Go(<<1, k>>, "claimed")
    BY <2>1, <2>3, <2>4, GoesTo
  <2>6. /\ st[1] = "queued" /\ ~cr[1] /\ at[1] = attempts[Job] /\ cr' = cr
        /\ status'[Job] = "running" /\ attempts'[Job] = k
    BY <1>1, <1>4 DEF Claim, Claimable, TypeOK
  <2>7. st' = [st EXCEPT ![1] = "running"] /\ at' = [at EXCEPT ![1] = @ + 1]
    BY <2>6, OneEntry
  <2>8. Leased!Claim(1)
    BY <2>5, <2>6, <2>7 DEF Leased!Claim
  <2>9. QED
    BY <2>8 DEF LeasedStep, Leased!LeasedNext, Leased!JobIds
<1>5. QED
  BY <1>3, <1>4

(* A runner stops executing: it drops its claim, dies, or is told that the lease
   is lost. *)
LEMMA StopSteps ==
    ASSUME SeenInv, SeenInv', NEW w \in Workers, OnlyMoves(w), ~Active(w)' \/ outcome'[w] = "leaseLost",
           (held'[w] = held[w] /\ heldAttempt'[w] = heldAttempt[w]) \/ ~Active(w)',
           pc'[w] # "handling", UNCHANGED row
    PROVE  LeasedStep
<1>1. UNCHANGED <<status[Job], attempts[Job], cancelReq[Job]>> /\ UNCHANGED Leased!jobRow
  BY RowStays DEF row
<1>2. AttemptsAreDistinct /\ AttemptsAreDistinct'
  BY DEF SeenInv, ClaimInv
<1>3. \A i : ~Works(w, i)'
  BY DEF Works
<1>4. ASSUME NEW k, Works(w, k) PROVE LeasedStep
  <2>1. k \in 1..Limit /\ RunAt(k) = Place(w) /\ Leased!Go(<<1, k>>, "off")
    BY <1>3, <1>4, WorkerMoves
  <2>2. Place(w) # "off"
    BY DEF Place
  <2>3. Leased!GiveUp(<<1, k>>)
    BY <1>1, <2>1, <2>2, RunSeen DEF Leased!GiveUp
  <2>4. QED
    BY <2>1, <2>3, RunSeen DEF LeasedStep, Leased!LeasedNext
<1>5. CASE \A i : ~Works(w, i)
  <2>1. \A i \in 1..Limit : RunAt(i)' = RunAt(i)
    BY <1>2, <1>3, <1>5, OthersStay
  <2>2. QED
    BY <1>1, <2>1, JobStays
<1>6. QED
  BY <1>4, <1>5

LEMMA ReturnSteps ==
    ASSUME SeenInv, SeenInv', NEW w \in Workers, pc[w] = "handling",
           NEW o \in {"ok", "deferred", "badDeferral", "failed"}, HandlerReturnsWith(w, o)
    PROVE  LeasedStep
<1>1. /\ TypeOK /\ AttemptsAreDistinct /\ AttemptsAreDistinct'
      /\ UNCHANGED <<status[Job], attempts[Job], cancelReq[Job]>> /\ UNCHANGED Leased!jobRow
  BY RowStays DEF SeenInv, ClaimInv, HandlerReturnsWith, row
<1>2. /\ OnlyMoves(w) /\ held'[w] = held[w] /\ heldAttempt'[w] = heldAttempt[w]
      /\ pc'[w] = "checking" /\ outcome'[w] = o
  BY <1>1 DEF HandlerReturnsWith, OnlyMoves, TypeOK
<1>3. CASE held[w] # Job
  <2>1. \A i : ~Works(w, i) /\ ~Works(w, i)'
    BY <1>2, <1>3 DEF Works
  <2>2. \A i \in 1..Limit : RunAt(i)' = RunAt(i)
    BY <1>1, <1>2, <2>1, OthersStay
  <2>3. QED
    BY <1>1, <2>2, JobStays
<1>4. CASE held[w] = Job
  <2> PICK k : k = heldAttempt[w]
    OBVIOUS
  <2>1. Works(w, k) /\ Works(w, k)' /\ Place(w) = "claimed" /\ Place(w)' \in Leased!Returned
    BY <1>2, <1>4 DEF Works, Active, Place, Leased!Returned
  <2>2. k \in 1..Limit /\ RunAt(k) = "claimed" /\ Leased!Go(<<1, k>>, Place(w)')
    BY <1>2, <2>1, WorkerMoves
  <2>3. Leased!Return(<<1, k>>)
    BY <1>1, <2>1, <2>2, RunSeen DEF Leased!Return
  <2>4. QED
    BY <2>2, <2>3, RunSeen DEF LeasedStep, Leased!LeasedNext
<1>5. QED
  BY <1>3, <1>4

(* The check for a cancellation: with a request, LeasedJob moves only when the
   cancellation is written. *)
LEMMA CheckSteps ==
    ASSUME SeenInv, SeenInv', NEW w \in Workers, CheckCancel(w)
    PROVE  LeasedStep
<1>1. /\ TypeOK /\ AttemptsAreDistinct /\ AttemptsAreDistinct' /\ pc[w] = "checking"
      /\ UNCHANGED <<status[Job], attempts[Job], cancelReq[Job]>> /\ UNCHANGED Leased!jobRow
  BY RowStays DEF SeenInv, ClaimInv, CheckCancel, row
<1>2. /\ OnlyMoves(w) /\ UNCHANGED <<held, heldAttempt, outcome>>
      /\ pc'[w] = IF cancelReq[held[w]] THEN "cancelling" ELSE "finishing"
  BY <1>1 DEF CheckCancel, GoTo, OnlyMoves, TypeOK
<1>3. \A i : Works(w, i)' <=> Works(w, i)
  BY <1>1, <1>2 DEF Works, Active
<1>4. CASE \A i : ~Works(w, i)
  <2>1. \A i \in 1..Limit : RunAt(i)' = RunAt(i)
    BY <1>1, <1>2, <1>3, <1>4, OthersStay
  <2>2. QED
    BY <1>1, <2>1, JobStays
<1>5. ASSUME NEW k, Works(w, k), cancelReq[Job] PROVE LeasedStep
  <2>1. Place(w)' = Place(w)
    BY <1>1, <1>2, <1>5 DEF Works, Place
  <2>2. \A v \in Workers, i \in 1..Limit : /\ Works(v, i)' <=> Works(v, i)
                                           /\ Works(v, i) => Place(v)' = Place(v)
    BY <1>2, <1>3, <2>1 DEF OnlyMoves, Works, Place, Active
  <2>3. \A i \in 1..Limit : RunAt(i)' = RunAt(i)
    BY <1>1, <2>2, RunAtStays
  <2>4. QED
    BY <1>1, <2>3, JobStays
<1>6. ASSUME NEW k, Works(w, k), ~cancelReq[Job] PROVE LeasedStep
  <2>1. pc'[w] = "finishing" /\ heldAttempt[w] = k
    BY <1>2, <1>6 DEF Works
  <2>2. k \in 1..Limit /\ RunAt(k) = Place(w) /\ Leased!Go(<<1, k>>, Place(w)')
    BY <1>2, <1>3, <1>6, WorkerMoves
  <2>3. /\ Place(w) \in Leased!Returned
        /\ Place(w)' = CASE Place(w) = "ok" -> "succeed"
                         [] Place(w) = "deferred" /\ k < MaxAttempts[Job] -> "reschedule"
                         [] OTHER -> "fail"
    BY <1>1, <1>2, <2>1 DEF Place, Leased!Returned
  <2>4. Leased!Go(<<1, k>>, CASE RunAt(k) = "ok" -> "succeed"
                              [] RunAt(k) = "deferred" /\ k < MaxAttempts[Job] -> "reschedule"
                              [] OTHER -> "fail")
    BY <2>2, <2>3
  <2>5. /\ RunAt(k) \in Leased!Returned
        /\ <<1, k>>[1] = 1 /\ <<1, k>>[2] = k /\ 1 \in 1..1
    BY <2>2, <2>3
  <2>6. Leased!CheckCancel(<<1, k>>)
    BY <1>1, <1>6, <2>2, <2>4, <2>5, RunSeen DEF Leased!CheckCancel, Leased!jobRow
  <2>7. QED
    BY <2>2, <2>6, RunSeen DEF LeasedStep, Leased!LeasedNext, Leased!RunnerStep
<1>7. QED
  BY <1>4, <1>5, <1>6

(* The guard of the store and the one of LeasedJob are the same. *)
LEMMA OwnsIsCurrent ==
    ASSUME SeenInv, NEW w \in Workers, Active(w), held[w] = Job
    PROVE  Owns(w) <=> status[Job] = "running" /\ attempts[Job] = heldAttempt[w]
BY DEF SeenInv, ClaimInv, GuardMeansOwnAttempt, RunnerInv, Owns

(* What a write of a claim does to the job and its run. *)
LEMMA WriteMovesRun ==
    ASSUME SeenInv, SeenInv', NEW w \in Workers, Active(w), NEW s, s # "running", NEW d, WriteClaim(w, s, d)
    PROVE  /\ UNCHANGED <<attempts[Job], cancelReq[Job]>>
           /\ status'[Job] = IF held[w] = Job /\ Owns(w) THEN s ELSE status[Job]
           /\ \A k : Works(w, k) => k \in 1..Limit /\ RunAt(k) = Place(w) /\ Leased!Go(<<1, k>>, "off")
           /\ (\A k : ~Works(w, k)) => \A i \in 1..Limit : RunAt(i)' = RunAt(i)
<1>1. TypeOK /\ Job \in Jobs /\ AttemptsAreDistinct /\ AttemptsAreDistinct' /\ held[w] \in Jobs
  BY Seen DEF SeenInv, ClaimInv, TypeOK
<1>2. OnlyMoves(w) /\ ~Active(w)'
  BY <1>1 DEF WriteClaim, GoIdle, OnlyMoves, Active, TypeOK
<1>3. /\ UNCHANGED <<attempts[Job], cancelReq[Job]>>
      /\ status'[Job] = IF held[w] = Job /\ Owns(w) THEN s ELSE status[Job]
  BY <1>1 DEF WriteClaim, Release, row
<1>4. \A k : ~Works(w, k)'
  BY <1>2 DEF Works
<1>5. QED
  BY <1>1, <1>2, <1>3, <1>4, WorkerMoves, OthersStay

LEMMA CancelSteps ==
    ASSUME SeenInv, SeenInv', NEW w \in Workers, CancelClaim(w)
    PROVE  LeasedStep
<1>1. /\ TypeOK /\ Active(w) /\ pc[w] = "cancelling" /\ cancelReq[held[w]] /\ UNCHANGED <<attempts, cancelReq>>
  BY DEF SeenInv, CancelClaim, Active, RunnerInv, WriteClaim, Release, row
<1>2. /\ status'[Job] = IF held[w] = Job /\ Owns(w) THEN "cancelled" ELSE status[Job]
      /\ \A k : Works(w, k) => k \in 1..Limit /\ RunAt(k) = Place(w) /\ Leased!Go(<<1, k>>, "off")
      /\ (\A k : ~Works(w, k)) => \A i \in 1..Limit : RunAt(i)' = RunAt(i)
  BY <1>1, WriteMovesRun DEF CancelClaim
<1>3. CASE \A k : ~Works(w, k)
  <2>1. CASE held[w] = Job /\ Owns(w)
    BY <1>1, <1>2, <1>3, <2>1, LapseSteps DEF Owns
  <2>2. CASE ~(held[w] = Job /\ Owns(w))
    BY <1>1, <1>2, <1>3, <2>2, JobStays
  <2>3. QED
    BY <2>1, <2>2
<1>4. ASSUME NEW k, Works(w, k) PROVE LeasedStep
  <2> DEFINE st == [i \in 1..1 |-> status[Job]]
             at == [i \in 1..1 |-> attempts[Job]]
             cr == [i \in 1..1 |-> cancelReq[Job]]
  <2>1. held[w] = Job /\ heldAttempt[w] = k
    BY <1>4 DEF Works
  <2>2. k \in 1..Limit /\ RunAt(k) \in Leased!Returned /\ Leased!Go(<<1, k>>, "off")
    BY <1>1, <1>2, <1>4 DEF Place, Leased!Returned
  <2>3. /\ cr[1] /\ at' = at /\ cr' = cr
        /\ status'[Job] = IF st[1] = "running" /\ at[1] = k THEN "cancelled" ELSE st[1]
    BY <1>1, <1>2, <2>1, OwnsIsCurrent
  <2>4. st' = IF st[1] = "running" /\ at[1] = k THEN [st EXCEPT ![1] = "cancelled"] ELSE st
    BY <2>3, OneEntry
  <2>5. <<1, k>>[1] = 1 /\ <<1, k>>[2] = k
    OBVIOUS
  <2>6. Leased!CheckCancel(<<1, k>>)
    BY <2>2, <2>3, <2>4, <2>5, RunSeen DEF Leased!CheckCancel, Leased!Current
  <2>7. QED
    BY <2>2, <2>6, RunSeen DEF LeasedStep, Leased!LeasedNext, Leased!RunnerStep
<1>5. QED
  BY <1>3, <1>4

(* Succeed, Reschedule and Fail. *)
LEMMA SettleSteps ==
    ASSUME SeenInv, SeenInv', NEW w \in Workers, Succeed(w) \/ Reschedule(w) \/ Fail(w)
    PROVE  LeasedStep
<1> DEFINE s == CASE outcome[w] = "ok" -> "succeeded"
                  [] outcome[w] = "deferred" /\ heldAttempt[w] < MaxAttempts[held[w]] -> "queued"
                  [] OTHER -> "failed"
<1>1. /\ TypeOK /\ Active(w) /\ pc[w] = "finishing" /\ outcome[w] # "leaseLost"
      /\ UNCHANGED <<attempts, cancelReq>>
  BY DEF SeenInv, Succeed, Reschedule, Fail, Active, WriteClaim, Release, row
<1>2. \E d : WriteClaim(w, s, d)
  <2>1. held[w] \in Jobs /\ heldAttempt[w] \in Nat /\ MaxAttempts[held[w]] \in Nat
    BY <1>1, JobAssumption DEF TypeOK
  <2>2. QED
    BY <2>1 DEF Succeed, Reschedule, Fail
<1>3. s # "running"
  OBVIOUS
<1> HIDE DEF s
<1>4. /\ status'[Job] = IF held[w] = Job /\ Owns(w) THEN s ELSE status[Job]
      /\ \A k : Works(w, k) => k \in 1..Limit /\ RunAt(k) = Place(w) /\ Leased!Go(<<1, k>>, "off")
      /\ (\A k : ~Works(w, k)) => \A i \in 1..Limit : RunAt(i)' = RunAt(i)
  BY <1>1, <1>2, <1>3, WriteMovesRun
<1>5. CASE held[w] # Job
  <2>1. \A k : ~Works(w, k)
    BY <1>5 DEF Works
  <2>2. QED
    BY <1>1, <1>4, <1>5, <2>1, JobStays
<1>6. CASE held[w] = Job
  <2> DEFINE st == [i \in 1..1 |-> status[Job]]
             at == [i \in 1..1 |-> attempts[Job]]
             cr == [i \in 1..1 |-> cancelReq[Job]]
  <2> PICK k : k = heldAttempt[w]
    OBVIOUS
  <2>1. Works(w, k)
    BY <1>1, <1>6 DEF Works
  <2>2. k \in 1..Limit /\ RunAt(k) = Place(w) /\ Leased!Go(<<1, k>>, "off")
    BY <1>4, <2>1
  <2>3. /\ Place(w) \in Leased!Checked
        /\ s = CASE Place(w) = "succeed" -> "succeeded"
                 [] Place(w) = "reschedule" -> "queued"
                 [] OTHER -> "failed"
    BY <1>1, <1>6 DEF s, Place, Leased!Checked
  <2>4. /\ at' = at /\ cr' = cr
        /\ status'[Job] = IF st[1] = "running" /\ at[1] = k THEN s ELSE st[1]
    BY <1>1, <1>4, <1>6, OwnsIsCurrent
  <2>5. st' = IF st[1] = "running" /\ at[1] = k THEN [st EXCEPT ![1] = s] ELSE st
    BY <2>4, OneEntry
  <2>6. st' = IF ~(st[1] = "running" /\ at[1] = k) THEN st
              ELSE [st EXCEPT ![1] = CASE RunAt(k) = "succeed" -> "succeeded"
                                       [] RunAt(k) = "reschedule" -> "queued"
                                       [] OTHER -> "failed"]
    BY <2>2, <2>3, <2>5
  <2>7. <<1, k>>[1] = 1 /\ <<1, k>>[2] = k
    OBVIOUS
  <2>8. RunAt(k) \in Leased!Checked
    BY <2>2, <2>3
  <2>9. Leased!Settle(<<1, k>>)
    BY <2>2, <2>4, <2>6, <2>7, <2>8, RunSeen DEF Leased!Settle, Leased!Current
  <2>10. QED
    BY <2>2, <2>9, RunSeen DEF LeasedStep, Leased!LeasedNext, Leased!RunnerStep
<1>7. QED
  BY <1>5, <1>6

LEMMA LeasedSteps == ASSUME SeenInv, SeenInv', AnyStep PROVE LeasedStep
<1>1. ASSUME NEW j \in Jobs, Enqueue(j) \/ Get(j) \/ RequestCancel(j) PROVE LeasedStep
  BY <1>1, CallerSteps
<1>2. ASSUME NEW w \in Workers, ReclaimCancelled(w) \/ ReclaimExhausted(w) \/ ReclaimAbandoned(w)
      PROVE  LeasedStep
  BY <1>2, ReclaimSteps
<1>3. ASSUME NEW w \in Workers, NEW j \in Jobs, Claim(w, j) PROVE LeasedStep
  BY <1>3, ClaimSteps
<1>4. ASSUME NEW w \in Workers, StartRecovery(w) \/ ClaimNothing(w) PROVE LeasedStep
  <2>1. OnlyMoves(w) /\ ~Active(w) /\ ~Active(w)'
    BY <1>4 DEF StartRecovery, ClaimNothing, GoTo, OnlyMoves, Active, SeenInv, TypeOK
  <2>2. UNCHANGED <<status[Job], attempts[Job], cancelReq[Job]>>
    BY <1>4 DEF StartRecovery, ClaimNothing, row
  <2>3. QED
    BY <2>1, <2>2, IdleStays, JobStays
<1>5. ASSUME NEW w \in Workers, HandlerReturns(w) PROVE LeasedStep
  BY <1>5, ReturnSteps DEF HandlerReturns
<1>6. ASSUME NEW w \in Workers, LoseLease(w) \/ DropLostLease(w) \/ Abandon(w) PROVE LeasedStep
  <2>1. /\ OnlyMoves(w) /\ pc'[w] # "handling" /\ UNCHANGED row
        /\ ~Active(w)' \/ (outcome'[w] = "leaseLost" /\ UNCHANGED <<held, heldAttempt>>)
    BY <1>6 DEF LoseLease, HandlerReturnsWith, DropLostLease, Abandon, GoIdle, OnlyMoves, Active,
                SeenInv, TypeOK
  <2>2. QED
    BY <2>1, StopSteps
<1>7. ASSUME NEW w \in Workers, CheckCancel(w) PROVE LeasedStep
  BY <1>7, CheckSteps
<1>8. ASSUME NEW w \in Workers, CancelClaim(w) PROVE LeasedStep
  BY <1>8, CancelSteps
<1>9. ASSUME NEW w \in Workers, Succeed(w) \/ Reschedule(w) \/ Fail(w) PROVE LeasedStep
  BY <1>9, SettleSteps
<1>10. ASSUME UNCHANGED <<status, attempts, cancelReq, runner>> PROVE LeasedStep
  <2>1. \A i \in 1..Limit : RunAt(i)' = RunAt(i)
    BY <1>10, RunnersStay
  <2>2. QED
    BY <1>10, <2>1, JobStays
<1>11. QED
  BY <1>1, <1>2, <1>3, <1>4, <1>5, <1>6, <1>7, <1>8, <1>9, <1>10
     DEF AnyStep, RenewLease, UpdateProgress, Tick, vars, row

LEMMA LeasedStarts == Init => Leased!LeasedInit
<1> SUFFICES ASSUME Init PROVE Leased!LeasedInit
  OBVIOUS
<1>1. Job \in Jobs /\ MaxAttempts[Job] = [i \in 1..1 |-> MaxAttempts[Job]][1]
  BY Seen
<1>2. \A w \in Workers : ~Active(w)
  BY DEF Init, Active
<1>3. ASSUME NEW k \in 1..MaxAttempts[Job] PROVE RunAt(k) = "off"
  <2>1. ~ \E w \in Workers : Works(w, k)
    BY <1>2 DEF Works
  <2>2. QED
    BY <2>1 DEF RunAt
<1>4. status[Job] = "absent" /\ attempts[Job] = 0 /\ cancelReq[Job] = FALSE
  BY <1>1 DEF Init
<1>5. Leased!Runs = {1} \X (1..MaxAttempts[Job])
  BY DEF Leased!Runs, Leased!JobIds
<1>6. QED
  BY <1>3, <1>4, <1>5 DEF Leased!LeasedInit, Leased!JobIds

(* Each job of the runtime, with its runners and whatever happens to them, is
   one of the jobs the models of the domains are built on. *)
THEOREM RuntimeImplementsLeasedJob == ASSUME OwnersDistinct PROVE Spec => ImplementsLeasedJob
<1>1. Init => RunnerInv
  BY DEF Init, RunnerInv, Active
<1>2. TypeOK /\ TypeOK' /\ ClaimInv /\ RunnerInv /\ [Next]_vars => RunnerInv'
  BY RunnerKeeps, NextIsAnyStep
<1>3. Spec => []RunnerInv
  BY <1>1, <1>2, TypeCorrect, ClaimInvAlways, PTL DEF Spec
<1>4. Spec => []SeenInv
  BY <1>3, TypeCorrect, ClaimInvAlways, BudgetInvAlways, PTL DEF SeenInv
<1>5. SeenInv /\ SeenInv' /\ [Next]_vars => [Leased!LeasedNext]_(Leased!jobs)
  BY LeasedSteps, NextIsAnyStep DEF LeasedStep
<1>6. QED
  BY <1>4, <1>5, LeasedStarts, PTL DEF Spec, ImplementsLeasedJob, Leased!LeasedSpec
=============================================================================
