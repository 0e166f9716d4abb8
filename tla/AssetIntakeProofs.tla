-------------------------- MODULE AssetIntakeProofs --------------------------
(* Theorems about the generated intake, for any workers, worker names (shared
   or not) and attempt limit. *)
EXTENDS AssetIntake, TLAPS

LEMMA TypeRelease ==
    ASSUME TypeOK, NEW s \in {"queued", "succeeded", "failed"}, Release(s)
    PROVE  /\ status' \in {"absent", "queued", "running"} \cup Ended
           /\ attempts' \in 0..MaxAttempts
           /\ owner' \in Owners \cup {NoOwner}
           /\ stale' \in BOOLEAN
BY DEF Release, TypeOK, Ended

LEMMA TypeGo ==
    ASSUME TypeOK, NEW w \in Workers, Return(w) \/ \E l \in
             {"idle", "fetching", "staging", "opening", "storing", "stored",
              "completing", "discarding", "retrying", "failing"} : Go(w, l)
    PROVE  /\ pc' \in [Workers -> {"idle", "fetching", "staging", "opening", "storing", "stored",
                                   "completing", "discarding", "retrying", "failing"}]
           /\ held' \in [Workers -> 0..MaxAttempts]
<1>1. 0 \in 0..MaxAttempts
  BY IntakeAssumption
<1>2. QED
  BY <1>1 DEF Return, Go, TypeOK

LEMMA TypeClaim == ASSUME TypeOK, NEW w \in Workers, ClaimIntake(w) PROVE TypeOK'
<1>1. CASE attempts >= MaxAttempts
  BY <1>1, TypeRelease DEF ClaimIntake, TypeOK, objects
<1>2. CASE ~(attempts >= MaxAttempts)
  <2>1. attempts + 1 \in 0..MaxAttempts
    BY <1>2, IntakeAssumption DEF TypeOK
  <2>2. /\ status' = "running" /\ owner' = OwnerOf[w] /\ stale' = FALSE
        /\ attempts' = attempts + 1
        /\ pc' = [pc EXCEPT ![w] = "fetching"]
        /\ held' = [held EXCEPT ![w] = attempts + 1]
        /\ UNCHANGED <<events, objects, unclear>>
    BY <1>2 DEF ClaimIntake
  <2>3. owner' \in Owners
    BY <2>2, IntakeAssumption
  <2>4. pc' \in [Workers -> {"idle", "fetching", "staging", "opening", "storing", "stored",
                             "completing", "discarding", "retrying", "failing"}]
    BY <2>2 DEF TypeOK
  <2>5. held' \in [Workers -> 0..MaxAttempts]
    BY <2>1, <2>2 DEF TypeOK
  <2>6. QED
    BY <2>1, <2>2, <2>3, <2>4, <2>5 DEF TypeOK, objects
<1>3. QED
  BY <1>1, <1>2

LEMMA TypeStep == TypeOK /\ [Next]_vars => TypeOK'
<1> SUFFICES ASSUME TypeOK, [Next]_vars PROVE TypeOK'
  OBVIOUS
<1>1. CASE Create
  BY <1>1 DEF Create, TypeOK, objects
<1>2. CASE GoesStale
  BY <1>2 DEF GoesStale, TypeOK, objects
<1>3. ASSUME NEW w \in Workers, Fetch(w) \/ CommitFails(w) PROVE TypeOK'
  <2>1. \E l \in {"staging", "retrying", "failing", "discarding"} : Go(w, l)
    BY <1>3 DEF Fetch, CommitFails
  <2>2. unclear' \in BOOLEAN
    BY <1>3 DEF Fetch, CommitFails, TypeOK
  <2>3. QED
    BY <1>3, <2>1, <2>2, TypeGo DEF Fetch, CommitFails, TypeOK, row, objects
<1>4. ASSUME NEW w \in Workers, Stage(w) \/ Screen(w) PROVE TypeOK'
  <2>1. \E l \in {"opening", "storing", "retrying", "failing"} : Go(w, l)
    BY <1>4 DEF Stage, Screen
  <2>2. staged' \in BOOLEAN
    BY <1>4 DEF Stage, Screen, TypeOK
  <2>3. QED
    BY <1>4, <2>1, <2>2, TypeGo DEF Stage, Screen, TypeOK, row
<1>5. ASSUME NEW w \in Workers, Store(w) \/ Unstage(w) PROVE TypeOK'
  <2>1. \E l \in {"stored", "retrying", "failing", "completing"} : Go(w, l)
    BY <1>5 DEF Store, Unstage
  <2>2. staged' \in BOOLEAN /\ durable' \in BOOLEAN /\ unclear' \in BOOLEAN
    BY <1>5 DEF Store, Unstage, TypeOK
  <2>3. QED
    BY <1>5, <2>1, <2>2, TypeGo DEF Store, Unstage, TypeOK, row
<1>6. ASSUME NEW w \in Workers, Commit(w) PROVE TypeOK'
  <2>1. Return(w) \/ Go(w, "discarding")
    BY <1>6 DEF Commit
  <2>2. Release("succeeded") /\ events' \in Nat /\ UNCHANGED objects
    BY <1>6 DEF Commit, TypeOK
  <2>3. unclear' \in BOOLEAN
    BY <1>6 DEF Commit, TypeOK
  <2>4. QED
    BY <2>1, <2>2, <2>3, TypeGo, TypeRelease DEF TypeOK, objects
<1>7. ASSUME NEW w \in Workers, CommitRefused(w) \/ Crash(w) \/ Discard(w) PROVE TypeOK'
  <2>1. Return(w) /\ durable' \in BOOLEAN
    BY <1>7 DEF CommitRefused, Crash, Discard, objects, TypeOK
  <2>2. QED
    BY <1>7, <2>1, TypeGo DEF CommitRefused, Crash, Discard, TypeOK, row, objects
<1>8. ASSUME NEW w \in Workers, FailIntake(w) \/ RetryIntake(w) PROVE TypeOK'
  <2>1. /\ Return(w) /\ UNCHANGED <<events, objects, unclear>>
        /\ Release("failed") \/ Release("queued") \/ UNCHANGED <<status, attempts, owner, stale>>
    BY <1>8 DEF FailIntake, RetryIntake
  <2>2. QED
    BY <2>1, TypeGo, TypeRelease DEF TypeOK, objects
<1>9. CASE UNCHANGED vars
  BY <1>9 DEF TypeOK, vars, row, objects
<1>10. ASSUME NEW w \in Workers, Process(w) \/ Crash(w) PROVE TypeOK'
  BY <1>3, <1>4, <1>5, <1>6, <1>7, <1>8, <1>10, TypeClaim DEF Process
<1>11. QED
  BY <1>1, <1>2, <1>9, <1>10 DEF Next

(* The state is well typed; in particular attempts never exceed their limit. *)
THEOREM TypeCorrect == Spec => []TypeOK
<1>1. Init => TypeOK
  <2>1. 0 \in 0..MaxAttempts
    BY IntakeAssumption
  <2>2. Init => /\ pc \in [Workers -> {"idle"}] /\ held \in [Workers -> {0}]
                /\ stale \in BOOLEAN /\ staged \in BOOLEAN /\ durable \in BOOLEAN
                /\ unclear \in BOOLEAN
    BY DEF Init
  <2>3. QED
    BY <2>1, <2>2 DEF Init, TypeOK
<1>2. QED
  BY <1>1, TypeStep, PTL DEF Spec
-----------------------------------------------------------------------------
(* Only Commit writes the event, and the status of an ended row is not touched:
   every statement but ClaimIntake and FailIntake is guarded by Owns, and those
   two do not take an ended row. *)
LEMMA EndedStep ==
    ASSUME [Next]_vars
    PROVE  /\ status \in Ended => UNCHANGED <<status, events>>
           /\ OneAsset => OneAsset'
<1> USE DEF OneAsset, Ended
<1>1. ASSUME NEW w \in Workers, ClaimIntake(w)
      PROVE  (status \in Ended => UNCHANGED <<status, events>>) /\ (OneAsset => OneAsset')
  BY <1>1 DEF ClaimIntake, Release
<1>2. ASSUME NEW w \in Workers, Commit(w)
      PROVE  (status \in Ended => UNCHANGED <<status, events>>) /\ (OneAsset => OneAsset')
  BY <1>2 DEF Commit, Release, Owns
<1>3. ASSUME NEW w \in Workers, FailIntake(w) \/ RetryIntake(w)
      PROVE  (status \in Ended => UNCHANGED <<status, events>>) /\ (OneAsset => OneAsset')
  BY <1>3 DEF FailIntake, RetryIntake, Release, Owns
<1>4. CASE Create \/ GoesStale
  BY <1>4 DEF Create, GoesStale
<1>5. CASE UNCHANGED <<status, events>>
  BY <1>5
<1>6. QED
  BY <1>1, <1>2, <1>3, <1>4, <1>5
     DEF Next, Process, Fetch, Stage, Screen, Store, Unstage, CommitRefused, CommitFails, Discard,
         Crash, vars, row

(* However many workers hold a claim at once, one asset is announced, when the
   intake succeeds. *)
THEOREM OneAssetPerIntake == Spec => []OneAsset
<1>1. Init => OneAsset
  BY DEF Init, OneAsset
<1>2. OneAsset /\ [Next]_vars => OneAsset'
  BY EndedStep
<1>3. QED
  BY <1>1, <1>2, PTL DEF Spec

(* What may become of the row: it is inserted, claimed, put back and, once, ended. *)
LEMMA StatusSteps ==
    ASSUME [Next]_vars
    PROVE  \/ status' = status
           \/ status = "absent" /\ status' = "queued"
           \/ status \in {"queued", "running"} /\ status' \in {"queued", "running"} \cup Ended
<1> DEFINE Goal == \/ status' = status
                   \/ status = "absent" /\ status' = "queued"
                   \/ status \in {"queued", "running"} /\ status' \in {"queued", "running"} \cup Ended
<1> USE DEF Ended
<1>1. ASSUME NEW w \in Workers, ClaimIntake(w) \/ Commit(w) PROVE Goal
  BY <1>1 DEF ClaimIntake, Commit, Release, Owns
<1>2. ASSUME NEW w \in Workers, FailIntake(w) \/ RetryIntake(w) PROVE Goal
  BY <1>2 DEF FailIntake, RetryIntake, Release, Owns
<1>3. CASE Create \/ GoesStale
  BY <1>3 DEF Create, GoesStale
<1>4. CASE UNCHANGED status
  BY <1>4
<1>5. QED
  BY <1>1, <1>2, <1>3, <1>4
     DEF Next, Process, Fetch, Stage, Screen, Store, Unstage, CommitRefused, CommitFails, Discard,
         Crash, vars, row

(* With workers under any names, stale claims and crashes, those who hand outputs
   over see an intake that is created once, ends once and stays as it ended. *)
THEOREM IntakeKeepsItsPromise == Spec => ImplementsIntake
<1>1. Init => Outside!Init
  BY DEF Init, Outside!Init
<1>2. [Next]_vars => [Outside!Next]_([i \in {"intake"} |-> IF status = "running" THEN "queued" ELSE status])
  <2> DEFINE Shown(s) == [i \in {"intake"} |-> IF s = "running" THEN "queued" ELSE s]
  <2> SUFFICES ASSUME [Next]_vars PROVE Outside!Next \/ Shown(status') = Shown(status)
    OBVIOUS
  <2>1. CASE status = "absent" /\ status' = "queued"
    <3>1. Outside!Create("intake")
      BY <2>1 DEF Outside!Create
    <3>2. QED
      BY <3>1 DEF Outside!Next
  <2>2. CASE status \in {"queued", "running"} /\ status' \in Ended
    <3>1. Outside!End("intake", status') /\ status' \in Outside!Ended
      BY <2>2 DEF Outside!End, Outside!Ended, Ended
    <3>2. QED
      BY <3>1 DEF Outside!Next
  <2>3. QED
    BY <2>1, <2>2, StatusSteps
<1>3. QED
  BY <1>1, <1>2, PTL DEF Spec, ImplementsIntake, Outside!Spec
-----------------------------------------------------------------------------
(* What a worker knows of the content at each step, and who may lack the
   object: as long as every answer of CompleteIntake was clear, nobody deletes
   an object that a worker has stored and will commit. *)
Screened ==
    /\ \A w \in Workers :
         /\ pc[w] \in {"storing", "stored"} => content \in {"valid", "mismatched"}
         /\ pc[w] = "completing" => content = "valid"
         /\ pc[w] = "discarding" => unclear
         /\ pc[w] \in {"stored", "completing"} /\ content = "valid" /\ ~unclear => durable
    /\ OnlyScreenedContent
    /\ ObjectOutlivesLosers

LEMMA ScreenedStep == TypeOK /\ Screened /\ [Next]_vars => Screened'
<1> SUFFICES ASSUME TypeOK, Screened, [Next]_vars PROVE Screened'
  OBVIOUS
<1> USE DEF Screened, OnlyScreenedContent, ObjectOutlivesLosers
<1>1. CASE Create \/ GoesStale \/ UNCHANGED vars
  BY <1>1 DEF Create, GoesStale, vars, row, objects
<1>2. ASSUME NEW w \in Workers, ClaimIntake(w) PROVE Screened'
  BY <1>2 DEF ClaimIntake, Release, objects, TypeOK
<1>3. ASSUME NEW w \in Workers, Fetch(w) PROVE Screened'
  BY <1>3 DEF Fetch, Go, row, objects, TypeOK
<1>4. ASSUME NEW w \in Workers, Stage(w) PROVE Screened'
  BY <1>4 DEF Stage, Go, row, TypeOK
<1>5. ASSUME NEW w \in Workers, Screen(w) PROVE Screened'
  BY <1>5 DEF Screen, Go, row, TypeOK
<1>6. ASSUME NEW w \in Workers, Store(w) PROVE Screened'
  BY <1>6 DEF Store, Go, row, TypeOK
<1>7. ASSUME NEW w \in Workers, Unstage(w) PROVE Screened'
  BY <1>7 DEF Unstage, Go, row, TypeOK
<1>8. ASSUME NEW w \in Workers, Commit(w) PROVE Screened'
  BY <1>8 DEF Commit, Release, Return, Go, objects, TypeOK
<1>9. ASSUME NEW w \in Workers, CommitRefused(w) \/ Crash(w) PROVE Screened'
  BY <1>9 DEF CommitRefused, Crash, Return, row, objects, TypeOK
<1>10. ASSUME NEW w \in Workers, CommitFails(w) PROVE Screened'
  BY <1>10 DEF CommitFails, Go, row, objects, TypeOK
<1>11. ASSUME NEW w \in Workers, Discard(w) PROVE Screened'
  <2>1. pc[w] = "discarding" /\ durable' \in {durable, FALSE}
    BY <1>11 DEF Discard
  <2>2. /\ status' = status /\ content' = content /\ unclear' = unclear
        /\ pc' = [pc EXCEPT ![w] = "idle"]
    BY <1>11 DEF Discard, Return, row
  <2>3. durable' => durable
    BY <2>1, Zenon
  <2>4. unclear
    BY <2>1
  <2>5. QED
    BY <2>2, <2>3, <2>4 DEF TypeOK
<1>12. ASSUME NEW w \in Workers, FailIntake(w) \/ RetryIntake(w) PROVE Screened'
  BY <1>12 DEF FailIntake, RetryIntake, Release, Return, objects, TypeOK
<1>13. QED
  BY <1>1, <1>2, <1>3, <1>4, <1>5, <1>6, <1>7, <1>8, <1>9, <1>10, <1>11, <1>12
     DEF Next, Process

LEMMA ScreenedAlways == Spec => []Screened
<1>1. Init => Screened
  BY DEF Init, Screened, OnlyScreenedContent, ObjectOutlivesLosers
<1>2. QED
  BY <1>1, ScreenedStep, TypeCorrect, PTL DEF Spec

(* Bytes that failed a check never become an asset. *)
THEOREM OnlyScreenedContentSucceeds == Spec => []OnlyScreenedContent
<1>1. Screened => OnlyScreenedContent
  BY DEF Screened
<1>2. QED
  BY <1>1, ScreenedAlways, PTL

(* As long as every answer of CompleteIntake was clear, the asset of a
   succeeded intake has its object. *)
THEOREM ObjectSurvivesLosers == Spec => []ObjectOutlivesLosers
<1>1. Screened => ObjectOutlivesLosers
  BY DEF Screened
<1>2. QED
  BY <1>1, ScreenedAlways, PTL
=============================================================================
