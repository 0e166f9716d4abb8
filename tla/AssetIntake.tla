----------------------------- MODULE AssetIntake -----------------------------
(***************************************************************************)
(* One generated intake of internal/platform/assets: the row by which the  *)
(* output of a model provider becomes a durable project asset, the staged  *)
(* and the durable object, and the workers that run ProcessOnce.  A claim  *)
(* has no heartbeat: a worker that is slower than the five minutes of      *)
(* ClaimIntake goes on beside its successor, and both write the same two   *)
(* object keys.                                                            *)
(*                                                                         *)
(* Abstractions.  Of the fetched bytes only the verdict of the checks is   *)
(* kept (content); it is the same for every worker.  The age of locked_at  *)
(* is stale or not, and available_at is left to the choice of when a queued *)
(* row is claimed.  Intakes share no state, so there is one.               *)
(***************************************************************************)
EXTENDS Naturals

CONSTANTS Workers,      \* the loops that call ProcessOnce, over all processes
          Owners,       \* worker names
          OwnerOf,      \* the name worker w passes to ClaimIntake
          MaxAttempts,  \* max_attempts
          NoOwner

ASSUME IntakeAssumption ==
    /\ OwnerOf \in [Workers -> Owners]
    /\ NoOwner \notin Owners
    /\ MaxAttempts \in Nat \ {0}

VARIABLES
    \* generated_intakes, asset tables and assets_outbox
    status,    \* status; "absent" before the insert
    attempts,  \* attempt_count
    owner,     \* lock_owner
    stale,     \* locked_at is more than five minutes ago
    events,    \* rows of assets_outbox for the asset
    \* object store
    staged,    \* the object in the quarantine bucket exists
    durable,   \* the object in the assets bucket exists
    content,   \* what the checks say of the bytes
    \* workers
    pc,        \* where the worker is in ProcessOnce
    held,      \* AttemptCount of its claim
    \* history
    unclear    \* a worker that had stored the object met an error that makes it
               \* delete the object: in the event, or in CompleteIntake and not
               \* ErrInvalidState

row     == <<status, attempts, owner, stale, events>>
objects == <<staged, durable, content>>
vars    == <<row, objects, pc, held, unclear>>

Ended == {"succeeded", "failed"}

TypeOK ==
    /\ status \in {"absent", "queued", "running"} \cup Ended
    /\ attempts \in 0..MaxAttempts
    /\ owner \in Owners \cup {NoOwner}
    /\ stale \in BOOLEAN
    /\ events \in Nat
    /\ staged \in BOOLEAN /\ durable \in BOOLEAN
    /\ content \in {"valid", "mismatched", "invalid", "malware"}
    /\ pc \in [Workers -> {"idle", "fetching", "staging", "opening", "storing", "stored",
                           "completing", "discarding", "retrying", "failing"}]
    /\ held \in [Workers -> 0..MaxAttempts]
    /\ unclear \in BOOLEAN

Init ==
    /\ status = "absent" /\ attempts = 0 /\ owner = NoOwner /\ stale = FALSE /\ events = 0
    /\ staged = FALSE /\ durable = FALSE
    /\ content \in {"valid", "mismatched", "invalid", "malware"}
    /\ pc = [w \in Workers |-> "idle"]
    /\ held = [w \in Workers |-> 0]
    /\ unclear = FALSE
-----------------------------------------------------------------------------
Go(w, label) == pc' = [pc EXCEPT ![w] = label] /\ UNCHANGED held

Return(w) == pc' = [pc EXCEPT ![w] = "idle"] /\ held' = [held EXCEPT ![w] = 0]

Owns(w) == status = "running" /\ owner = OwnerOf[w]

(* SET status = ?, lock_owner = NULL, locked_at = NULL *)
Release(s) ==
    /\ status' = s /\ owner' = NoOwner /\ stale' = FALSE
    /\ UNCHANGED attempts

(* GeneratedIntakeService.Create; module ProviderJob has what a repeated
   request gets. *)
Create ==
    /\ status = "absent"
    /\ status' = "queued"
    /\ UNCHANGED <<attempts, owner, stale, events, objects, pc, held, unclear>>

(* Five minutes have passed since the claim. *)
GoesStale ==
    /\ status = "running" /\ ~stale
    /\ stale' = TRUE
    /\ UNCHANGED <<status, attempts, owner, events, objects, pc, held, unclear>>

(* Mutations of ClaimIntake: attempts are not limited; stale claims are not
   taken over. *)
Claim(w) ==
    /\ pc[w] = "idle"
    /\ status' = "running" /\ owner' = OwnerOf[w] /\ stale' = FALSE
    /\ attempts' = attempts + 1
    /\ pc' = [pc EXCEPT ![w] = "fetching"]
    /\ held' = [held EXCEPT ![w] = attempts + 1]
    /\ UNCHANGED <<events, objects, unclear>>
ClaimWithoutBudget(w) == (status = "queued" \/ (status = "running" /\ stale)) /\ Claim(w)
ClaimQueuedOnly(w)    == status = "queued" /\ attempts < MaxAttempts /\ Claim(w)

(* ClaimIntake: a queued row, or a running one whose claim is stale; a row
   without attempts left ends instead. *)
ClaimIntake(w) ==
    /\ pc[w] = "idle"
    /\ status = "queued" \/ (status = "running" /\ stale)
    /\ IF attempts >= MaxAttempts
         THEN Release("failed") /\ UNCHANGED <<pc, held>>
         ELSE /\ status' = "running" /\ owner' = OwnerOf[w] /\ stale' = FALSE
              /\ attempts' = attempts + 1
              /\ pc' = [pc EXCEPT ![w] = "fetching"]
              /\ held' = [held EXCEPT ![w] = attempts + 1]
    /\ UNCHANGED <<events, objects, unclear>>

(* The checks on organization, project and expiry refuse for good; fetching
   delivers the declared bytes, or fails in a way that may be retried or not. *)
Fetch(w) ==
    /\ pc[w] = "fetching"
    /\ \E label \in {"staging", "retrying", "failing"} : Go(w, label)
    /\ UNCHANGED <<row, objects, unclear>>

(* Put into the quarantine bucket, under a key derived from the intake. *)
Stage(w) ==
    /\ pc[w] = "staging"
    /\ \/ staged' = TRUE /\ Go(w, "opening")
       \/ staged' \in {staged, TRUE} /\ Go(w, "retrying")
    /\ UNCHANGED <<row, durable, content, unclear>>

(* Mutation of Screen: the bytes are stored as they come. *)
ScreenNothing(w) ==
    /\ pc[w] = "opening" /\ staged
    /\ Go(w, "storing")
    /\ UNCHANGED <<row, objects, unclear>>

(* ingestStoredObject up to the scan.  Another worker may have removed the
   staged object; one with malware in it is kept for forensics, any other is
   deleted, with no look at whether the deletion worked. *)
Screen(w) ==
    /\ pc[w] = "opening"
    /\ \/ /\ staged /\ content \in {"valid", "mismatched"}
          /\ Go(w, "storing") /\ UNCHANGED staged
       \/ /\ staged /\ content = "malware"
          /\ Go(w, "failing") /\ UNCHANGED staged
       \/ /\ staged /\ content = "invalid"
          /\ Go(w, "failing") /\ staged' \in {staged, FALSE}
       \/ Go(w, "retrying") /\ staged' \in {staged, FALSE}
    /\ UNCHANGED <<row, durable, content, unclear>>

(* Put into the assets bucket, under a key derived from the target asset: the
   same object, whoever writes it.  When the event cannot be built the object
   is deleted again.  Here and below an error of Delete is ignored. *)
Store(w) ==
    /\ pc[w] = "storing"
    /\ \/ durable' = TRUE /\ Go(w, "stored") /\ UNCHANGED <<staged, unclear>>
       \/ /\ durable' \in {durable, TRUE} /\ staged' \in {staged, FALSE}
          /\ Go(w, "retrying") /\ UNCHANGED unclear
       \/ /\ durable' \in BOOLEAN /\ staged' \in {staged, FALSE}
          /\ Go(w, "retrying") /\ unclear' = TRUE
    /\ UNCHANGED <<row, content>>

(* The staged object is no longer needed; the type of the stored one is
   compared with the declared one. *)
Unstage(w) ==
    /\ pc[w] = "stored"
    /\ staged' \in {staged, FALSE}
    /\ IF content = "mismatched"
         THEN durable' \in {durable, FALSE} /\ Go(w, "failing")
         ELSE UNCHANGED durable /\ Go(w, "completing")
    /\ UNCHANGED <<row, content, unclear>>

(* Mutation of Commit: neither status nor lock_owner is compared. *)
CommitUnguarded(w) ==
    /\ pc[w] = "completing"
    /\ Release("succeeded")
    /\ events' = events + 1
    /\ Return(w)
    /\ UNCHANGED <<objects, unclear>>

(* CompleteIntake: the transaction that makes the asset visible ... *)
Commit(w) ==
    /\ pc[w] = "completing" /\ Owns(w)
    /\ Release("succeeded")
    /\ events' = events + 1
    /\ \/ Return(w) /\ UNCHANGED unclear
       \/ Go(w, "discarding") /\ unclear' = TRUE  \* commit and re-read both unanswered
    /\ UNCHANGED objects

(* Mutation of CommitRefused: ErrInvalidState is an error like any other. *)
DiscardRefused(w) ==
    /\ pc[w] = "completing" /\ ~Owns(w)
    /\ Go(w, "discarding")
    /\ UNCHANGED <<row, objects, unclear>>

(* ... finds that another worker's asset is there, or that the claim is lost
   (ErrInvalidState) ... *)
CommitRefused(w) ==
    /\ pc[w] = "completing" /\ ~Owns(w)
    /\ Return(w)
    /\ UNCHANGED <<row, objects, unclear>>

(* ... or does not take place. *)
CommitFails(w) ==
    /\ pc[w] = "completing"
    /\ Go(w, "discarding")
    /\ unclear' = TRUE
    /\ UNCHANGED <<row, objects>>

(* ProcessOnce deletes the durable object after any such error. *)
Discard(w) ==
    /\ pc[w] = "discarding"
    /\ durable' \in {durable, FALSE}
    /\ Return(w)
    /\ UNCHANGED <<row, staged, content, unclear>>

(* FailIntake, with a guard that also takes a queued row. *)
FailIntake(w) ==
    /\ pc[w] = "failing" \/ (pc[w] = "retrying" /\ held[w] >= MaxAttempts)
    /\ IF status = "queued" \/ Owns(w)
         THEN Release("failed")
         ELSE UNCHANGED <<status, attempts, owner, stale>>
    /\ Return(w)
    /\ UNCHANGED <<events, objects, unclear>>

(* Mutation of RetryIntake: the row is requeued whatever became of it. *)
RequeueAnyway(w) ==
    /\ pc[w] = "retrying" /\ held[w] < MaxAttempts
    /\ Release("queued")
    /\ Return(w)
    /\ UNCHANGED <<events, objects, unclear>>

RetryIntake(w) ==
    /\ pc[w] = "retrying" /\ held[w] < MaxAttempts
    /\ IF Owns(w)
         THEN Release("queued")
         ELSE UNCHANGED <<status, attempts, owner, stale>>
    /\ Return(w)
    /\ UNCHANGED <<events, objects, unclear>>

(* The process stops, or a statement fails; the row stays as it is. *)
Crash(w) ==
    /\ pc[w] # "idle"
    /\ Return(w)
    /\ UNCHANGED <<row, objects, unclear>>

Process(w) ==
    \/ ClaimIntake(w)
    \/ Fetch(w)
    \/ Stage(w)
    \/ Screen(w)
    \/ Store(w)
    \/ Unstage(w)
    \/ Commit(w)
    \/ CommitRefused(w)
    \/ CommitFails(w)
    \/ Discard(w)
    \/ FailIntake(w)
    \/ RetryIntake(w)

Next ==
    \/ Create
    \/ GoesStale
    \/ \E w \in Workers : Process(w) \/ Crash(w)

Spec == Init /\ [][Next]_vars

(* Time passes, and every worker is called again and again. *)
Fairness == WF_vars(GoesStale) /\ \A w \in Workers : WF_vars(Process(w))

FairSpec == Spec /\ Fairness
-----------------------------------------------------------------------------
(* Properties. *)

(* However many workers process the intake, one asset.ready event is written,
   and exactly when the intake succeeded. *)
OneAsset == events = (IF status = "succeeded" THEN 1 ELSE 0)

(* Seen from outside, an intake is created once and ends once: a worker that lost
   its claim can neither requeue nor fail nor complete an intake that ended. *)
Outside == INSTANCE IntakeLifecycle
             WITH Intakes <- {"intake"},
                  intake  <- [i \in {"intake"} |-> IF status = "running" THEN "queued" ELSE status]
ImplementsIntake == Outside!Spec

(* What failed the checks never becomes an asset, and content that was not
   screened never reaches the assets bucket. *)
OnlyScreenedContent ==
    /\ status = "succeeded" => content = "valid"
    /\ durable => content \in {"valid", "mismatched"}

(* A worker whose completion is refused leaves the durable object alone: it is
   the asset of another worker. *)
ObjectOutlivesLosers == status = "succeeded" /\ ~unclear => durable

(* complete: the source is re-read before the durable object may be deleted,
   so that the object of an asset stays. *)
AssetHasObject == status = "succeeded" => durable

(* Every intake ends, whatever crashes and stale claims it meets. *)
IntakeEnds == status = "queued" ~> status \in Ended
=============================================================================
