---------------------------- MODULE LeasedRuntime ----------------------------
(***************************************************************************)
(* One job of JobRuntime as the domains see it: rows and runners mapped to *)
(* the jobs and runs of LeasedJob.  A statement of recovery moves many     *)
(* jobs at once; each of them, seen alone, moves as LeasedJob says.        *)
(***************************************************************************)
EXTENDS JobRuntime

CONSTANT Job    \* the job looked at; its kind has a handler

ASSUME SeenAssumption == Job \in Jobs /\ Job \in Handled

(* Runner w executes attempt k.  A runner that was told that its lease is lost
   has given its handler up. *)
Works(w, k) ==
    /\ Active(w) /\ held[w] = Job /\ heldAttempt[w] = k
    /\ pc[w] = "handling" \/ outcome[w] # "leaseLost"

(* Where that run is; CancelClaim still has to happen when RunOnce has found the
   request. *)
Place(w) ==
    CASE pc[w] = "handling" -> "claimed"
      [] pc[w] \in {"checking", "cancelling"} ->
            IF outcome[w] \in {"ok", "deferred"} THEN outcome[w] ELSE "rejected"
      [] OTHER ->
            IF outcome[w] = "ok" THEN "succeed"
            ELSE IF outcome[w] = "deferred" /\ heldAttempt[w] < MaxAttempts[Job] THEN "reschedule"
            ELSE "fail"

RunAt(k) ==
    IF \E w \in Workers : Works(w, k) THEN Place(CHOOSE w \in Workers : Works(w, k)) ELSE "off"

Leased == INSTANCE LeasedJob
    WITH JobCount    <- 1,
         MaxAttempts <- [i \in 1..1 |-> MaxAttempts[Job]],
         MaxFaults   <- 0,
         status      <- [i \in 1..1 |-> status[Job]],
         attempts    <- [i \in 1..1 |-> attempts[Job]],
         cancelReq   <- [i \in 1..1 |-> cancelReq[Job]],
         pc          <- [r \in {1} \X (1..MaxAttempts[Job]) |-> RunAt(r[2])],
         faults      <- 0

(* What every model of a domain takes for granted is what the runtime does: the
   claim of an attempt, the check for a cancellation, the write of a result only
   by the run that executes the current attempt, and what recovery makes of a
   job, also while a runner that lost its lease goes on. *)
ImplementsLeasedJob == Leased!LeasedSpec
=============================================================================
