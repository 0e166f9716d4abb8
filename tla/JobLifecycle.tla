---------------------------- MODULE JobLifecycle ----------------------------
(***************************************************************************)
(* What the shared job runtime promises its callers about a platform job,  *)
(* independently of workers, leases and cancellation requests: the status  *)
(* machine of contract.JobStatus and the budget of execution attempts.     *)
(* A statement of the store may move several jobs at once, so every action *)
(* is about a non-empty set of jobs.                                       *)
(***************************************************************************)
EXTENDS Naturals

CONSTANTS Jobs,          \* the jobs callers may enqueue
          MaxAttempts    \* MaxAttempts[j]: contract.Job.MaxAttempts, a positive number

VARIABLES status,        \* the status column; "absent" before the insert
          attempts       \* the attempt_count column

vars == <<status, attempts>>

Ended  == {"succeeded", "failed", "cancelled"}
Status == {"absent", "queued", "running"} \cup Ended

Move(J, from, to) ==
    /\ \A j \in J : status[j] = from
    /\ status' = [j \in Jobs |-> IF j \in J THEN to ELSE status[j]]

Init == /\ status = [j \in Jobs |-> "absent"]
        /\ attempts = [j \in Jobs |-> 0]

Create(J)   == Move(J, "absent", "queued") /\ UNCHANGED attempts

(* An attempt is spent when it starts, and only while the budget lasts. *)
Start(j) ==
    /\ attempts[j] < MaxAttempts[j]
    /\ Move({j}, "queued", "running")
    /\ attempts' = [attempts EXCEPT ![j] = @ + 1]

(* A job goes back to the queue only if another attempt is left. *)
Requeue(J) ==
    /\ \A j \in J : attempts[j] < MaxAttempts[j]
    /\ Move(J, "running", "queued")
    /\ UNCHANGED attempts

End(J, s)   == s \in Ended /\ Move(J, "running", s) /\ UNCHANGED attempts

Withdraw(J) == Move(J, "queued", "cancelled") /\ UNCHANGED attempts

Next == \/ \E j \in Jobs : Start(j)
        \/ \E J \in SUBSET Jobs : \/ Create(J)
                                  \/ Requeue(J)
                                  \/ Withdraw(J)
                                  \/ \E s \in Ended : End(J, s)

Spec == Init /\ [][Next]_vars
=============================================================================
