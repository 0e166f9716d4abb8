--------------------------- MODULE IntakeLifecycle ---------------------------
(***************************************************************************)
(* What Assets promises of a generated intake to those who hand outputs    *)
(* over, independently of workers, claims and objects: it is created once, *)
(* ends once, and stays as it ended (assets.GeneratedIntakeStatus; its     *)
(* callers do not tell a queued one from one that is being processed).     *)
(***************************************************************************)
CONSTANT Intakes

VARIABLE intake

Ended == {"succeeded", "failed"}

Init == intake = [i \in Intakes |-> "absent"]

Create(i) ==
    /\ intake[i] = "absent"
    /\ intake' = [intake EXCEPT ![i] = "queued"]

End(i, s) ==
    /\ intake[i] = "queued"
    /\ intake' = [intake EXCEPT ![i] = s]

Next == \E i \in Intakes : Create(i) \/ \E s \in Ended : End(i, s)

Spec == Init /\ [][Next]_intake
=============================================================================
