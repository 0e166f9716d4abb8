---------------------------- MODULE MCJobRuntime ----------------------------
(* Small instances of JobRuntime: one job that can be cancelled and retried
   once, one that has a single attempt. *)
EXTENDS JobRuntime

CONSTANTS jobA, jobB, r1, r2, replicaA, replicaB

MCMaxAttempts == [j \in Jobs |-> IF j = jobA THEN 2 ELSE 1]

(* Every runner has its own WorkerID ... *)
OneOwnerEach == [w \in Workers |-> IF w = r1 THEN replicaA ELSE replicaB]
(* ... or two processes run with the same one. *)
SharedOwner  == [w \in Workers |-> replicaA]
=============================================================================
