--------------------------- MODULE MCLeasedRuntime ---------------------------
(* The instances of MCJobRuntime, seen from one job. *)
EXTENDS LeasedRuntime, MCJobRuntime
=============================================================================
