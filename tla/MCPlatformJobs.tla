--------------------------- MODULE MCPlatformJobs ---------------------------
(***************************************************************************)
(* PlatformJobs for TLC.  Jobs 1 and 2 are those of the upload and of a    *)
(* retry of a document, or of two attempts of a visual fallback; jobs 3    *)
(* and 4 are those of a reconciled page range of each.  The first attempt  *)
(* of a fallback selects two pages and the second one of them again.       *)
(***************************************************************************)
EXTENDS PlatformJobs

FourJobs  == <<3, 1, 1, 1>>
TwoRanges == [t \in Tasks |-> IF t[1] = 1 THEN {1, 2} ELSE {2}]

(* Bounds: a document is retried once.  In a visual fallback only the job of the
   first attempt is cancelled, and a client starts a second attempt or operators
   reconcile the first, whose job is then run at most twice. *)
Bound ==
    /\ kind = "document" => status'[3] = "absent"
    /\ kind = "vision" => /\ \A j \in 2..4 : ~cancelReq'[j]
                          /\ \/ \A t \in Tasks : recon'[t] = "none"
                             \/ attempts'[1] < 3 /\ attempt' = 1 /\ starter' # "starting"

BoundedSpec == PlatformInit /\ [][PlatformNext /\ Bound]_all /\ PlatformFairness
=============================================================================
