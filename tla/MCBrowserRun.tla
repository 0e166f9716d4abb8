---------------------------- MODULE MCBrowserRun ----------------------------
(***************************************************************************)
(* BrowserRun for TLC.  Nothing tells one worker from another.             *)
(***************************************************************************)
EXTENDS BrowserRun, TLC

AnyWorker == Permutations(Workers)
=============================================================================
