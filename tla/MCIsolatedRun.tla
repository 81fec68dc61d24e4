---------------------------- MODULE MCIsolatedRun ----------------------------
(***************************************************************************)
(* Small instances of IsolatedRun: calls with and without a timeout.       *)
(***************************************************************************)
EXTENDS IsolatedRun
=============================================================================
