------------------------------ MODULE MCTaskRuns ------------------------------
(***************************************************************************)
(* Small instances of TaskRuns: every task, every agent.                   *)
(***************************************************************************)
EXTENDS TaskRuns
=============================================================================
