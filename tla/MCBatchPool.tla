----------------------------- MODULE MCBatchPool -----------------------------
(***************************************************************************)
(* The instance of BatchPool for TLC; BatchPool.cfg names its workers and  *)
(* jobs.                                                                   *)
(***************************************************************************)
EXTENDS BatchPool
=============================================================================
