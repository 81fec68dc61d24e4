---------------------------- MODULE MCRateAgents ----------------------------
(***************************************************************************)
(* Small instances of RateAgents: the four tasks, any agent and the        *)
(* agents of agents/ written for them.                                     *)
(***************************************************************************)
EXTENDS RateAgents
=============================================================================
