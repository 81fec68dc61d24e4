--------------------------- MODULE BoundedEpisode ---------------------------
(***************************************************************************)
(* What one call of agent_bench.runner.runner.run promises its callers:    *)
(* an episode performs at most `limit` task actions, then either returns   *)
(* exactly one verdict or aborts with an exception, and it never works     *)
(* again afterwards.  EpisodeRunner implements this.                       *)
(***************************************************************************)
EXTENDS Naturals

CONSTANTS Limits,    \* the action budgets a task manifest can declare
          Verdicts,  \* the outcomes an artifact can report
          NoVerdict  \* no artifact yet

VARIABLES limit,   \* the budget of this episode
          acts,    \* the task actions started so far
          phase,   \* "running", "done" or "aborted"
          verdict  \* the outcome, once there is one

episodeVars == <<limit, acts, phase, verdict>>

EpisodeInit ==
  /\ limit \in Limits
  /\ acts = 0
  /\ phase = "running"
  /\ verdict = NoVerdict

Act ==
  /\ phase = "running"
  /\ acts < limit
  /\ acts' = acts + 1
  /\ UNCHANGED <<limit, phase, verdict>>

Conclude ==
  /\ phase = "running"
  /\ phase' = "done"
  /\ verdict' \in Verdicts
  /\ UNCHANGED <<limit, acts>>

Abort ==
  /\ phase = "running"
  /\ phase' = "aborted"
  /\ UNCHANGED <<limit, acts, verdict>>

EpisodeNext == Act \/ Conclude \/ Abort

EpisodeSafety == EpisodeInit /\ [][EpisodeNext]_episodeVars

(***************************************************************************)
(* A bounded episode ends.                                                 *)
(***************************************************************************)
EpisodeSpec == EpisodeSafety /\ <>(phase # "running")
=============================================================================
