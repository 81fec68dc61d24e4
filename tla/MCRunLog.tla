------------------------------- MODULE MCRunLog -------------------------------
(***************************************************************************)
(* Small instances of RunLog: two seeds of one task and another task, and  *)
(* logs of up to two artifacts in every incomplete shape.                  *)
(***************************************************************************)
EXTENDS RunLog

Key(task, seed) == [agent |-> "a", task |-> task, seed |-> seed]
MCKeys == {Key("t", 0), Key("u", 0)}

Shapes ==
  {artifact \in [success : {Absent, "yes", "no"},
                 termination : {None, "steps_exhausted"},
                 failure : {Absent, None, "timeout", "crash"},
                 reason : {None, "why"},
                 fields : {{}, {"run_id"}, {"run_id", "budgets"}},
                 entries : {{}, {"io_audit"}}, hash : {None, "right", "stale"}] :
     /\ artifact.failure = "timeout" => artifact.reason = None
     /\ artifact.entries = {} => artifact.fields = {}}

Old(i, key, body) ==
  [key |-> key, started |-> 2 * i - 1, completed |-> 2 * i, steps |-> 1, body |-> body]
OldFailure == [RunnerArtifact(FALSE, "timeout") EXCEPT !.fields = {"run_id"}, !.hash = None]
OldSuccess == [RunnerArtifact(TRUE, None) EXCEPT !.fields = {"run_id"}, !.hash = None]

MCLegacy ==
  {<<>>} \cup {<<Old(1, Key("t", 0), body)>> : body \in Shapes}
    \cup {<<Old(1, Key("t", 0), a), Old(2, Key("t", 0), b)>> :
            <<a, b>> \in {OldFailure, OldSuccess} \X {OldFailure, OldSuccess}}
=============================================================================
