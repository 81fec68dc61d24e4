------------------------------ MODULE RoleAgents ------------------------------
(***************************************************************************)
(* MultiAgentOrchestrator with the two roles of MultiRoleOpsAgent.  Recon  *)
(* and Executor share a board; both observe every result, one of them      *)
(* acts.  What the roles keep on the board is one record, with the role    *)
(* that is active and whether it has acted.                                *)
(***************************************************************************)
EXTENDS FileAgents

RolesBlank == [target |-> None, signals |-> <<>>, path |-> None,
               tokens |-> {}, format |-> None, visited |-> {}, cursor |-> 1,
               role |-> "Recon", acted |-> FALSE]

Allowed == [Recon |-> {"read_file", "list_dir", "wait"},
            Executor |-> {"read_file", "set_output", "wait"}]

Items(path) == SelectSeq(Here.files[path], LAMBDA l : l.at = "item")
Signals == [i \in DOMAIN Items("README") |-> Items("README")[i].value]

\* The signal to look at first: about an incident, or the acknowledgement.
Prioritized ==
  LET prior == SelectSeq(Signals, LAMBDA f : f \in {"incident", "final", "manager_ack"})
  IN IF prior = <<>> THEN Signals[1] ELSE prior[1]

\* The entry of a listing to look at: a log, a text or about an incident, or
\* else the first.
Promising ==
  LET some == SelectSeq(Here.listing, LAMBDA f : f \in
                {"incident.log", "service.log", "snapshot", "notes", "readme",
                 "handoff_1", "handoff_2", "status.log", "sequence",
                 "timeline", "incidents"})
  IN IF some = <<>> THEN Here.listing[1] ELSE some[1]

\* _ReconAgent.observe.
ReconObserves(b) ==
  IF Answers("list_dir") /\ b.path = None THEN [b EXCEPT !.path = Promising]
  ELSE IF ~ReadLast("README") THEN b
  ELSE LET t == Starting("README", "TARGET_KEY")
           n == IF t = None THEN b ELSE [b EXCEPT !.target = t]
       IN IF Signals = <<>> THEN n
          ELSE [n EXCEPT !.signals = Signals, !.path = Prioritized]

\* _maybe_store_tokens: the target key is found anywhere in a line; any other
\* key is all the text before "=", so only a line that starts with it counts.
TokensIn(b, path) ==
  {[key |-> l.key, value |-> l.value] :
     l \in {k \in {Here.files[path][i] : i \in DOMAIN Here.files[path]} :
              \/ k.key = b.target
              \/ k.at = "start" /\ k.key \in {"ANALYST_TOKEN", "MANAGER_TOKEN",
                                           "HANDOFF_TOKEN"}}}

\* _ExecutorAgent.observe.
ExecutorObserves(b) ==
  IF ~Answers("read_file") THEN b
  ELSE [b EXCEPT !.visited = @ \cup {last.path},
                 !.tokens = @ \cup TokensIn(b, last.path),
                 !.format = IF Starting(last.path, "FINAL_FORMAT") = None THEN @
                            ELSE Starting(last.path, "FINAL_FORMAT")]

\* _handoff_policy, which observe asks once a role has acted.
Handoff(b) ==
  IF b.acted /\ b.role = "Recon" /\ b.target # None /\ b.path # None
    THEN [b EXCEPT !.role = "Executor"] ELSE b

Observes(b) == Handoff(ExecutorObserves(ReconObserves(b)))

\* readme_scanned is set with the first answer to read_file("README").
ReconActs(b) ==
  IF "README" \notin b.visited THEN Move(b, Read("README"))
  ELSE IF b.path = None THEN Move(b, List)
  ELSE Move(b, Wait)

TokenOf(b, key) == {t.value : t \in {u \in b.tokens : u.key = key}}

\* What fills the final format, or the target's own value.
Wanted(b) ==
  CASE b.format = "analyst first" -> <<"ANALYST_TOKEN", "MANAGER_TOKEN">>
    [] b.format = "manager first" -> <<"MANAGER_TOKEN", "ANALYST_TOKEN">>
    [] OTHER -> <<b.target>>

CanEmit(b) == /\ b.target # None
              /\ \A i \in DOMAIN Wanted(b) : TokenOf(b, Wanted(b)[i]) # {}

ExecutorActs(b) ==
  LET ahead == {i \in DOMAIN b.signals : i >= b.cursor /\ b.signals[i] \notin b.visited}
      next == Earliest(ahead)
  IN CASE ahead # {} -> Move([b EXCEPT !.cursor = next + 1], Read(b.signals[next]))
       [] ahead = {} /\ b.path \notin b.visited ->
            Move([b EXCEPT !.visited = @ \cup {b.path}], Read(b.path))
       [] ahead = {} /\ b.path \in b.visited /\ CanEmit(b) ->
            Move(b, Deliver(b.target, [i \in DOMAIN Wanted(b) |->
                     CHOOSE v \in TokenOf(b, Wanted(b)[i]) : TRUE]))
       [] OTHER -> Move(b, Wait)

\* MultiAgentOrchestrator.observe and act.  An action outside the contract of
\* the role raises out of act, which ends the episode as a refused one does.
RolesAct(before) ==
  LET b == Observes(before)
      move == IF b.role = "Recon" THEN ReconActs(b) ELSE ExecutorActs(b)
  IN Move([move.memory EXCEPT !.acted = TRUE],
          IF move.action.type \in Allowed[b.role] THEN move.action
                                                  ELSE [type |-> "raises"])
=============================================================================
