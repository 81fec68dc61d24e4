------------------------------ MODULE FileAgents ------------------------------
(***************************************************************************)
(* The reference agents that play the tasks of FileTasks.  act of an agent *)
(* is an operator that takes its attributes and the last observation to    *)
(* its new attributes and the action it returns.                           *)
(***************************************************************************)
EXTENDS FileTasks

Move(memory, action) == [memory |-> memory, action |-> action]
None == "none"

Wait == [type |-> "wait"]
List == [type |-> "list_dir"]
Read(path) == [type |-> "read_file", path |-> path]
Extract(path, key) == [type |-> "extract_value", path |-> path, key |-> key]
Deliver(key, value) == [type |-> "set_output", key |-> key, value |-> value]

Answers(type) == last.type = type /\ reply.ok
ReadLast(path) == Answers("read_file") /\ last.path = path

\* The value of the first line that starts with key, as the agents parse.
Starting(path, key) ==
  LET file == Here.files[path]
      found == {i \in DOMAIN file : file[i].at = "start" /\ file[i].key = key}
  IN IF found = {} THEN None ELSE file[Earliest(found)].value

-----------------------------------------------------------------------------
\* OpsTriageAgent.
OpsBlank == [target |-> None, files |-> <<>>, seen |-> {}, pending |-> None,
             desired |-> FALSE, live |-> FALSE]

Unseen(m, files) == SelectSeq(files, LAMBDA f : f \notin m.seen)

OpsLearns(m) ==
  CASE Answers("list_dir") -> [m EXCEPT !.files = Unseen(m, Here.listing)]
    [] ReadLast("README") ->
         [m EXCEPT !.target = IF Starting("README", "TARGET_KEY") = None THEN @
                              ELSE Starting("README", "TARGET_KEY")]
    [] ReadLast("desired.conf") -> [m EXCEPT !.desired = TRUE]
    [] ReadLast("live.conf") -> [m EXCEPT !.live = TRUE]
    [] OTHER -> m

IsArtifact(path) == path \notin {"README", "desired.conf", "live.conf"}

\* _maybe_emit_patch: the first setting that differs.
Desired == Here.files["desired.conf"]
Drifted == {i \in DOMAIN Desired :
              Desired[i].value # Starting("live.conf", Desired[i].key)}
CanPatch(m) == /\ m.target = "DRIFT_PATCH" /\ m.desired /\ m.live
               /\ Drifted # {}
Patch == LET line == Desired[Earliest(Drifted)] IN <<line.key, line.value>>

\* Mutant: a failed extraction leaves nothing to try.
OpsActsOnce(before) ==
  LET m == OpsLearns(before)
  IN IF last.type = "extract_value" /\ ~reply.ok THEN Move(m, Wait)
     ELSE IF m.target = None THEN Move(m, Read("README"))
     ELSE IF m.files = <<>> THEN Move(m, List)
     ELSE Move([m EXCEPT !.files = Tail(@)], Read(Head(m.files)))

OpsChooses(m) ==
  LET left == Unseen(m, m.files)
  IN IF Answers("read_file") /\ IsArtifact(last.path)
          /\ m.target \in {"ALERT_CODE", "RECOVERY_TOKEN"}
       THEN Move([m EXCEPT !.pending = m.target], Extract(last.path, m.target))
     ELSE IF Answers("extract_value") /\ m.pending # None
       THEN Move([m EXCEPT !.pending = None], Deliver(m.pending, <<reply.value>>))
     ELSE IF Answers("set_output") THEN Move(m, Wait)
     ELSE IF CanPatch(m) THEN Move(m, Deliver(m.target, Patch))
     ELSE IF m.target = None THEN Move(m, Read("README"))
     ELSE IF m.target = "DRIFT_PATCH" /\ ~m.desired THEN Move(m, Read("desired.conf"))
     ELSE IF m.target = "DRIFT_PATCH" /\ ~m.live THEN Move(m, Read("live.conf"))
     ELSE IF m.files = <<>> THEN Move(m, List)
     ELSE IF left = <<>> THEN Move([m EXCEPT !.files = <<>>], Wait)
     ELSE Move([m EXCEPT !.files = Tail(left), !.seen = @ \cup {Head(left)}],
               Read(Head(left)))

OpsActs(before) == OpsChooses(OpsLearns(before))

-----------------------------------------------------------------------------
\* ToyAgent.  Its retries of rate_limited calls have no use in these tasks.
ToyBlank == [seen |-> {}]

\* visible_state: files_seen, sorted, by their places in the listing.
FilesSeen == {i \in DOMAIN Here.listing : Here.listing[i] \in seen}

ToyExplores(m) ==
  LET left == {i \in FilesSeen : Here.listing[i] \notin m.seen}
      next == Here.listing[Earliest(left)]
  IN IF left = {} THEN Move(m, Wait)
     ELSE Move([m EXCEPT !.seen = @ \cup {next}], Read(next))

ToyActs(before) ==
  LET m == IF last.type = "read_file" /\ reply.error = "file_not_found"
             THEN [before EXCEPT !.seen = @ \cup {last.path}] ELSE before
  IN IF Answers("read_file") THEN Move(m, Extract(last.path, "API_KEY"))
     ELSE IF Answers("extract_value") THEN Move(m, Deliver("API_KEY", <<reply.value>>))
     ELSE IF FilesSeen = {} /\ reply.ok THEN Move(m, List)
     ELSE ToyExplores(m)

-----------------------------------------------------------------------------
\* NaiveLLMLoopAgent: one look, one retry.
NaiveBlank == [files |-> <<>>, cached |-> None, value |-> None, retry |-> 1]

NaiveKey == IF task = "hidden" THEN "API_KEY" ELSE "ACCESS_TOKEN"

NaiveLearns(m) ==
  CASE Answers("list_dir") -> [m EXCEPT !.files = Here.listing]
    [] Answers("read_file") -> [m EXCEPT !.cached = last.path]
    [] Answers("extract_value") -> [m EXCEPT !.value = reply.value]
    [] OTHER -> m

NaiveChooses(m) ==
  IF Answers("set_output") THEN Move(m, Wait)
  ELSE IF ~reply.ok /\ m.retry > 0 THEN Move([m EXCEPT !.retry = @ - 1], last)
  ELSE IF m.value # None THEN Move(m, Deliver(NaiveKey, <<m.value>>))
  ELSE IF m.cached # None THEN Move(m, Extract(m.cached, NaiveKey))
  ELSE IF m.files # <<>> THEN Move([m EXCEPT !.files = Tail(@)], Read(Head(m.files)))
  ELSE Move(m, List)

NaiveActs(before) == NaiveChooses(NaiveLearns(before))

-----------------------------------------------------------------------------
\* SandboxedCodeAuditorAgent.
AuditorBlank == [read |-> {}, target |-> None, issue |-> None, audit |-> None,
                 pending |-> None, submitted |-> FALSE]

AuditorLearns(m) ==
  CASE Answers("read_file") ->
         [m EXCEPT !.read = @ \cup {last.path},
                   !.target = IF last.path = "audit_scope"
                                THEN Starting(last.path, "TARGET_KEY") ELSE @]
    [] Answers("extract_value") ->
         [m EXCEPT !.issue = IF m.pending = "ISSUE_ID" THEN reply.value ELSE @,
                   !.audit = IF m.pending = "AUDIT_CODE" THEN reply.value ELSE @,
                   !.pending = None]
    [] Answers("set_output") -> [m EXCEPT !.submitted = TRUE]
    [] OTHER -> m

AuditorChooses(m) ==
  IF m.submitted THEN Move(m, Wait)
  ELSE IF ReadLast("runtime_guard")
    THEN Move([m EXCEPT !.pending = "ISSUE_ID"], Extract(last.path, "ISSUE_ID"))
  ELSE IF ReadLast("audit.log")
    THEN Move([m EXCEPT !.pending = "AUDIT_CODE"], Extract(last.path, "AUDIT_CODE"))
  ELSE IF "audit_scope" \notin m.read THEN Move(m, Read("audit_scope"))
  ELSE IF "runtime_guard" \notin m.read THEN Move(m, Read("runtime_guard"))
  ELSE IF "audit.log" \notin m.read THEN Move(m, Read("audit.log"))
  ELSE IF None \notin {m.issue, m.audit, m.target}
    THEN Move(m, Deliver(m.target, <<m.issue, m.audit>>))
  ELSE Move(m, Wait)

AuditorActs(before) == AuditorChooses(AuditorLearns(before))

-----------------------------------------------------------------------------
\* RunbookVerifierAgent.
RunbookBlank == [listed |-> FALSE, read |-> {}, target |-> None,
                 phases |-> <<>>, codes |-> <<>>, ack |-> None, handoff |-> None]

Indexed == LET key(i) == <<"PHASE_1_PATH", "PHASE_2_PATH", "PHASE_3_PATH">>[i]
           IN [i \in 1 .. 3 |-> Starting("runbook_index", key(i))]
InPhases(m, path) == \E i \in DOMAIN m.phases : m.phases[i] = path

\* _handle_read.  Codes come in the order of the phases.
RunbookLearns(m) ==
  IF ~Answers("read_file") THEN m
  ELSE LET n == [m EXCEPT !.read = @ \cup {last.path}]
       IN CASE last.path = "README" ->
                 [n EXCEPT !.target = Starting("README", "TARGET_KEY")]
            [] last.path = "runbook_index" -> [n EXCEPT !.phases = Indexed]
            [] InPhases(m, last.path) ->
                 [n EXCEPT !.codes = Append(@, Starting(last.path, "PHASE_CODE"))]
            [] last.path = "timeline" ->
                 [n EXCEPT !.ack = Starting("timeline", "ACK_ID")]
            [] last.path = "handoff" ->
                 [n EXCEPT !.handoff = Starting("handoff", "HANDOFF_TOKEN")]
            [] OTHER -> n

\* What it reads, in this order, and the places of what it has not read yet.
Plan(m) == <<"README", "runbook_index">> \o m.phases
             \o <<"timeline", "handoff", "sequence">>
Unread(m) == {i \in DOMAIN Plan(m) : Plan(m)[i] \notin m.read}

\* Mutant: the phases are read backwards, and so the codes come.
RunbookActsBackwards(before) ==
  LET m == RunbookLearns(before)
      left == Unread(m)
      latest == CHOOSE i \in left : \A j \in left : j <= i
  IN IF ~m.listed THEN Move([m EXCEPT !.listed = TRUE], List)
     ELSE IF left # {} THEN Move(m, Read(Plan(m)[latest]))
     ELSE Move(m, Deliver(m.target, m.codes \o <<m.ack, m.handoff>>))

\* act: list once, then read what is missing.
RunbookChooses(m) ==
  LET left == Unread(m)
  IN IF Answers("set_output") THEN Move(m, Wait)
     ELSE IF ~m.listed THEN Move([m EXCEPT !.listed = TRUE], List)
     ELSE IF left # {} THEN Move(m, Read(Plan(m)[Earliest(left)]))
     ELSE IF m.target # None /\ m.codes # <<>> /\ Len(m.codes) = Len(m.phases)
       THEN Move(m, Deliver(m.target, m.codes \o <<m.ack, m.handoff>>))
     ELSE Move(m, Wait)

RunbookActs(before) == RunbookChooses(RunbookLearns(before))

\* LogStreamMonitorAgent: a code that came with the last page is taken.
StreamBlank == [cursor |-> 0, done |-> FALSE]
StreamActs(m) ==
  CASE m.done -> Move(m, Wait)
    [] ~m.done /\ last.type = "poll_stream" /\ reply.value # None ->
         Move([m EXCEPT !.done = TRUE], Deliver("STREAM_CODE", <<reply.value>>))
    [] ~m.done /\ last.type = "poll_stream" /\ reply.value = None
       /\ reply.exhausted -> Move([m EXCEPT !.done = TRUE], Wait)
    [] ~m.done /\ last.type = "set_output" -> Move([m EXCEPT !.done = TRUE], Wait)
    [] OTHER ->
         LET cursor == IF last.type = "poll_stream" THEN reply.next ELSE m.cursor
         IN Move([m EXCEPT !.cursor = cursor],
                 [type |-> "poll_stream", cursor |-> cursor])

\* Agent of dice_game_agent.py.  It seeds random with 42 plus its count, which
\* gives these three rolls; later ones do not matter.
DiceBlank == [count |-> 0]
SeededRolls == <<6, 1, 4>>
DiceActs(m) ==
  Move([m EXCEPT !.count = @ + 1],
       [type |-> "roll_dice",
        result |-> IF m.count < 3 THEN SeededRolls[m.count + 1] ELSE 1])

\* CheaterSimAgent: the actions module that it imports is not the one that
\* the loader has given the environment, so it has none to ask.
CheaterActs(m) == Move(m, [type |-> "unknown_action"])
=============================================================================
