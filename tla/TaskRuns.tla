------------------------------- MODULE TaskRuns -------------------------------
(***************************************************************************)
(* Episodes of the tasks of FileTasks, each under an agent that takes any  *)
(* action with what it has been told, or under a reference agent.          *)
(***************************************************************************)
EXTENDS RoleAgents

CONSTANT FreeCalls  \* bound on the actions of the agent that may take any

ASSUME RunsAssumption == FreeCalls \in 1 .. ToolCalls

VARIABLES player,  \* who plays the agent
          memory   \* its attributes

runVars == <<taskVars, player, memory>>

Blanks == [any |-> NoAction, ops |-> OpsBlank, toy |-> ToyBlank,
           naive |-> NaiveBlank, auditor |-> AuditorBlank,
           runbook |-> RunbookBlank, roles |-> RolesBlank,
           stream |-> StreamBlank, dice |-> DiceBlank, cheater |-> NoAction]

\* Reference agents play the tasks whose actions they know, and the runbook's
\* needs its runbook.
Plays(p) == CASE p = "any" -> Tasks
              [] p = "stream" -> {"stream"}
              [] p = "dice" -> {"dice"}
              [] p = "runbook" -> {"runbook"}
              [] OTHER -> FileTaskNames

Acts(m) ==
  CASE player = "ops" -> OpsActs(m)
    [] player = "toy" -> ToyActs(m)
    [] player = "naive" -> NaiveActs(m)
    [] player = "auditor" -> AuditorActs(m)
    [] player = "runbook" -> RunbookActs(m)
    [] player = "roles" -> RolesAct(m)
    [] player = "stream" -> StreamActs(m)
    [] player = "dice" -> DiceActs(m)
    [] player = "cheater" -> CheaterActs(m)

Makes(move) == memory' = move.memory /\ Perform(move.action)

ReferenceMoves ==
  /\ player # "any"
  /\ Makes(Acts(memory))
  /\ UNCHANGED player

\* What an agent can know: what is in the content that it was given.
InFile(path) == LET file == Here.files[path]
                IN UNION {{file[i].value, file[i].key} : i \in DOMAIN file}
Known == CASE task = "stream" -> IF critical \in polled THEN {"stream"} ELSE {}
           [] task = "dice" -> {"winner"}
           [] OTHER -> UNION {InFile(path) : path \in read}

\* What it can say: any of that, or the answer if it knows all the values in it.
Ran(s) == {s[i] : i \in DOMAIN s}
Answer == CASE task = "stream" -> <<"stream">>
            [] task = "dice" -> <<"winner">>
            [] OTHER -> Here.answer
Sayable == {<<v>> : v \in Known} \cup {a \in {Answer} : Ran(a) \subseteq Known}

AnyMoves ==
  /\ player = "any" /\ spent < FreeCalls
  /\ \/ /\ task \in FileTaskNames
        /\ \/ Perform(List)
           \/ \E type \in {"read_file", "read_json", "find_line"} \cap Verbs,
                 f \in DOMAIN Here.files \cup {"nowhere"} :
                Perform([type |-> type, path |-> f])
           \/ \E f \in read : Perform(Extract(f, Here.key))
           \/ \E k \in {Here.key, "ACCESS_TOKEN"}, v \in Sayable :
                Perform(Deliver(k, v))
     \/ /\ task = "stream"
        /\ \/ \E c \in 0 .. pages : Perform([type |-> "poll_stream", cursor |-> c])
           \/ \E v \in Sayable : Perform(Deliver("STREAM_CODE", v))
     \/ /\ task = "dice"
        /\ \/ \E n \in {3, 4} : Perform([type |-> "roll_dice", result |-> n])
           \/ \E v \in Sayable : Perform(Deliver("ACCESS_TOKEN", v))
     \/ Perform(Wait)
  /\ UNCHANGED <<player, memory>>

RunsInit == /\ player \in DOMAIN Blanks /\ task \in Plays(player)
            /\ memory = Blanks[player] /\ TaskInit
RunsNext == ReferenceMoves \/ AnyMoves
RunsSpec == RunsInit /\ [][RunsNext]_runVars /\ WF_runVars(ReferenceMoves)

-----------------------------------------------------------------------------
\* The files (pages, rolls) that an answer is spread over.  The codes of the
\* runbook's phases stand in its sequence log as well (setup.py:77-84).
Enough ==
  CASE task = "hidden" -> ".config" \in read
    [] task = "alert" -> "incident.log" \in read
    [] task = "drift" -> "desired.conf" \in read
    [] task = "recovery" -> "handoff_2" \in read
    [] task = "support" -> "manager_ack" \in read
    [] task = "security" -> "incident" \in read
    [] task \in {"analyst_first", "manager_first"} ->
         {"analyst.log", "manager_ack"} \subseteq read
    [] task = "runbook" ->
         /\ {"timeline", "handoff"} \subseteq read
         /\ \/ "sequence" \in read
            \/ {"phase_1", "phase_2", "phase_3"} \subseteq read
    [] task = "auditor" -> {"runtime_guard", "audit.log"} \subseteq read
    [] task = "stream" -> critical \in polled
    [] task = "dice" -> rolls \in 1 .. 3

\* No task but the auditor's has a shortcut: an episode succeeds only when its
\* agent was given every file (page, roll) that the answer is spread over;
\* decoys and values under another key do not pass (setup.py and validate.py of
\* the tasks).
NoShortcut == over = "success" /\ task # "auditor" => Enough

\* sandboxed_code_auditor/README.md:7-11 "Inspect `src/runtime_guard.py` to
\* capture the `ISSUE_ID` [...] Inspect `reports/audit.log` to capture the
\* `AUDIT_CODE`": the auditor's answer takes both files.  It does not: the scope
\* that step 1 reads shows it as a sample (setup.py:28).
AuditTakesBothFiles == over = "success" /\ task = "auditor" => Enough

\* A reference agent never delivers a wrong answer, not even in a task it was
\* not written for: its first set_output ends the episode with success.
FirstAnswerIsRight ==
  player # "any" /\ last.type = "set_output" => over = "success"

\* pairings.py "known-good agent-task pairings", and the other tasks that an
\* agent here was written for.
Pairings == {<<"toy", "hidden">>, <<"ops", "alert">>, <<"stream", "stream">>,
             <<"runbook", "runbook">>, <<"auditor", "auditor">>}
OtherPairs == {<<"ops", "drift">>, <<"ops", "recovery">>, <<"dice", "dice">>,
               <<"naive", "hidden">>, <<"roles", "security">>,
               <<"roles", "support">>}

\* Each of these pairs solves its task within ToolCalls actions, whatever the
\* seed: wherever the critical page is among however many.
PairingsSolve ==
  <<player, task>> \in Pairings \cup OtherPairs => <>(over = "success")

\* multi_role_escalation/README.md:29-32 "This task is intentionally simple
\* [...] It pairs well with the MultiRoleOpsAgent reference implementation".
RolesSolveEscalation ==
  player = "roles" /\ task \in {"analyst_first", "manager_first"} => over # "failed"
=============================================================================
