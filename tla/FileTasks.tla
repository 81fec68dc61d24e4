------------------------------- MODULE FileTasks -------------------------------
(***************************************************************************)
(* The tasks whose answer is spread over files, the stream and the dice    *)
(* game: what their setup writes, the actions they offer and what their    *)
(* validators accept.                                                      *)
(*                                                                         *)
(* A file is the sequence of its lines with a value.  Of a line, "at" says *)
(* where its key stands, which decides who finds it: at the start, in a    *)
(* comment, inside other text, or as an item of a list.  Values that setup *)
(* draws are named after what they are.  A missing line of plain text and  *)
(* the numbers inside a value make no difference to any agent.             *)
(***************************************************************************)
EXTENDS Naturals, Sequences

CONSTANTS ToolCalls,  \* bound on the actions; the tasks allow 40 and more
          MaxPages    \* bound on the pages of the stream

ASSUME TaskAssumption == ToolCalls \in Nat \ {0} /\ MaxPages \in Nat \ {0}

Line(key, value) == [at |-> "start", key |-> key, value |-> value]
Note(key, value) == [at |-> "comment", key |-> key, value |-> value]
Said(key, value) == [at |-> "inside", key |-> key, value |-> value]
Item(path) == [at |-> "item", key |-> "-", value |-> path]
Target(key) == Line("TARGET_KEY", key)

\* What the tasks with files have in common.  listing is list_dir("/app"):
\* files and directories, sorted.
FileTask(key, answer, listing, files) ==
  [key |-> key, answer |-> answer, listing |-> listing, files |-> files]

-----------------------------------------------------------------------------
\* setup of each task: what its files say, and the task with them.  The name
\* of the hidden file begins with a dot.
HiddenText(f) == CASE f = ".config" -> <<Line("API_KEY", "correct")>>
                   [] f = "config.example" -> <<Line("API_KEY", "changeme")>>
                   [] OTHER -> <<>>
HiddenConfig ==
  FileTask("API_KEY", <<"correct">>, <<".config", "config.example", "readme">>,
           [f \in {".config", "config.example", "readme"} |-> HiddenText(f)])

AlertText(f) == CASE f = "README" -> <<Target("ALERT_CODE")>>
                  [] f = "incident.log" -> <<Line("INCIDENT", "ingest"),
                                             Line("ALERT_CODE", "alert")>>
                  [] f = "snapshot" -> <<Line("queue_depth", "947")>>
                  [] OTHER -> <<>>
LogAlert ==
  FileTask("ALERT_CODE", <<"alert">>,
           <<"README", "incident.log", "service.log", "snapshot">>,
           [f \in {"README", "incident.log", "service.log", "snapshot"} |-> AlertText(f)])

DriftText(f) ==
  CASE f = "README" -> <<Target("DRIFT_PATCH")>>
    [] f = "desired.conf" -> <<Line("MAX_CONN", "desired"), Line("MODE", "mode")>>
    [] f = "live.conf" -> <<Line("MAX_CONN", "half"), Line("MODE", "mode")>>
    [] OTHER -> <<>>
ConfigDrift ==
  FileTask("DRIFT_PATCH", <<"MAX_CONN", "desired">>,
           <<"README", "desired.conf", "live.conf", "notes">>,
           [f \in {"README", "desired.conf", "live.conf", "notes"} |-> DriftText(f)])

RecoveryText(f) ==
  CASE f = "README" -> <<Target("RECOVERY_TOKEN")>>
    [] f = "status.log" -> <<Line("NEXT", "handoff_1")>>
    [] f = "handoff_1" -> <<Line("STEP", "1"), Line("NEXT", "handoff_2")>>
    [] OTHER -> <<Line("STEP", "2"), Line("RECOVERY_TOKEN", "token")>>
RecoveryChain ==
  FileTask("RECOVERY_TOKEN", <<"token">>,
           <<"README", "handoff_1", "handoff_2", "status.log">>,
           [f \in {"README", "handoff_1", "handoff_2", "status.log"} |-> RecoveryText(f)])

SupportText(f) == CASE f = "README" -> <<Target("ESCALATION_CODE"), Item("ticket"),
                                         Item("manager_ack"), Item("policy")>>
                    [] f = "manager_ack" -> <<Said("ESCALATION_CODE", "code")>>
                    [] OTHER -> <<>>
Support ==
  FileTask("ESCALATION_CODE", <<"code">>,
           <<"README", "conversations", "policies", "tickets">>,
           [f \in {"README", "ticket", "policy", "manager_ack"} |-> SupportText(f)])

\* The README lists findings/triage.txt, but the file is findings/triage.json.
SecurityText(f) == CASE f = "README" -> <<Target("BREACH_TOKEN"), Item("ids.log"),
                                          Item("triage.txt"), Item("incident")>>
                     [] f = "ids.log" -> <<Said("candidate_token", "decoy")>>
                     [] f = "incident" -> <<Said("BREACH_TOKEN", "breach")>>
                     [] OTHER -> <<>>
Security ==
  FileTask("BREACH_TOKEN", <<"breach">>,
           <<"README", "findings", "incidents", "logs">>,
           [f \in {"README", "ids.log", "triage.json", "incident"} |-> SecurityText(f)])

\* The final format puts the two tokens in one of two orders.
EscalationText(f) ==
  CASE f = "README" -> <<Target("ESCALATION_CODE"), Item("analyst.log"),
                         Item("manager_ack"), Item("final")>>
    [] f = "analyst.log" -> <<Said("ANALYST_TOKEN", "analyst")>>
    [] f = "manager_ack" -> <<Said("MANAGER_TOKEN", "manager")>>
    [] OTHER -> <<>>
Escalation(format) ==
  FileTask("ESCALATION_CODE",
           IF format = "analyst first" THEN <<"analyst", "manager">>
                                       ELSE <<"manager", "analyst">>,
           <<"README", "conversations", "incidents">>,
           [f \in {"README", "analyst.log", "manager_ack", "final"} |->
              IF f = "final" THEN <<Line("FINAL_FORMAT", format)>> ELSE EscalationText(f)])

RunbookText(f) ==
  CASE f = "README" -> <<Target("RUNBOOK_CHECKSUM")>>
    [] f = "runbook_index" -> <<Line("PHASE_1_PATH", "phase_1"),
                                Line("PHASE_2_PATH", "phase_2"),
                                Line("PHASE_3_PATH", "phase_3")>>
    [] f = "phase_1" -> <<Line("PHASE_CODE", "code_1"), Line("NEXT", "phase_2")>>
    [] f = "phase_2" -> <<Line("PHASE_CODE", "code_2"), Line("NEXT", "phase_3")>>
    [] f = "phase_3" -> <<Line("PHASE_CODE", "code_3")>>
    [] f = "sequence" -> <<Said("CODE", "code_1"), Said("CODE", "code_2"),
                           Said("CODE", "code_3")>>
    [] f = "timeline" -> <<Line("ACK_ID", "ack")>>
    [] OTHER -> <<Line("HANDOFF_TOKEN", "handoff")>>
RunbookChecksum == <<"code_1", "code_2", "code_3", "ack", "handoff">>
Runbook ==
  FileTask("RUNBOOK_CHECKSUM", RunbookChecksum,
           <<"README", "handoff", "phase_1", "phase_2", "phase_3",
             "runbook_index", "sequence", "timeline">>,
           [f \in {"README", "handoff", "phase_1", "phase_2", "phase_3",
                   "runbook_index", "sequence", "timeline"} |-> RunbookText(f)])

\* The scope shows the expected output, with the values, as a sample.
AuditorText(f) ==
  CASE f = "audit_scope" -> <<Target("SANDBOX_AUDIT_TOKEN"),
                              Said("sample", "issue"), Said("sample", "audit")>>
    [] f = "runtime_guard" -> <<Note("ISSUE_ID", "issue")>>
    [] OTHER -> <<Said("AUDIT_CODE", "audit")>>
Auditor ==
  FileTask("SANDBOX_AUDIT_TOKEN", <<"issue", "audit">>,
           <<"audit_scope", "reports", "src">>,
           [f \in {"audit_scope", "runtime_guard", "audit.log"} |-> AuditorText(f)])

World == [hidden |-> HiddenConfig, alert |-> LogAlert, drift |-> ConfigDrift,
          recovery |-> RecoveryChain, support |-> Support,
          security |-> Security, runbook |-> Runbook, auditor |-> Auditor,
          analyst_first |-> Escalation("analyst first"),
          manager_first |-> Escalation("manager first")]
FileTaskNames == DOMAIN World
Tasks == FileTaskNames \cup {"stream", "dice"}

-----------------------------------------------------------------------------
VARIABLES task,      \* the episode's task
          pages,     \* setup of the stream: how many pages,
          critical,  \* and the page with the code
          seen,      \* seen_paths
          output,    \* agent_output, per key
          rolls,     \* dice game: current_roll
          wins,      \* dice game: wins
          read,      \* history: the files whose content the agent was given
          polled,    \* history: the pages it was given
          over,      \* how the episode has ended
          spent,     \* steps, which are tool calls as well
          last,      \* the last action, as observed
          reply      \* its result, as observed

taskVars == <<task, pages, critical, seen, output, rolls, wins, read, polled,
              over, spent, last, reply>>

Here == World[task]
Initially == IF task \in {"hidden", "stream", "dice"} THEN {}
             ELSE IF task = "auditor" THEN {"audit_scope"} ELSE {"README"}
Nothing == <<>>
Keys == {"API_KEY", "ALERT_CODE", "DRIFT_PATCH", "RECOVERY_TOKEN",
         "ESCALATION_CODE", "BREACH_TOKEN", "RUNBOOK_CHECKSUM",
         "SANDBOX_AUDIT_TOKEN", "STREAM_CODE", "ACCESS_TOKEN"}
NoAction == [type |-> "none"]
Good == [ok |-> TRUE, error |-> "none", value |-> "none", next |-> 0,
         exhausted |-> FALSE]
Bad(error) == [Good EXCEPT !.ok = FALSE, !.error = error]

TaskInit ==
  /\ pages \in 1 .. (IF task = "stream" THEN MaxPages ELSE 1)
  /\ critical \in 1 .. pages
  /\ seen = Initially /\ output = [k \in Keys |-> Nothing]
  /\ rolls = 0 /\ wins = 0 /\ read = {} /\ polled = {}
  /\ over = "no" /\ spent = 0 /\ last = NoAction /\ reply = Good

\* The actions a manifest declares; the runner refuses any other.
FileVerbs == {"list_dir", "read_file", "extract_value", "set_output"}
Verbs == CASE task = "stream" -> {"poll_stream", "set_output"}
           [] task = "dice" -> {"roll_dice", "set_output"}
           [] task = "support" -> FileVerbs \cup {"read_json"}
           [] task = "security" -> FileVerbs \cup {"find_line"}
           [] OTHER -> FileVerbs

\* validate, per task.
StreamValid == output["STREAM_CODE"] = <<"stream">>
DiceValid == wins = 1
\* Mutant: any answer will do.
FileValidAny == output[Here.key] # Nothing
FileValid == output[Here.key] = Here.answer
Valid == CASE task = "stream" -> StreamValid
           [] task = "dice" -> DiceValid
           [] OTHER -> FileValid

\* What the runner does around an action.
Took(action) ==
  /\ over = "no"
  /\ UNCHANGED <<task, pages, critical>>
  /\ last' = action
  /\ spent' = spent + 1
  /\ over' = IF Valid' THEN "success"
             ELSE IF spent' = ToolCalls THEN "failed" ELSE "no"

\* An action the manifest does not declare ends the episode.
Refused(action) ==
  /\ over = "no"
  /\ action.type \notin Verbs
  /\ over' = "failed"
  /\ spent' = spent + 1
  /\ last' = action /\ reply' = Bad("unknown_action")
  /\ UNCHANGED <<task, pages, critical, seen, output, rolls, wins, read, polled>>

-----------------------------------------------------------------------------
\* list_dir; the runner marks what it answers as seen.
ListDir ==
  /\ reply' = Good
  /\ seen' = seen \cup {Here.listing[i] : i \in DOMAIN Here.listing}
  /\ UNCHANGED <<output, rolls, wins, read, polled>>

Fails(error) ==
  reply' = Bad(error) /\ UNCHANGED <<seen, output, rolls, wins, read, polled>>

ReadFile(path) ==
  IF path \notin DOMAIN Here.files THEN Fails("file_not_found")
  ELSE /\ reply' = Good /\ read' = read \cup {path}
       /\ UNCHANGED <<seen, output, rolls, wins, polled>>

\* read_json reads a file; of the files only the ticket is JSON.
ReadJson(path) ==
  IF path \in DOMAIN Here.files \ {"ticket"} THEN Fails("json_decode_error")
  ELSE ReadFile(path)

\* find_line reads a file; the needle may be there or not.
FindLine(path) ==
  ReadFile(path) \/ (path \in DOMAIN Here.files /\ Fails("line_not_found"))

\* extract_value: the auditor's looks into comments and text.
Matches(line, key) ==
  line.key = key /\ (task = "auditor" \/ line.at = "start")

\* The first of some places in a sequence.
Earliest(places) == CHOOSE i \in places : \A j \in places : i <= j

ExtractValue(path, key) ==
  LET file == Here.files[path]
      found == {i \in DOMAIN file : Matches(file[i], key)}
  IN IF found = {} THEN Fails("key_not_found")
     ELSE /\ reply' = [Good EXCEPT !.value = file[Earliest(found)].value]
          /\ UNCHANGED <<seen, output, rolls, wins, read, polled>>

SetOutput(key, value) ==
  /\ reply' = Good /\ output' = [output EXCEPT ![key] = value]
  /\ UNCHANGED <<seen, rolls, wins, read, polled>>

\* poll_stream.
PollStream(cursor) ==
  LET page == cursor + 1
  IN /\ reply' = IF page > pages
                   THEN [Good EXCEPT !.next = cursor, !.exhausted = TRUE]
                   ELSE [Good EXCEPT !.next = page, !.exhausted = page = pages,
                           !.value = IF page = critical THEN "stream" ELSE "none"]
     /\ polled' = polled \cup ({page} \cap 1 .. pages)
     /\ UNCHANGED <<seen, output, rolls, wins, read>>

\* roll_dice, of at most three rolls; the agent says what it rolled.
RollDice(result) ==
  IF rolls >= 3 THEN Fails("max_rolls_exceeded")
  ELSE /\ rolls' = rolls + 1
       /\ wins' = IF result = 4 THEN 1 ELSE wins
       /\ reply' = Good
       /\ UNCHANGED <<seen, output, read, polled>>

-----------------------------------------------------------------------------
\* The actions modules.  Those of five tasks are alike, and the others offer
\* what they offer, and sometimes more.
HiddenActions(action) ==
  \/ action.type = "list_dir" /\ ListDir
  \/ action.type = "read_file" /\ ReadFile(action.path)
  \/ action.type = "extract_value" /\ ExtractValue(action.path, action.key)
  \/ action.type = "set_output" /\ SetOutput(action.key, action.value)
AlertActions(action) == HiddenActions(action)
DriftActions(action) == HiddenActions(action)
RecoveryActions(action) == HiddenActions(action)
EscalationActions(action) == HiddenActions(action)
AuditorActions(action) == HiddenActions(action)
SupportActions(action) ==
  HiddenActions(action) \/ (action.type = "read_json" /\ ReadJson(action.path))
SecurityActions(action) ==
  HiddenActions(action) \/ (action.type = "find_line" /\ FindLine(action.path))
\* The runbook's set_output accepts one key only.
RunbookActions(action) ==
  IF action.type = "set_output" /\ action.key # Here.key
    THEN Fails("invalid_output_key") ELSE HiddenActions(action)
StreamActions(action) ==
  \/ action.type = "poll_stream" /\ PollStream(action.cursor)
  \/ action.type = "set_output" /\ SetOutput(action.key, action.value)
DiceActions(action) ==
  \/ action.type = "roll_dice" /\ RollDice(action.result)
  \/ action.type = "set_output" /\ SetOutput(action.key, action.value)

TaskActions(action) ==
  CASE task = "hidden" -> HiddenActions(action)
    [] task = "alert" -> AlertActions(action)
    [] task = "drift" -> DriftActions(action)
    [] task = "recovery" -> RecoveryActions(action)
    [] task \in {"analyst_first", "manager_first"} -> EscalationActions(action)
    [] task = "auditor" -> AuditorActions(action)
    [] task = "support" -> SupportActions(action)
    [] task = "security" -> SecurityActions(action)
    [] task = "runbook" -> RunbookActions(action)
    [] task = "stream" -> StreamActions(action)
    [] task = "dice" -> DiceActions(action)

Perform(action) ==
  Refused(action) \/ (action.type \in Verbs /\ TaskActions(action) /\ Took(action))
=============================================================================
