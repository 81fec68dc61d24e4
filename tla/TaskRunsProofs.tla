---------------------------- MODULE TaskRunsProofs ----------------------------
(***************************************************************************)
(* Theorems about TaskRuns, for episodes of any length and a stream of any *)
(* number of pages: no agent has a shortcut, and no reference agent is     *)
(* ever wrong.                                                             *)
(***************************************************************************)
EXTENDS TaskRuns, FiniteSetTheorems, SequenceTheorems, WellFoundedInduction,
        TLAPS

\* What the files of a task say, by path.
LEMMA FilesAre ==
  ASSUME task \in FileTaskNames, NEW f \in DOMAIN Here.files
  PROVE  /\ task = "hidden" => Here.files[f] = HiddenText(f)
         /\ task = "alert" => Here.files[f] = AlertText(f)
         /\ task = "drift" => Here.files[f] = DriftText(f)
         /\ task = "recovery" => Here.files[f] = RecoveryText(f)
         /\ task = "support" => Here.files[f] = SupportText(f)
         /\ task = "security" => Here.files[f] = SecurityText(f)
         /\ task = "runbook" => Here.files[f] = RunbookText(f)
         /\ task = "auditor" => Here.files[f] = AuditorText(f)
         /\ task = "analyst_first" =>
              Here.files[f] = IF f = "final" THEN <<Line("FINAL_FORMAT", "analyst first")>>
                              ELSE EscalationText(f)
         /\ task = "manager_first" =>
              Here.files[f] = IF f = "final" THEN <<Line("FINAL_FORMAT", "manager first")>>
                              ELSE EscalationText(f)
<1> USE DEF World, Here, FileTask
<1>1. CASE task = "hidden"
  BY <1>1 DEF HiddenConfig
<1>2. CASE task = "alert"
  BY <1>2 DEF LogAlert
<1>3. CASE task = "drift"
  BY <1>3 DEF ConfigDrift
<1>4. CASE task = "recovery"
  BY <1>4 DEF RecoveryChain
<1>5. CASE task = "support"
  BY <1>5 DEF Support
<1>6. CASE task = "security"
  BY <1>6 DEF Security
<1>7. CASE task = "runbook"
  BY <1>7 DEF Runbook
<1>8. CASE task = "auditor"
  BY <1>8 DEF Auditor
<1>9. CASE task = "analyst_first"
  BY <1>9 DEF Escalation
<1>10. CASE task = "manager_first"
  BY <1>10 DEF Escalation
<1>11. QED
  BY <1>1, <1>2, <1>3, <1>4, <1>5, <1>6, <1>7, <1>8, <1>9, <1>10
     DEF FileTaskNames

LEMMA PlacesBounded ==
  ASSUME task \in FileTaskNames, NEW f \in DOMAIN Here.files
  PROVE  DOMAIN Here.files[f] \in SUBSET (1 .. 4)
<1> USE DEF Line, Note, Said, Item, Target
<1>1. \A g : DOMAIN HiddenText(g) \in SUBSET (1 .. 4)
  BY DEF HiddenText
<1>2. \A g : DOMAIN AlertText(g) \in SUBSET (1 .. 4)
  BY DEF AlertText
<1>3. \A g : DOMAIN DriftText(g) \in SUBSET (1 .. 4)
  BY DEF DriftText
<1>4. \A g : DOMAIN RecoveryText(g) \in SUBSET (1 .. 4)
  BY DEF RecoveryText
<1>5. \A g : DOMAIN SupportText(g) \in SUBSET (1 .. 4)
  BY DEF SupportText
<1>6. \A g : DOMAIN SecurityText(g) \in SUBSET (1 .. 4)
  BY DEF SecurityText
<1>7. \A g : DOMAIN RunbookText(g) \in SUBSET (1 .. 4)
  BY DEF RunbookText
<1>8. \A g : DOMAIN AuditorText(g) \in SUBSET (1 .. 4)
  BY DEF AuditorText
<1>9. /\ \A g : DOMAIN EscalationText(g) \in SUBSET (1 .. 4)
      /\ \A format : DOMAIN <<Line("FINAL_FORMAT", format)>> \in SUBSET (1 .. 4)
  BY DEF EscalationText
<1> HIDE DEF Line, Note, Said, Item, Target
<1>10. \/ Here.files[f] \in {HiddenText(f), AlertText(f), DriftText(f), RecoveryText(f)}
       \/ Here.files[f] \in {SupportText(f), SecurityText(f), RunbookText(f)}
       \/ Here.files[f] = AuditorText(f)
       \/ Here.files[f] = EscalationText(f)
       \/ \E format : Here.files[f] = <<Line("FINAL_FORMAT", format)>>
  BY FilesAre DEF FileTaskNames, World
<1>11. QED
  BY <1>1, <1>2, <1>3, <1>4, <1>5, <1>6, <1>7, <1>8, <1>9, <1>10

Says(text, v) == \E i \in DOMAIN text : v \in {text[i].value, text[i].key}

\* Where the values of the answers are.
LEMMA SourcesOf ==
  ASSUME NEW f
  PROVE  /\ Says(HiddenText(f), "correct") => f = ".config"
         /\ Says(AlertText(f), "alert") => f = "incident.log"
         /\ Says(DriftText(f), "desired") => f = "desired.conf"
         /\ Says(RecoveryText(f), "token") =>
              f \notin {"README", "status.log", "handoff_1"}
         /\ Says(SupportText(f), "code") => f = "manager_ack"
         /\ Says(SecurityText(f), "breach") => f = "incident"
         /\ Says(EscalationText(f), "analyst") => f = "analyst.log"
         /\ Says(EscalationText(f), "manager") => f = "manager_ack"
         /\ \A format : Says(<<Line("FINAL_FORMAT", format)>>, "analyst") =>
                format = "analyst"
         /\ \A format : Says(<<Line("FINAL_FORMAT", format)>>, "manager") =>
                format = "manager"
<1> USE DEF Says, Line, Note, Said, Item, Target
<1>1. /\ Says(HiddenText(f), "correct") => f = ".config"
      /\ Says(AlertText(f), "alert") => f = "incident.log"
      /\ Says(DriftText(f), "desired") => f = "desired.conf"
  BY DEF HiddenText, AlertText, DriftText
<1>2. /\ Says(RecoveryText(f), "token") =>
           f \notin {"README", "status.log", "handoff_1"}
      /\ Says(SupportText(f), "code") => f = "manager_ack"
      /\ Says(SecurityText(f), "breach") => f = "incident"
  BY DEF RecoveryText, SupportText, SecurityText
<1>3. /\ Says(EscalationText(f), "analyst") => f = "analyst.log"
      /\ Says(EscalationText(f), "manager") => f = "manager_ack"
  BY DEF EscalationText
<1>4. /\ \A format : Says(<<Line("FINAL_FORMAT", format)>>, "analyst") =>
             format = "analyst"
      /\ \A format : Says(<<Line("FINAL_FORMAT", format)>>, "manager") =>
             format = "manager"
  OBVIOUS
<1> HIDE DEF Says, Line, Note, Said, Item, Target
<1>5. QED
  BY <1>1, <1>2, <1>3, <1>4

LEMMA RunbookSources ==
  ASSUME NEW f
  PROVE  /\ Says(RunbookText(f), "code_1") => f \in {"phase_1", "sequence"}
         /\ Says(RunbookText(f), "code_2") => f \in {"phase_2", "sequence"}
         /\ Says(RunbookText(f), "code_3") => f \in {"phase_3", "sequence"}
         /\ Says(RunbookText(f), "ack") => f = "timeline"
         /\ Says(RunbookText(f), "handoff") =>
              f \notin {"README", "runbook_index", "phase_1", "phase_2", "phase_3",
                        "sequence", "timeline"}
<1> USE DEF Says, RunbookText, Line, Said, Target
<1>1. Says(RunbookText(f), "code_1") => f \in {"phase_1", "sequence"}
  OBVIOUS
<1>2. Says(RunbookText(f), "code_2") => f \in {"phase_2", "sequence"}
  OBVIOUS
<1>3. Says(RunbookText(f), "code_3") => f \in {"phase_3", "sequence"}
  OBVIOUS
<1>4. Says(RunbookText(f), "ack") => f = "timeline"
  OBVIOUS
<1>5. Says(RunbookText(f), "handoff") =>
        f \notin {"README", "runbook_index", "phase_1", "phase_2", "phase_3",
                  "sequence", "timeline"}
  OBVIOUS
<1>6. QED
  BY <1>1, <1>2, <1>3, <1>4, <1>5

\* A value that an agent knows is in a line of a file that it was given.
LEMMA KnownIsRead ==
  ASSUME task \in FileTaskNames, NEW v \in Known
  PROVE  \E f \in read : Says(Here.files[f], v)
<1>1. Known = UNION {InFile(path) : path \in read}
  BY DEF Known, FileTaskNames, World
<1>2. PICK f \in read : v \in InFile(f)
  BY <1>1
<1>3. QED
  BY <1>2 DEF InFile, Says

\* Who knows all the values of an answer has read where they are.
LEMMA AnswerIsSpread ==
  ASSUME task \in FileTaskNames \ {"auditor"},
         read \in SUBSET DOMAIN Here.files,
         \A v \in Ran(Here.answer) : v \in Known
  PROVE  Enough
<1>1. \A v \in Ran(Here.answer) : \E f \in read : Says(Here.files[f], v)
  BY KnownIsRead
<1>2. \A f \in read : f \in DOMAIN Here.files
  OBVIOUS
<1>3. CASE task = "hidden"
  <2>1. {"correct"} \subseteq Ran(Here.answer)
    BY <1>3 DEF Ran, Here, World, FileTask, HiddenConfig
  <2>2. \A f \in read : Here.files[f] = HiddenText(f)
    BY <1>3, <1>2, FilesAre
  <2>3. \A v \in {"correct"} : \E f \in read : Says(HiddenText(f), v)
    BY <1>1, <2>1, <2>2
  <2>4. QED
    BY <1>3, <2>3, SourcesOf DEF Enough
<1>4. CASE task = "alert"
  <2>1. {"alert"} \subseteq Ran(Here.answer)
    BY <1>4 DEF Ran, Here, World, FileTask, LogAlert
  <2>2. \A f \in read : Here.files[f] = AlertText(f)
    BY <1>4, <1>2, FilesAre
  <2>3. \A v \in {"alert"} : \E f \in read : Says(AlertText(f), v)
    BY <1>1, <2>1, <2>2
  <2>4. QED
    BY <1>4, <2>3, SourcesOf DEF Enough
<1>5. CASE task = "drift"
  <2>1. {"desired"} \subseteq Ran(Here.answer)
    BY <1>5 DEF Ran, Here, World, FileTask, ConfigDrift
  <2>2. \A f \in read : Here.files[f] = DriftText(f)
    BY <1>5, <1>2, FilesAre
  <2>3. \A v \in {"desired"} : \E f \in read : Says(DriftText(f), v)
    BY <1>1, <2>1, <2>2
  <2>4. QED
    BY <1>5, <2>3, SourcesOf DEF Enough
<1>6. CASE task = "recovery"
  <2>1. {"token"} \subseteq Ran(Here.answer)
    BY <1>6 DEF Ran, Here, World, FileTask, RecoveryChain
  <2>2. \A f \in read : Here.files[f] = RecoveryText(f)
    BY <1>6, <1>2, FilesAre
  <2>3. \A v \in {"token"} : \E f \in read : Says(RecoveryText(f), v)
    BY <1>1, <2>1, <2>2
  <2>4. DOMAIN Here.files = {"README", "handoff_1", "handoff_2", "status.log"}
    BY <1>6 DEF Here, World, FileTask, RecoveryChain
  <2>5. QED
    BY <1>6, <1>2, <2>3, <2>4, SourcesOf DEF Enough
<1>7. CASE task = "support"
  <2>1. {"code"} \subseteq Ran(Here.answer)
    BY <1>7 DEF Ran, Here, World, FileTask, Support
  <2>2. \A f \in read : Here.files[f] = SupportText(f)
    BY <1>7, <1>2, FilesAre
  <2>3. \A v \in {"code"} : \E f \in read : Says(SupportText(f), v)
    BY <1>1, <2>1, <2>2
  <2>4. QED
    BY <1>7, <2>3, SourcesOf DEF Enough
<1>8. CASE task = "security"
  <2>1. {"breach"} \subseteq Ran(Here.answer)
    BY <1>8 DEF Ran, Here, World, FileTask, Security
  <2>2. \A f \in read : Here.files[f] = SecurityText(f)
    BY <1>8, <1>2, FilesAre
  <2>3. \A v \in {"breach"} : \E f \in read : Says(SecurityText(f), v)
    BY <1>1, <2>1, <2>2
  <2>4. QED
    BY <1>8, <2>3, SourcesOf DEF Enough
<1>9. CASE task = "analyst_first"
  <2>1. {"analyst", "manager"} \subseteq Ran(Here.answer)
    <3>1. Here.answer = <<"analyst", "manager">>
      BY <1>9 DEF Here, World, FileTask, Escalation
    <3>2. QED
      BY <3>1 DEF Ran
  <2>2. \A f \in read :
          Here.files[f] = IF f = "final" THEN <<Line("FINAL_FORMAT", "analyst first")>>
                          ELSE EscalationText(f)
    BY <1>9, <1>2, FilesAre
  <2>3. ASSUME NEW v \in {"analyst", "manager"}
        PROVE  \E f \in read : Says(EscalationText(f), v)
    <3>1. PICK f \in read : Says(Here.files[f], v)
      BY <1>1, <2>1
    <3>2. ~Says(<<Line("FINAL_FORMAT", "analyst first")>>, v)
      BY SourcesOf
    <3>3. QED
      BY <2>2, <3>1, <3>2
  <2>4. QED
    BY <1>9, <2>3, SourcesOf DEF Enough
<1>10. CASE task = "manager_first"
  <2>1. {"analyst", "manager"} \subseteq Ran(Here.answer)
    <3>1. Here.answer = <<"manager", "analyst">>
      BY <1>10 DEF Here, World, FileTask, Escalation
    <3>2. QED
      BY <3>1 DEF Ran
  <2>2. \A f \in read :
          Here.files[f] = IF f = "final" THEN <<Line("FINAL_FORMAT", "manager first")>>
                          ELSE EscalationText(f)
    BY <1>10, <1>2, FilesAre
  <2>3. ASSUME NEW v \in {"analyst", "manager"}
        PROVE  \E f \in read : Says(EscalationText(f), v)
    <3>1. PICK f \in read : Says(Here.files[f], v)
      BY <1>1, <2>1
    <3>2. ~Says(<<Line("FINAL_FORMAT", "manager first")>>, v)
      BY SourcesOf
    <3>3. QED
      BY <2>2, <3>1, <3>2
  <2>4. QED
    BY <1>10, <2>3, SourcesOf DEF Enough
<1>11. CASE task = "runbook"
  <2>1. {"code_1", "code_2", "code_3", "ack", "handoff"} \subseteq Ran(Here.answer)
    <3>1. Here.answer = <<"code_1", "code_2", "code_3", "ack", "handoff">>
      BY <1>11 DEF Here, World, FileTask, Runbook, RunbookChecksum
    <3>2. QED
      BY <3>1 DEF Ran
  <2>2. \A f \in read : Here.files[f] = RunbookText(f)
    BY <1>11, <1>2, FilesAre
  <2>3. \A v \in {"code_1", "code_2", "code_3", "ack", "handoff"} :
            \E f \in read : Says(RunbookText(f), v)
    BY <1>1, <2>1, <2>2
  <2>4. DOMAIN Here.files = {"README", "handoff", "phase_1", "phase_2", "phase_3", "runbook_index", "sequence", "timeline"}
    BY <1>11 DEF Here, World, FileTask, Runbook
  <2>5. QED
    BY <1>11, <1>2, <2>3, <2>4, RunbookSources DEF Enough
<1>12. QED
  BY <1>3, <1>4, <1>5, <1>6, <1>7, <1>8, <1>9, <1>10, <1>11
     DEF FileTaskNames, World

-----------------------------------------------------------------------------
\* The inductive invariant.  An agent has heard a value when it is in what
\* it was given; None is the value of a result without one.
Heard(v) == v \in Known \cup {None}

\* It asks the environment only to look into files that it was given, and
\* delivers only what it has heard.
Honest(action) ==
  /\ action.type = "extract_value" => action.path \in read
  /\ action.type = "set_output" => \A v \in Ran(action.value) : Heard(v)

Setting == /\ player \in DOMAIN Blanks
           /\ task \in Tasks
           /\ player \notin {"any", "stream", "dice"} => task \in FileTaskNames
           /\ player = "dice" => task = "dice"
           /\ player = "stream" => task = "stream"
           /\ pages \in Nat /\ critical \in 1 .. pages

ReadIsThere == task \in FileTaskNames => read \in SUBSET DOMAIN Here.files

RollsCount == rolls \in 0 .. 3 /\ (wins = 1 => rolls \in 1 .. 3)

LastWasHonest == /\ Honest(last)
                 /\ Answers("read_file") => last.path \in read

OutputWasHeard ==
  /\ DOMAIN output = Keys
  /\ \A k \in Keys : \A v \in Ran(output[k]) : Heard(v)

Told == /\ Setting /\ ReadIsThere /\ RollsCount /\ LastWasHonest
        /\ Heard(reply.value) /\ OutputWasHeard

\* What the agents keep was heard.
OpsKeeps(m) == /\ {"desired", "live", "target"} \subseteq DOMAIN m
               /\ m.desired = TRUE => "desired.conf" \in read
NaiveKeeps(m) == /\ {"cached", "value"} \subseteq DOMAIN m
                 /\ m.cached \in read \cup {None} /\ Heard(m.value)
AuditorKeeps(m) == /\ {"issue", "audit"} \subseteq DOMAIN m
                   /\ Heard(m.issue) /\ Heard(m.audit)
RunbookKeeps(m) == /\ {"codes", "ack", "handoff"} \subseteq DOMAIN m
                   /\ m.codes \in Seq(Known \cup {None})
                   /\ Heard(m.ack) /\ Heard(m.handoff)
RolesKeep(m) == "tokens" \in DOMAIN m /\ \A t \in m.tokens : Heard(t.value)

Keeps(m) == /\ player = "ops" => OpsKeeps(m)
            /\ player = "naive" => NaiveKeeps(m)
            /\ player = "auditor" => AuditorKeeps(m)
            /\ player = "runbook" => RunbookKeeps(m)
            /\ player = "roles" => RolesKeep(m)

ToldInv == Told /\ Keeps(memory) /\ NoShortcut

-----------------------------------------------------------------------------
\* Lemmas on what the operators of the tasks and the agents return.

LEMMA EarliestIsFirst ==
  ASSUME NEW places \in SUBSET Nat, places # {}
  PROVE  /\ Earliest(places) \in places
         /\ \A j \in places : Earliest(places) <= j
<1> DEFINE R == {pair \in Nat \X Nat : pair[1] < pair[2]}
<1>1. IsWellFoundedOn(R, Nat)
  BY NatLessThanWellFounded DEF OpToRel
<1>2. \A m, n \in Nat : n < m => <<n, m>> \in R
  OBVIOUS
<1> HIDE DEF R
<1>3. PICK least \in places : \A n \in places : ~ (<<n, least>> \in R)
  BY <1>1, WFMin
<1>4. ASSUME NEW n \in places PROVE least <= n
  <2>1. least \in Nat /\ n \in Nat /\ ~(n < least)
    BY <1>2, <1>3
  <2>2. QED
    BY <2>1
<1>5. QED
  BY <1>4 DEF Earliest

LEMMA EarliestIsOne ==
  ASSUME NEW places \in SUBSET (1 .. 4), places # {}
  PROVE  Earliest(places) \in places
BY EarliestIsFirst

LEMMA LineIsKnown ==
  ASSUME task \in FileTaskNames, NEW path \in read, NEW i \in DOMAIN Here.files[path]
  PROVE  Here.files[path][i].value \in Known /\ Here.files[path][i].key \in Known
<1>1. Known = UNION {InFile(f) : f \in read}
  BY DEF Known, FileTaskNames, World
<1>2. /\ Here.files[path][i].value \in InFile(path)
      /\ Here.files[path][i].key \in InFile(path)
  BY DEF InFile
<1>3. QED
  BY <1>1, <1>2

LEMMA StartingIsHeard ==
  ASSUME task \in FileTaskNames, ReadIsThere, NEW path \in read, NEW key
  PROVE  Heard(Starting(path, key))
<1> DEFINE found == {i \in DOMAIN Here.files[path] :
                       Here.files[path][i].at = "start"
                           /\ Here.files[path][i].key = key}
<1>1. DOMAIN Here.files[path] \in SUBSET (1 .. 4)
  BY PlacesBounded DEF ReadIsThere
<1>2. CASE found = {}
  BY <1>2 DEF Starting, Heard
<1>3. CASE found # {}
  <2>1. Earliest(found) \in found
    BY <1>1, <1>3, EarliestIsOne
  <2>2. Starting(path, key) = Here.files[path][Earliest(found)].value
    BY <1>3 DEF Starting
  <2>3. QED
    BY <2>1, <2>2, LineIsKnown DEF Heard
<1>4. QED
  BY <1>2, <1>3

\* What an agent has heard stays heard.
LEMMA HeardStays ==
  ASSUME UNCHANGED <<task, critical>>, NEW v, Heard(v),
         read \in SUBSET read', polled \in SUBSET polled'
  PROVE  Heard(v)'
<1>1. \A f : InFile(f)' = InFile(f)
  BY DEF InFile, Here
<1>2. CASE task = "stream"
  BY <1>2 DEF Known, Heard
<1>3. CASE task = "dice"
  BY <1>3 DEF Known, Heard
<1>4. CASE task \notin {"stream", "dice"}
  BY <1>1, <1>4 DEF Known, Heard
<1>5. QED
  BY <1>2, <1>3, <1>4

LEMMA NamesAre ==
  FileTaskNames = {"hidden", "alert", "drift", "recovery", "support", "security",
                   "runbook", "auditor", "analyst_first", "manager_first"}
BY DEF FileTaskNames, World

\* The key and the answer of each task.
LEMMA AnswersAre ==
  /\ task = "hidden" => Here.key = "API_KEY" /\ Here.answer = <<"correct">>
  /\ task = "alert" => Here.key = "ALERT_CODE" /\ Here.answer = <<"alert">>
  /\ task = "drift" => Here.key = "DRIFT_PATCH"
         /\ Here.answer = <<"MAX_CONN", "desired">>
  /\ task = "recovery" => Here.key = "RECOVERY_TOKEN" /\ Here.answer = <<"token">>
  /\ task = "support" => Here.key = "ESCALATION_CODE" /\ Here.answer = <<"code">>
  /\ task = "security" => Here.key = "BREACH_TOKEN" /\ Here.answer = <<"breach">>
  /\ task = "runbook" => Here.key = "RUNBOOK_CHECKSUM" /\ Here.answer = RunbookChecksum
  /\ task = "auditor" => Here.key = "SANDBOX_AUDIT_TOKEN"
         /\ Here.answer = <<"issue", "audit">>
  /\ task = "analyst_first" => Here.key = "ESCALATION_CODE"
         /\ Here.answer = <<"analyst", "manager">>
  /\ task = "manager_first" => Here.key = "ESCALATION_CODE"
         /\ Here.answer = <<"manager", "analyst">>
<1> USE DEF Here, World, FileTask
<1>1. task = "hidden" => Here.key = "API_KEY" /\ Here.answer = <<"correct">>
  BY DEF HiddenConfig
<1>2. task = "alert" => Here.key = "ALERT_CODE" /\ Here.answer = <<"alert">>
  BY DEF LogAlert
<1>3. task = "drift" => Here.key = "DRIFT_PATCH"
          /\ Here.answer = <<"MAX_CONN", "desired">>
  BY DEF ConfigDrift
<1>4. task = "recovery" => Here.key = "RECOVERY_TOKEN" /\ Here.answer = <<"token">>
  BY DEF RecoveryChain
<1>5. task = "support" => Here.key = "ESCALATION_CODE" /\ Here.answer = <<"code">>
  BY DEF Support
<1>6. task = "security" => Here.key = "BREACH_TOKEN" /\ Here.answer = <<"breach">>
  BY DEF Security
<1>7. task = "runbook" => Here.key = "RUNBOOK_CHECKSUM" /\ Here.answer = RunbookChecksum
  BY DEF Runbook
<1>8. task = "auditor" => Here.key = "SANDBOX_AUDIT_TOKEN"
          /\ Here.answer = <<"issue", "audit">>
  BY DEF Auditor
<1>9. task = "analyst_first" => Here.key = "ESCALATION_CODE"
          /\ Here.answer = <<"analyst", "manager">>
  <2>1. SUFFICES ASSUME task = "analyst_first"
                 PROVE  Here.key = "ESCALATION_CODE"
                     /\ Here.answer = <<"analyst", "manager">>
    OBVIOUS
  <2>2. Here.key = "ESCALATION_CODE"
    BY <2>1 DEF Escalation
  <2>3. Here.answer = <<"analyst", "manager">>
    BY <2>1 DEF Escalation
  <2>4. QED
    BY <2>2, <2>3
<1>10. task = "manager_first" => Here.key = "ESCALATION_CODE"
           /\ Here.answer = <<"manager", "analyst">>
  <2>1. SUFFICES ASSUME task = "manager_first"
                 PROVE  Here.key = "ESCALATION_CODE"
                     /\ Here.answer = <<"manager", "analyst">>
    OBVIOUS
  <2>2. Here.key = "ESCALATION_CODE"
    BY <2>1 DEF Escalation
  <2>3. Here.answer = <<"manager", "analyst">>
    BY <2>1 DEF Escalation
  <2>4. QED
    BY <2>2, <2>3
<1> HIDE DEF Here, World, FileTask
<1>11. QED
  BY <1>1, <1>2, <1>3, <1>4, <1>5, <1>6, <1>7, <1>8, <1>9, <1>10

\* The files of each task.
LEMMA PathsAre ==
  /\ task = "hidden" => DOMAIN Here.files =
       {".config", "config.example", "readme"}
  /\ task = "alert" => DOMAIN Here.files =
       {"README", "incident.log", "service.log", "snapshot"}
  /\ task = "drift" => DOMAIN Here.files =
       {"README", "desired.conf", "live.conf", "notes"}
  /\ task = "recovery" => DOMAIN Here.files =
       {"README", "handoff_1", "handoff_2", "status.log"}
  /\ task = "support" => DOMAIN Here.files =
       {"README", "ticket", "policy", "manager_ack"}
  /\ task = "security" => DOMAIN Here.files =
       {"README", "ids.log", "triage.json", "incident"}
  /\ task = "runbook" => DOMAIN Here.files =
       {"README", "handoff", "phase_1", "phase_2", "phase_3", "runbook_index",
                   "sequence", "timeline"}
  /\ task = "auditor" => DOMAIN Here.files =
       {"audit_scope", "runtime_guard", "audit.log"}
  /\ task = "analyst_first" => DOMAIN Here.files =
       {"README", "analyst.log", "manager_ack", "final"}
  /\ task = "manager_first" => DOMAIN Here.files =
       {"README", "analyst.log", "manager_ack", "final"}
<1> USE DEF Here, World, FileTask
<1>1. task = "hidden" => DOMAIN Here.files =
       {".config", "config.example", "readme"}
  BY DEF HiddenConfig
<1>2. task = "alert" => DOMAIN Here.files =
       {"README", "incident.log", "service.log", "snapshot"}
  BY DEF LogAlert
<1>3. task = "drift" => DOMAIN Here.files =
       {"README", "desired.conf", "live.conf", "notes"}
  BY DEF ConfigDrift
<1>4. task = "recovery" => DOMAIN Here.files =
       {"README", "handoff_1", "handoff_2", "status.log"}
  BY DEF RecoveryChain
<1>5. task = "support" => DOMAIN Here.files =
       {"README", "ticket", "policy", "manager_ack"}
  BY DEF Support
<1>6. task = "security" => DOMAIN Here.files =
       {"README", "ids.log", "triage.json", "incident"}
  BY DEF Security
<1>7. task = "runbook" => DOMAIN Here.files =
       {"README", "handoff", "phase_1", "phase_2", "phase_3", "runbook_index",
                   "sequence", "timeline"}
  BY DEF Runbook
<1>8. task = "auditor" => DOMAIN Here.files =
       {"audit_scope", "runtime_guard", "audit.log"}
  BY DEF Auditor
<1>9. ASSUME task = "analyst_first"
      PROVE  DOMAIN Here.files = {"README", "analyst.log", "manager_ack", "final"}
  BY <1>9 DEF Escalation
<1>10. ASSUME task = "manager_first"
      PROVE  DOMAIN Here.files = {"README", "analyst.log", "manager_ack", "final"}
  BY <1>10 DEF Escalation
<1> HIDE DEF Here, World, FileTask
<1>11. QED
  BY <1>1, <1>2, <1>3, <1>4, <1>5, <1>6, <1>7, <1>8, <1>9, <1>10

\* The values of an answer are values, not None.
LEMMA AnswerHasValues ==
  ASSUME task \in FileTaskNames
  PROVE  None \notin Ran(Here.answer) /\ Here.key \in Keys
<1>1. \/ Here.answer \in {<<"correct">>, <<"alert">>, <<"token">>, <<"code">>, <<"breach">>}
      \/ Here.answer \in {<<"MAX_CONN", "desired">>, <<"issue", "audit">>,
                         <<"analyst", "manager">>, <<"manager", "analyst">>}
      \/ Here.answer = RunbookChecksum
  BY AnswersAre, NamesAre
<1>2. Here.key \in Keys
  BY AnswersAre, NamesAre DEF Keys
<1>3. None \notin Ran(Here.answer)
  BY <1>1 DEF Ran, None, RunbookChecksum
<1>4. QED
  BY <1>2, <1>3

\* A valid output needs what it is spread over.
LEMMA ValidIsEnough == Told /\ Valid /\ task # "auditor" => Enough
<1> SUFFICES ASSUME Told, Valid, task # "auditor" PROVE Enough
  OBVIOUS
<1>1. CASE task = "stream"
  <2>1. output["STREAM_CODE"] = <<"stream">>
    BY <1>1 DEF Valid, StreamValid
  <2>2. Heard("stream")
    BY <2>1 DEF Told, OutputWasHeard, Keys, Ran
  <2>3. QED
    BY <1>1, <2>2 DEF Heard, Known, None, Enough
<1>2. CASE task = "dice"
  BY <1>2 DEF Valid, DiceValid, Told, RollsCount, Enough
<1>3. CASE task \in FileTaskNames
  <2>1. output[Here.key] = Here.answer
    BY <1>3 DEF Valid, FileValid, FileTaskNames, World
  <2>2. \A v \in Ran(Here.answer) : v \in Known
    BY <1>3, <2>1, AnswerHasValues DEF Told, OutputWasHeard, Heard
  <2>3. QED
    BY <1>3, <2>2, AnswerIsSpread DEF Told, ReadIsThere
<1>4. QED
  BY <1>1, <1>2, <1>3 DEF Told, Setting, Tasks

-----------------------------------------------------------------------------
\* An action of the environment keeps the invariant, if it is honest.

Kept == /\ UNCHANGED <<task, critical>>
        /\ read \in SUBSET read' /\ polled \in SUBSET polled'

LEMMA ReadFileTells ==
  ASSUME Told, task \in FileTaskNames, UNCHANGED <<task, critical>>,
         NEW path, ReadFile(path)
  PROVE  /\ Kept /\ ReadIsThere' /\ UNCHANGED <<output, rolls, wins>>
         /\ reply.value' = None /\ (reply.ok' => path \in read')
<1> USE DEF Kept, ReadIsThere, Here
<1>1. CASE path \notin DOMAIN Here.files
  BY <1>1 DEF ReadFile, Fails, Bad, Good, None, Told
<1>2. CASE path \in DOMAIN Here.files
  BY <1>2 DEF ReadFile, Good, None, Told
<1>3. QED
  BY <1>1, <1>2

LEMMA ExtractTells ==
  ASSUME Told, task \in FileTaskNames, UNCHANGED <<task, critical>>,
         NEW path \in read, NEW key, ExtractValue(path, key)
  PROVE  Heard(reply.value) ' /\ UNCHANGED <<seen, output, rolls, wins, read, polled>>
<1> DEFINE found == {i \in DOMAIN Here.files[path] : Matches(Here.files[path][i], key)}
<1>1. DOMAIN Here.files[path] \in SUBSET (1 .. 4)
  BY PlacesBounded DEF Told, ReadIsThere
<1>2. CASE found = {}
  BY <1>2 DEF ExtractValue, Fails, Bad, Good, Heard, None
<1>3. CASE found # {}
  <2>1. Earliest(found) \in found
    BY <1>1, <1>3, EarliestIsOne
  <2>2. /\ reply'.value = Here.files[path][Earliest(found)].value
        /\ UNCHANGED <<seen, output, rolls, wins, read, polled>>
    BY <1>3 DEF ExtractValue, Good
  <2>3. Heard(reply'.value)
    BY <2>1, <2>2, LineIsKnown DEF Heard
  <2>4. Kept
    BY <2>2 DEF Kept
  <2>5. Heard(reply.value)'
    BY <2>2, <2>3, <2>4, HeardStays DEF Kept
  <2>6. QED
    BY <2>2, <2>5
<1>4. QED
  BY <1>2, <1>3

\* What an action has to leave.
Tells(action) ==
  /\ Kept /\ ReadIsThere' /\ RollsCount' /\ Heard(reply.value)'
  /\ (action.type = "read_file" /\ reply.ok') => action.path \in read'
  /\ OutputWasHeard'

LEMMA OutputStays ==
  ASSUME Told, Kept, UNCHANGED output
  PROVE  OutputWasHeard'
<1>1. \A k \in Keys : \A v \in Ran(output[k]) : Heard(v)
  BY DEF Told, OutputWasHeard
<1>2. \A v : Heard(v) => Heard(v)'
  BY HeardStays DEF Kept
<1>3. QED
  BY <1>1, <1>2 DEF Told, OutputWasHeard

LEMMA SetOutputTells ==
  ASSUME Told, UNCHANGED <<task, critical>>, NEW action, Honest(action),
         action.type = "set_output", SetOutput(action.key, action.value)
  PROVE  Tells(action)
<1>1. Kept
  BY DEF SetOutput, Kept
<1>2. \A v : Heard(v) => Heard(v)'
  BY <1>1, HeardStays DEF Kept
<1>3. \A v \in Ran(action.value) : Heard(v)
  BY DEF Honest
<1>4. output' = [output EXCEPT ![action.key] = action.value]
  BY DEF SetOutput
<1>5. \A k \in Keys : output'[k] \in {output[k], action.value}
  BY <1>4 DEF Told, OutputWasHeard
<1>6. OutputWasHeard'
  BY <1>2, <1>3, <1>4, <1>5 DEF Told, OutputWasHeard
<1>7. reply'.value = None /\ UNCHANGED <<rolls, wins, read>>
  BY DEF SetOutput, Good, None
<1>8. ReadIsThere' /\ RollsCount'
  BY <1>7 DEF Told, ReadIsThere, RollsCount, Here
<1>9. QED
  BY <1>1, <1>6, <1>7, <1>8 DEF Tells, Heard

LEMMA FailureTells ==
  ASSUME Told, UNCHANGED <<task, critical>>, NEW action, NEW error, Fails(error)
  PROVE  Tells(action)
<1>1. Kept /\ UNCHANGED <<output, rolls, wins, read>>
  BY DEF Fails, Kept
<1>2. reply'.value = None /\ ~reply'.ok
  BY DEF Fails, Bad, Good, None
<1>3. ReadIsThere' /\ RollsCount'
  BY <1>1 DEF Told, ReadIsThere, RollsCount, Here
<1>4. QED
  BY <1>1, <1>2, <1>3, OutputStays DEF Tells, Heard

LEMMA FileActionTells ==
  ASSUME Told, task \in FileTaskNames, UNCHANGED <<task, critical>>,
         NEW action, Honest(action), TaskActions(action)
  PROVE  Tells(action)
<1>1. \/ HiddenActions(action)
      \/ action.type = "read_json" /\ ReadJson(action.path)
      \/ action.type = "find_line" /\ FindLine(action.path)
      \/ Fails("invalid_output_key")
  <2>1. CASE task \in {"hidden", "alert", "drift", "recovery"}
    BY <2>1 DEF TaskActions, AlertActions, DriftActions, RecoveryActions
  <2>2. CASE task \in {"analyst_first", "manager_first", "auditor"}
    BY <2>2 DEF TaskActions, EscalationActions, AuditorActions
  <2>3. CASE task \in {"support", "security", "runbook"}
    BY <2>3 DEF TaskActions, SupportActions, SecurityActions, RunbookActions
  <2>4. QED
    BY <2>1, <2>2, <2>3 DEF FileTaskNames, World
<1>2. CASE ReadFile(action.path)
  BY <1>2, ReadFileTells, OutputStays DEF Tells, Told, RollsCount, Heard
<1>3. CASE HiddenActions(action)
  <2>1. CASE action.type = "list_dir" /\ ListDir
    <3>1. Kept /\ UNCHANGED <<output, rolls, wins, read>> /\ reply'.value = None
      BY <2>1 DEF ListDir, Kept, Good, None
    <3>2. ReadIsThere' /\ RollsCount'
      BY <3>1 DEF Told, ReadIsThere, RollsCount, Here
    <3>3. QED
      BY <2>1, <3>1, <3>2, OutputStays DEF Tells, Heard
  <2>2. CASE action.type = "extract_value" /\ ExtractValue(action.path, action.key)
    <3>1. action.path \in read
      BY <2>2 DEF Honest
    <3>2. Heard(reply.value)' /\ UNCHANGED <<seen, output, rolls, wins, read, polled>>
      BY <2>2, <3>1, ExtractTells
    <3>3. Kept /\ ReadIsThere' /\ RollsCount'
      BY <3>2 DEF Kept, Told, ReadIsThere, RollsCount, Here
    <3>4. QED
      BY <2>2, <3>2, <3>3, OutputStays DEF Tells
  <2>3. CASE action.type = "set_output" /\ SetOutput(action.key, action.value)
    BY <2>3, SetOutputTells
  <2>4. QED
    BY <1>2, <1>3, <2>1, <2>2, <2>3 DEF HiddenActions
<1>4. CASE ReadJson(action.path)
  BY <1>2, <1>4, FailureTells DEF ReadJson
<1>5. CASE FindLine(action.path)
  BY <1>2, <1>5, FailureTells DEF FindLine
<1>6. QED
  BY <1>1, <1>3, <1>4, <1>5, FailureTells

LEMMA PollTells ==
  ASSUME Told, task = "stream", UNCHANGED <<task, critical, pages>>,
         NEW action, Honest(action), TaskActions(action)
  PROVE  Tells(action)
<1>1. StreamActions(action)
  BY DEF TaskActions
<1>2. CASE action.type = "set_output" /\ SetOutput(action.key, action.value)
  BY <1>2, SetOutputTells
<1>3. CASE action.type = "poll_stream" /\ PollStream(action.cursor)
  <2> DEFINE page == action.cursor + 1
  <2>1. Kept /\ UNCHANGED <<output, rolls, wins, read>>
    BY <1>3 DEF PollStream, Kept
  <2>2. reply'.value = None \/ (reply'.value = "stream" /\ page = critical)
    BY <1>3 DEF PollStream, Good, None
  <2>3. Heard(reply.value)'
    <3>1. CASE page = critical
      <4>1. critical \in polled'
        BY <1>3, <3>1 DEF PollStream, Told, Setting
      <4>2. QED
        BY <2>2, <4>1 DEF Heard, Known
    <3>2. QED
      BY <2>2, <3>1 DEF Heard
  <2>4. QED
    BY <1>3, <2>1, <2>3, OutputStays DEF Tells, Told, ReadIsThere, RollsCount,
       FileTaskNames, World
<1>4. QED
  BY <1>1, <1>2, <1>3 DEF StreamActions

LEMMA RollTells ==
  ASSUME Told, task = "dice", UNCHANGED <<task, critical>>,
         NEW action, Honest(action), TaskActions(action)
  PROVE  Tells(action)
<1>1. DiceActions(action)
  BY DEF TaskActions
<1>2. CASE action.type = "set_output" /\ SetOutput(action.key, action.value)
  BY <1>2, SetOutputTells
<1>3. CASE action.type = "roll_dice" /\ RollDice(action.result)
  <2>1. CASE rolls >= 3
    BY <1>3, <2>1, FailureTells DEF RollDice
  <2>2. CASE ~(rolls >= 3)
    <3>1. Kept /\ UNCHANGED <<output, read>> /\ reply'.value = None
      BY <1>3, <2>2 DEF RollDice, Kept, Good, None
    <3>2. RollsCount'
      BY <1>3, <2>2 DEF RollDice, Told, RollsCount
    <3>3. QED
      BY <1>3, <3>1, <3>2, OutputStays DEF Tells, Told, ReadIsThere, Heard,
         FileTaskNames, World
  <2>3. QED
    BY <2>1, <2>2
<1>4. QED
  BY <1>1, <1>2, <1>3 DEF DiceActions

LEMMA PerformTells ==
  ASSUME Told, NoShortcut, NEW action, Honest(action), Perform(action),
         UNCHANGED player
  PROVE  Told' /\ NoShortcut' /\ Kept
<1>1. CASE Refused(action)
  <2>1. /\ UNCHANGED <<task, pages, critical, output, rolls, wins, read, polled>>
        /\ last' = action /\ reply' = Bad("unknown_action") /\ over' = "failed"
    BY <1>1 DEF Refused
  <2>2. Kept
    BY <2>1 DEF Kept
  <2>3. reply'.value = None /\ ~reply'.ok
    BY <2>1 DEF Bad, Good, None
  <2>4. Setting' /\ RollsCount' /\ ReadIsThere' /\ OutputWasHeard'
    BY <2>1, <2>2, OutputStays DEF Told, Setting, RollsCount, ReadIsThere, Here
  <2>5. LastWasHonest'
    BY <2>1, <2>2, <2>3, HeardStays DEF LastWasHonest, Honest, Answers, Kept
  <2>6. QED
    BY <2>1, <2>2, <2>3, <2>4, <2>5 DEF Told, Heard, NoShortcut
<1>2. CASE TaskActions(action) /\ Took(action)
  <2>1. UNCHANGED <<task, pages, critical>> /\ last' = action
    BY <1>2 DEF Took
  <2>2. Tells(action)
    <3>1. CASE task \in FileTaskNames
      BY <1>2, <2>1, <3>1, FileActionTells
    <3>2. CASE task = "stream"
      BY <1>2, <2>1, <3>2, PollTells
    <3>3. CASE task = "dice"
      BY <1>2, <2>1, <3>3, RollTells
    <3>4. QED
      BY <3>1, <3>2, <3>3 DEF Told, Setting, Tasks
  <2>3. Setting'
    BY <2>1 DEF Told, Setting
  <2>4. LastWasHonest'
    BY <2>1, <2>2, HeardStays DEF Tells, LastWasHonest, Honest, Answers, Kept
  <2>5. Told'
    BY <2>2, <2>3, <2>4 DEF Told, Tells
  <2>6. NoShortcut'
    <3>1. over' = "success" => Valid'
      BY <1>2 DEF Took
    <3>2. (Told /\ Valid /\ task # "auditor" => Enough)'
      BY ValidIsEnough, PTL
    <3>3. QED
      BY <2>5, <3>1, <3>2 DEF NoShortcut
  <2>7. QED
    BY <2>2, <2>5, <2>6 DEF Tells
<1>3. QED
  BY <1>1, <1>2 DEF Perform

-----------------------------------------------------------------------------
\* The reference agents are honest, and keep what they heard.

LEMMA KeptIsKept ==
  ASSUME Kept, UNCHANGED player, NEW m, Keeps(m)
  PROVE  Keeps(m)'
<1>1. \A v : Heard(v) => Heard(v)'
  BY HeardStays DEF Kept
<1>2. OpsKeeps(m) => OpsKeeps(m)'
  BY DEF OpsKeeps, Kept
<1>3. NaiveKeeps(m) => NaiveKeeps(m)'
  BY <1>1 DEF NaiveKeeps, Kept
<1>4. AuditorKeeps(m) => AuditorKeeps(m)'
  BY <1>1 DEF AuditorKeeps
<1>5. RunbookKeeps(m) => RunbookKeeps(m)'
  BY <1>1 DEF RunbookKeeps, Heard
<1>6. RolesKeep(m) => RolesKeep(m)'
  BY <1>1 DEF RolesKeep
<1>7. QED
  BY <1>2, <1>3, <1>4, <1>5, <1>6 DEF Keeps

LEMMA OpsIsHonest ==
  ASSUME Told, task \in FileTaskNames, NEW m, OpsKeeps(m)
  PROVE  Honest(OpsActs(m).action) /\ OpsKeeps(OpsActs(m).memory)
<1> DEFINE n == OpsLearns(m)
           left == Unseen(n, n.files)
<1>1. OpsKeeps(n)
  BY DEF OpsKeeps, OpsLearns, Told, LastWasHonest, ReadLast
<1>2. CanPatch(n) => \A v \in Ran(Patch) : Heard(v)
  <2>1. SUFFICES ASSUME CanPatch(n) PROVE \A v \in Ran(Patch) : Heard(v)
    OBVIOUS
  <2>2. "desired.conf" \in read /\ Drifted # {}
    BY <1>1, <2>1 DEF CanPatch, OpsKeeps
  <2>3. Drifted \in SUBSET (1 .. 4)
    BY <2>2, PlacesBounded DEF Drifted, Desired, Told, ReadIsThere
  <2>4. Earliest(Drifted) \in DOMAIN Here.files["desired.conf"]
    BY <2>2, <2>3, EarliestIsOne DEF Drifted, Desired
  <2>5. QED
    BY <2>2, <2>4, LineIsKnown DEF Patch, Desired, Ran, Heard
<1> HIDE DEF left
<1>3. QED
  BY <1>1, <1>2 DEF OpsActs, OpsChooses, OpsKeeps, Move, Wait, List, Read,
     Extract, Deliver,
     Honest, Told, LastWasHonest, Ran

LEMMA ToyIsHonest ==
  ASSUME Told, task \in FileTaskNames, NEW m
  PROVE  Honest(ToyActs(m).action)
BY DEF ToyActs, ToyExplores, Move, Wait, List, Read, Extract, Deliver,
   Honest, Told, LastWasHonest, Ran

LEMMA NaiveIsHonest ==
  ASSUME Told, task \in FileTaskNames, NEW m, NaiveKeeps(m)
  PROVE  Honest(NaiveActs(m).action) /\ NaiveKeeps(NaiveActs(m).memory)
<1> DEFINE n == NaiveLearns(m)
<1>1. NaiveKeeps(n)
  BY DEF NaiveKeeps, NaiveLearns, Told, LastWasHonest
<1>2. QED
  BY <1>1 DEF NaiveActs, NaiveChooses, NaiveKeeps, Move, Wait, List, Read,
     Extract, Deliver,
     Honest, Told, LastWasHonest, Ran

LEMMA AuditorIsHonest ==
  ASSUME Told, task \in FileTaskNames, NEW m, AuditorKeeps(m)
  PROVE  Honest(AuditorActs(m).action) /\ AuditorKeeps(AuditorActs(m).memory)
<1> DEFINE n == AuditorLearns(m)
<1>1. AuditorKeeps(n)
  BY DEF AuditorKeeps, AuditorLearns, Told
<1>2. QED
  BY <1>1 DEF AuditorActs, AuditorChooses, AuditorKeeps, Move, Wait, Read,
     Extract, Deliver,
     Honest, Told, LastWasHonest, ReadLast, Ran

LEMMA RunbookIsHonest ==
  ASSUME Told, task \in FileTaskNames, NEW m, RunbookKeeps(m)
  PROVE  Honest(RunbookActs(m).action) /\ RunbookKeeps(RunbookActs(m).memory)
<1> DEFINE n == RunbookLearns(m)
           told == n.codes \o <<n.ack, n.handoff>>
<1>1. RunbookKeeps(n)
  <2>1. Answers("read_file") =>
          \A key : Starting(last.path, key) \in Known \cup {None}
    BY StartingIsHeard DEF Told, LastWasHonest, Heard
  <2>2. QED
    BY <2>1 DEF RunbookKeeps, RunbookLearns, Heard
<1>2. \A v \in Ran(told) : Heard(v)
  BY <1>1 DEF RunbookKeeps, Ran, Heard
<1>3. QED
  BY <1>1, <1>2 DEF RunbookActs, RunbookChooses, RunbookKeeps, Move, Wait, List,
     Read, Deliver, Honest

LEMMA RolesAreHonest ==
  ASSUME Told, task \in FileTaskNames, NEW m, RolesKeep(m)
  PROVE  Honest(RolesAct(m).action) /\ RolesKeep(RolesAct(m).memory)
<1> DEFINE b == Observes(m)
           told == [i \in DOMAIN Wanted(b) |->
                      CHOOSE v \in TokenOf(b, Wanted(b)[i]) : TRUE]
<1>1. RolesKeep(ReconObserves(m))
  BY DEF RolesKeep, ReconObserves
<1>2. \A c : Answers("read_file") => \A t \in TokensIn(c, last.path) : Heard(t.value)
  BY LineIsKnown DEF TokensIn, Heard, Told, LastWasHonest
<1>3. RolesKeep(ExecutorObserves(ReconObserves(m)))
  BY <1>1, <1>2 DEF RolesKeep, ExecutorObserves
<1>4. RolesKeep(b)
  BY <1>3 DEF RolesKeep, Observes, Handoff
<1>5. CanEmit(b) => \A v \in Ran(told) : Heard(v)
  BY <1>4 DEF CanEmit, TokenOf, RolesKeep, Ran
<1> HIDE DEF b
<1>6. Honest(ReconActs(b).action) /\ RolesKeep(ReconActs(b).memory)
  BY <1>4 DEF ReconActs, Move, Wait, List, Read, Honest
<1>7. Honest(ExecutorActs(b).action) /\ RolesKeep(ExecutorActs(b).memory)
  BY <1>4, <1>5 DEF ExecutorActs, RolesKeep, Move, Wait, Read, Deliver, Honest
<1>8. QED
  BY <1>6, <1>7 DEF RolesAct, RolesKeep, Move, Honest, b

LEMMA OthersAreHonest ==
  ASSUME Told, NEW m
  PROVE  /\ Honest(StreamActs(m).action) /\ Honest(DiceActs(m).action)
         /\ Honest(CheaterActs(m).action)
<1>1. Honest(StreamActs(m).action)
  BY DEF StreamActs, Move, Wait, Deliver, Honest, Told, Ran
<1>2. QED
  BY <1>1 DEF DiceActs, CheaterActs, Move, Honest

LEMMA ReferencesAreHonest ==
  ASSUME Told, player # "any", NEW m, Keeps(m)
  PROVE  Honest(Acts(m).action) /\ Keeps(Acts(m).memory)
<1>1. CASE player = "ops"
  BY <1>1, OpsIsHonest DEF Acts, Keeps, Told, Setting
<1>2. CASE player = "toy"
  BY <1>2, ToyIsHonest DEF Acts, Keeps, Told, Setting
<1>3. CASE player = "naive"
  BY <1>3, NaiveIsHonest DEF Acts, Keeps, Told, Setting
<1>4. CASE player = "auditor"
  BY <1>4, AuditorIsHonest DEF Acts, Keeps, Told, Setting
<1>5. CASE player = "runbook"
  BY <1>5, RunbookIsHonest DEF Acts, Keeps, Told, Setting
<1>6. CASE player = "roles"
  BY <1>6, RolesAreHonest DEF Acts, Keeps, Told, Setting
<1>7. CASE player \in {"stream", "dice", "cheater"}
  BY <1>7, OthersAreHonest DEF Acts, Keeps
<1>8. QED
  BY <1>1, <1>2, <1>3, <1>4, <1>5, <1>6, <1>7 DEF Told, Setting, Blanks

\* What the agent that may take any action can say, it has heard.
LEMMA AnyIsHonest ==
  ASSUME Told, NEW k, NEW v \in Sayable
  PROVE  Honest(Deliver(k, v))
BY DEF Sayable, Honest, Deliver, Ran, Heard

LEMMA AnyPerforms ==
  ASSUME Told, AnyMoves
  PROVE  \E action : Honest(action) /\ Perform(action)
<1>1. \/ Perform(List) \/ Perform(Wait)
      \/ \E f \in read : Perform(Extract(f, Here.key))
      \/ \E type \in {"read_file", "read_json", "find_line"} : \E f :
           Perform([type |-> type, path |-> f])
      \/ \E k, v : v \in Sayable /\ Perform(Deliver(k, v))
      \/ \E c : Perform([type |-> "poll_stream", cursor |-> c])
      \/ \E n : Perform([type |-> "roll_dice", result |-> n])
  BY DEF AnyMoves
<1>2. /\ Honest(List) /\ Honest(Wait)
      /\ \A f \in read : \A k : Honest(Extract(f, k))
      /\ \A type \in {"read_file", "read_json", "find_line"} : \A f :
           Honest([type |-> type, path |-> f])
      /\ \A k, v : v \in Sayable => Honest(Deliver(k, v))
      /\ \A c : Honest([type |-> "poll_stream", cursor |-> c])
      /\ \A n : Honest([type |-> "roll_dice", result |-> n])
  <2>1. \A k, v : v \in Sayable => Honest(Deliver(k, v))
    BY AnyIsHonest
  <2>2. QED
    BY <2>1 DEF Honest, List, Wait, Extract
<1>3. QED
  BY <1>1, <1>2

-----------------------------------------------------------------------------

LEMMA ToldInit == RunsInit => ToldInv
<1> SUFFICES ASSUME RunsInit PROVE ToldInv
  OBVIOUS
<1> USE DEF RunsInit, TaskInit
<1>1. /\ player \in DOMAIN Blanks /\ task \in Tasks
      /\ player \notin {"any", "stream", "dice"} => task \in FileTaskNames
      /\ player = "dice" => task = "dice"
      /\ player = "stream" => task = "stream"
  <2>1. player \in DOMAIN Blanks /\ task \in Plays(player)
    OBVIOUS
  <2>2. /\ player = "any" => task \in Tasks
        /\ player = "stream" => task = "stream"
        /\ player = "dice" => task = "dice"
        /\ player \notin {"any", "stream", "dice", "runbook"} => task \in FileTaskNames
        /\ player = "runbook" => task = "runbook"
    BY <2>1 DEF Plays
  <2>3. "runbook" \in FileTaskNames
    BY DEF FileTaskNames, World
  <2>4. QED
    BY <2>1, <2>2, <2>3 DEF Tasks
<1>2. pages \in Nat /\ critical \in 1 .. pages
  BY TaskAssumption
<1>3. Setting
  BY <1>1, <1>2 DEF Setting
<1>4. ReadIsThere /\ RollsCount
  BY DEF ReadIsThere, RollsCount
<1>5. LastWasHonest /\ Heard(reply.value)
  BY DEF LastWasHonest, Answers, NoAction, Honest, Good, Heard, None
<1>6. OutputWasHeard
  BY DEF OutputWasHeard, Nothing, Ran
<1>7. Keeps(memory)
  <2>1. player = "ops" => OpsKeeps(memory)
    BY DEF Blanks, OpsBlank, OpsKeeps
  <2>2. player = "naive" => NaiveKeeps(memory)
    BY DEF Blanks, NaiveBlank, NaiveKeeps, Heard
  <2>3. player = "auditor" => AuditorKeeps(memory)
    BY DEF Blanks, AuditorBlank, AuditorKeeps, Heard
  <2>4. player = "runbook" => RunbookKeeps(memory)
    <3>1. <<>> \in Seq(Known \cup {None})
      OBVIOUS
    <3>2. player = "runbook" => memory = RunbookBlank
      BY DEF Blanks
    <3>3. RunbookKeeps(RunbookBlank)
      BY <3>1 DEF RunbookBlank, RunbookKeeps, Heard
    <3>4. QED
      BY <3>2, <3>3
  <2>5. player = "roles" => RolesKeep(memory)
    BY DEF Blanks, RolesBlank, RolesKeep
  <2>6. QED
    BY <2>1, <2>2, <2>3, <2>4, <2>5 DEF Keeps
<1>8. QED
  BY <1>3, <1>4, <1>5, <1>6, <1>7 DEF ToldInv, Told, NoShortcut

LEMMA ToldStep == ToldInv /\ [RunsNext]_runVars => ToldInv'
<1> SUFFICES ASSUME ToldInv, [RunsNext]_runVars PROVE ToldInv'
  OBVIOUS
<1> USE DEF ToldInv
<1>1. CASE ReferenceMoves
  <2> DEFINE move == Acts(memory)
  <2>1. player # "any" /\ UNCHANGED player /\ memory' = move.memory
        /\ Perform(move.action)
    BY <1>1 DEF ReferenceMoves, Makes
  <2>2. Honest(move.action) /\ Keeps(move.memory)
    BY <2>1, ReferencesAreHonest
  <2> HIDE DEF move
  <2>3. Told' /\ NoShortcut' /\ Kept
    BY <2>1, <2>2, PerformTells
  <2>4. Keeps(memory)'
    BY <2>1, <2>2, <2>3, KeptIsKept
  <2>5. QED
    BY <2>3, <2>4
<1>2. CASE AnyMoves
  <2>1. UNCHANGED <<player, memory>> /\ player = "any"
    BY <1>2 DEF AnyMoves
  <2>4. \E action : Honest(action) /\ Perform(action)
    BY <1>2, AnyPerforms
  <2>5. Told' /\ NoShortcut' /\ Kept
    BY <2>1, <2>4, PerformTells
  <2>6. Keeps(memory)'
    BY <2>1 DEF Keeps
  <2>7. QED
    BY <2>5, <2>6
<1>3. CASE UNCHANGED runVars
  <2>1. /\ UNCHANGED <<task, pages, critical, output, rolls, wins, read, polled>>
        /\ UNCHANGED <<over, last, reply, player, memory>>
    BY <1>3 DEF runVars, taskVars
  <2>2. Kept
    BY <2>1 DEF Kept
  <2>3. Setting' /\ RollsCount' /\ ReadIsThere' /\ OutputWasHeard'
    BY <2>1, <2>2, OutputStays DEF Told, Setting, RollsCount, ReadIsThere, Here
  <2>4. LastWasHonest' /\ Heard(reply.value)'
    BY <2>1, <2>2, HeardStays DEF Told, LastWasHonest, Honest, Answers, Kept
  <2>5. Keeps(memory)'
    BY <2>1, <2>2, KeptIsKept
  <2>6. NoShortcut'
    BY <2>1 DEF NoShortcut, Enough
  <2>7. QED
    BY <2>3, <2>4, <2>5, <2>6 DEF Told
<1>4. QED
  BY <1>1, <1>2, <1>3 DEF RunsNext

\* What every agent was told, and that only the told answer is accepted.
LEMMA RunsTold == RunsSpec => []ToldInv
BY ToldInit, ToldStep, PTL DEF RunsSpec

\* Whatever an agent does with what it was given, no task but the auditor's is
\* solved before it was given all that the answer is spread over (setup and
\* validate of the tasks).
THEOREM NoShortcutCorrect == RunsSpec => []NoShortcut
<1>1. ToldInv => NoShortcut
  BY DEF ToldInv
<1>2. QED
  BY RunsTold, <1>1, PTL

-----------------------------------------------------------------------------
\* Where the keys of the tasks are: what an agent can be told.

LEMMA KeysOf ==
  ASSUME NEW f
  PROVE  /\ \A i \in DOMAIN HiddenText(f) : HiddenText(f)[i].key = "API_KEY"
         /\ \A i \in DOMAIN AlertText(f) :
              /\ AlertText(f)[i].key \in {"TARGET_KEY", "INCIDENT", "ALERT_CODE", "queue_depth"}
              /\ AlertText(f)[i].key = "ALERT_CODE" => AlertText(f)[i].value = "alert"
         /\ \A i \in DOMAIN DriftText(f) :
              DriftText(f)[i].key \in {"TARGET_KEY", "MAX_CONN", "MODE"}
         /\ \A i \in DOMAIN RecoveryText(f) :
              /\ RecoveryText(f)[i].key \in {"TARGET_KEY", "NEXT", "STEP", "RECOVERY_TOKEN"}
              /\ RecoveryText(f)[i].key = "RECOVERY_TOKEN" =>
                     RecoveryText(f)[i].value = "token"
         /\ \A i \in DOMAIN SupportText(f) :
              /\ SupportText(f)[i].key \in {"TARGET_KEY", "-", "ESCALATION_CODE"}
              /\ SupportText(f)[i].key = "ESCALATION_CODE" =>
                     SupportText(f)[i].value = "code"
         /\ \A i \in DOMAIN SecurityText(f) :
              /\ SecurityText(f)[i].key \in {"TARGET_KEY", "-", "candidate_token", "BREACH_TOKEN"}
              /\ SecurityText(f)[i].key = "BREACH_TOKEN" =>
                     SecurityText(f)[i].value = "breach"
<1> USE DEF Line, Note, Said, Item, Target
<1>1. \A i \in DOMAIN HiddenText(f) : HiddenText(f)[i].key = "API_KEY"
  BY DEF HiddenText
<1>2. \A i \in DOMAIN AlertText(f) :
        /\ AlertText(f)[i].key \in {"TARGET_KEY", "INCIDENT", "ALERT_CODE", "queue_depth"}
        /\ AlertText(f)[i].key = "ALERT_CODE" => AlertText(f)[i].value = "alert"
  BY DEF AlertText
<1>3. \A i \in DOMAIN DriftText(f) :
        DriftText(f)[i].key \in {"TARGET_KEY", "MAX_CONN", "MODE"}
  BY DEF DriftText
<1>4. \A i \in DOMAIN RecoveryText(f) :
        /\ RecoveryText(f)[i].key \in {"TARGET_KEY", "NEXT", "STEP", "RECOVERY_TOKEN"}
        /\ RecoveryText(f)[i].key = "RECOVERY_TOKEN" =>
               RecoveryText(f)[i].value = "token"
  BY DEF RecoveryText
<1>5. \A i \in DOMAIN SupportText(f) :
        /\ SupportText(f)[i].key \in {"TARGET_KEY", "-", "ESCALATION_CODE"}
        /\ SupportText(f)[i].key = "ESCALATION_CODE" => SupportText(f)[i].value = "code"
  BY DEF SupportText
<1>6. \A i \in DOMAIN SecurityText(f) :
        /\ SecurityText(f)[i].key \in {"TARGET_KEY", "-", "candidate_token", "BREACH_TOKEN"}
        /\ SecurityText(f)[i].key = "BREACH_TOKEN" =>
               SecurityText(f)[i].value = "breach"
  BY DEF SecurityText
<1> HIDE DEF Line, Note, Said, Item, Target
<1>7. QED
  BY <1>1, <1>2, <1>3, <1>4, <1>5, <1>6

LEMMA MoreKeysOf ==
  ASSUME NEW f
  PROVE  /\ \A i \in DOMAIN EscalationText(f) :
              /\ EscalationText(f)[i].key \in {"TARGET_KEY", "-", "ANALYST_TOKEN", "MANAGER_TOKEN"}
              /\ EscalationText(f)[i].at = "start" =>
                     EscalationText(f)[i].key = "TARGET_KEY"
         /\ \A i \in DOMAIN RunbookText(f) :
              RunbookText(f)[i].key \in {"TARGET_KEY", "PHASE_1_PATH", "PHASE_2_PATH",
                                         "PHASE_3_PATH", "PHASE_CODE", "NEXT", "CODE",
                                         "ACK_ID", "HANDOFF_TOKEN"}
         /\ \A i \in DOMAIN AuditorText(f) :
              /\ AuditorText(f)[i].key \in {"TARGET_KEY", "sample", "ISSUE_ID", "AUDIT_CODE"}
              /\ AuditorText(f)[i].key = "ISSUE_ID" => AuditorText(f)[i].value = "issue"
              /\ AuditorText(f)[i].key = "AUDIT_CODE" =>
                     AuditorText(f)[i].value = "audit"
         /\ \A format : \A i \in DOMAIN <<Line("FINAL_FORMAT", format)>> :
              <<Line("FINAL_FORMAT", format)>>[i].key = "FINAL_FORMAT"
<1> USE DEF Line, Note, Said, Item, Target
<1>1. \A i \in DOMAIN EscalationText(f) :
        /\ EscalationText(f)[i].key \in {"TARGET_KEY", "-", "ANALYST_TOKEN", "MANAGER_TOKEN"}
        /\ EscalationText(f)[i].at = "start" => EscalationText(f)[i].key = "TARGET_KEY"
  BY DEF EscalationText
<1>2. \A i \in DOMAIN RunbookText(f) :
        RunbookText(f)[i].key \in {"TARGET_KEY", "PHASE_1_PATH", "PHASE_2_PATH",
                                   "PHASE_3_PATH", "PHASE_CODE", "NEXT", "CODE",
                                   "ACK_ID", "HANDOFF_TOKEN"}
  BY DEF RunbookText
<1>3. \A i \in DOMAIN AuditorText(f) :
        /\ AuditorText(f)[i].key \in {"TARGET_KEY", "sample", "ISSUE_ID", "AUDIT_CODE"}
        /\ AuditorText(f)[i].key = "ISSUE_ID" => AuditorText(f)[i].value = "issue"
        /\ AuditorText(f)[i].key = "AUDIT_CODE" => AuditorText(f)[i].value = "audit"
  BY DEF AuditorText
<1>4. \A format : \A i \in DOMAIN <<Line("FINAL_FORMAT", format)>> :
        <<Line("FINAL_FORMAT", format)>>[i].key = "FINAL_FORMAT"
  OBVIOUS
<1> HIDE DEF Line, Note, Said, Item, Target
<1>5. QED
  BY <1>1, <1>2, <1>3, <1>4

\* A line under the key of the task has its answer, but for the hidden file's
\* decoy; only the hidden file's task has a line with API_KEY.
LEMMA KeyLineIsAnswer ==
  ASSUME task \in FileTaskNames, NEW f \in DOMAIN Here.files,
         NEW i \in DOMAIN Here.files[f]
  PROVE  /\ task # "hidden" /\ Here.files[f][i].key = Here.key =>
              Here.answer = <<Here.files[f][i].value>>
         /\ task # "hidden" => Here.files[f][i].key # "API_KEY"
         /\ Here.files[f][i].key # "ACCESS_TOKEN"
<1> DEFINE line == Here.files[f][i]
<1>1. CASE task = "hidden"
  <2>1. Here.files[f] = HiddenText(f)
    BY <1>1, FilesAre
  <2>2. QED
    BY <1>1, <2>1, KeysOf, AnswersAre
<1>2. CASE task = "alert"
  <2>1. Here.files[f] = AlertText(f)
    BY <1>2, FilesAre
  <2>2. QED
    BY <1>2, <2>1, KeysOf, AnswersAre
<1>3. CASE task = "drift"
  <2>1. Here.files[f] = DriftText(f)
    BY <1>3, FilesAre
  <2>2. QED
    BY <1>3, <2>1, KeysOf, AnswersAre
<1>4. CASE task = "recovery"
  <2>1. Here.files[f] = RecoveryText(f)
    BY <1>4, FilesAre
  <2>2. QED
    BY <1>4, <2>1, KeysOf, AnswersAre
<1>5. CASE task = "support"
  <2>1. Here.files[f] = SupportText(f)
    BY <1>5, FilesAre
  <2>2. QED
    BY <1>5, <2>1, KeysOf, AnswersAre
<1>6. CASE task = "security"
  <2>1. Here.files[f] = SecurityText(f)
    BY <1>6, FilesAre
  <2>2. QED
    BY <1>6, <2>1, KeysOf, AnswersAre
<1>7. CASE task = "runbook"
  <2>1. Here.files[f] = RunbookText(f)
    BY <1>7, FilesAre
  <2>2. QED
    BY <1>7, <2>1, MoreKeysOf, AnswersAre
<1>8. CASE task = "auditor"
  <2>1. Here.files[f] = AuditorText(f)
    BY <1>8, FilesAre
  <2>2. QED
    BY <1>8, <2>1, MoreKeysOf, AnswersAre
<1>9. CASE task \in {"analyst_first", "manager_first"}
  <2>1. \/ Here.files[f] = EscalationText(f)
        \/ \E format : Here.files[f] = <<Line("FINAL_FORMAT", format)>>
    BY <1>9, FilesAre
  <2>2. line.key \in {"TARGET_KEY", "-", "ANALYST_TOKEN", "MANAGER_TOKEN", "FINAL_FORMAT"}
    <3>1. CASE Here.files[f] = EscalationText(f)
      BY <3>1, MoreKeysOf
    <3>2. ASSUME NEW format, Here.files[f] = <<Line("FINAL_FORMAT", format)>>
          PROVE  line.key = "FINAL_FORMAT"
      BY <3>2, MoreKeysOf
    <3>3. QED
      BY <2>1, <3>1, <3>2
  <2>3. QED
    BY <1>9, <2>2, AnswersAre
<1>10. QED
  BY <1>1, <1>2, <1>3, <1>4, <1>5, <1>6, <1>7, <1>8, <1>9, NamesAre

\* No line starts with the two tokens of the escalation.
LEMMA NoTokenAtStart ==
  ASSUME task \in FileTaskNames, NEW f \in DOMAIN Here.files,
         NEW i \in DOMAIN Here.files[f], Here.files[f][i].at = "start"
  PROVE  Here.files[f][i].key \notin {"ANALYST_TOKEN", "MANAGER_TOKEN"}
<1> DEFINE line == Here.files[f][i]
<1>1. CASE task = "hidden"
  <2>1. Here.files[f] = HiddenText(f)
    BY <1>1, FilesAre
  <2>2. QED
    BY <1>1, <2>1, KeysOf
<1>2. CASE task = "alert"
  <2>1. Here.files[f] = AlertText(f)
    BY <1>2, FilesAre
  <2>2. QED
    BY <1>2, <2>1, KeysOf
<1>3. CASE task = "drift"
  <2>1. Here.files[f] = DriftText(f)
    BY <1>3, FilesAre
  <2>2. QED
    BY <1>3, <2>1, KeysOf
<1>4. CASE task = "recovery"
  <2>1. Here.files[f] = RecoveryText(f)
    BY <1>4, FilesAre
  <2>2. QED
    BY <1>4, <2>1, KeysOf
<1>5. CASE task = "support"
  <2>1. Here.files[f] = SupportText(f)
    BY <1>5, FilesAre
  <2>2. QED
    BY <1>5, <2>1, KeysOf
<1>6. CASE task = "security"
  <2>1. Here.files[f] = SecurityText(f)
    BY <1>6, FilesAre
  <2>2. QED
    BY <1>6, <2>1, KeysOf
<1>7. CASE task = "runbook"
  <2>1. Here.files[f] = RunbookText(f)
    BY <1>7, FilesAre
  <2>2. QED
    BY <1>7, <2>1, MoreKeysOf
<1>8. CASE task = "auditor"
  <2>1. Here.files[f] = AuditorText(f)
    BY <1>8, FilesAre
  <2>2. QED
    BY <1>8, <2>1, MoreKeysOf
<1>9. CASE task \in {"analyst_first", "manager_first"}
  <2>1. \/ Here.files[f] = EscalationText(f)
        \/ \E format : Here.files[f] = <<Line("FINAL_FORMAT", format)>>
    BY <1>9, FilesAre
  <2>2. line.key \in {"TARGET_KEY", "FINAL_FORMAT"}
    <3>1. CASE Here.files[f] = EscalationText(f)
      BY <3>1, MoreKeysOf
    <3>2. ASSUME NEW format, Here.files[f] = <<Line("FINAL_FORMAT", format)>>
          PROVE  line.key = "FINAL_FORMAT"
      BY <3>2, MoreKeysOf
    <3>3. QED
      BY <2>1, <3>1, <3>2
  <2>3. QED
    BY <2>2
<1>10. QED
  BY <1>1, <1>2, <1>3, <1>4, <1>5, <1>6, <1>7, <1>8, <1>9, NamesAre

\* The value of the first line with a key is what starts with it.
LEMMA LineStarts ==
  ASSUME task \in FileTaskNames, NEW f \in DOMAIN Here.files, NEW key, NEW v,
         NEW i \in DOMAIN Here.files[f], Here.files[f][i] = Line(key, v),
         \A j \in DOMAIN Here.files[f] : Here.files[f][j].key = key => i <= j
  PROVE  Starting(f, key) = v
<1> DEFINE found == {j \in DOMAIN Here.files[f] :
              Here.files[f][j].at = "start" /\ Here.files[f][j].key = key}
<1>1. i \in found
  BY DEF Line
<1>2. found \in SUBSET (1 .. 4) /\ \A j \in found : i <= j
  BY PlacesBounded
<1>3. Starting(f, key) = Here.files[f][Earliest(found)].value
  BY <1>1 DEF Starting
<1> HIDE DEF found
<1>4. Earliest(found) = i
  <2>1. found \in SUBSET Nat /\ found # {}
    BY <1>1, <1>2
  <2>2. Earliest(found) \in found /\ Earliest(found) <= i
    BY <1>1, <2>1, EarliestIsFirst
  <2>3. Earliest(found) \in 1 .. 4 /\ i \in 1 .. 4 /\ i <= Earliest(found)
    BY <1>1, <1>2, <2>2
  <2>4. QED
    BY <2>2, <2>3
<1>5. QED
  BY <1>3, <1>4 DEF Line

\* The README, or the scope of the audit, begins with the key of the task.
LEMMA TargetIsKey ==
  ASSUME task \in FileTaskNames
  PROVE  /\ "README" \in DOMAIN Here.files =>
              task # "hidden" /\ Starting("README", "TARGET_KEY") = Here.key
         /\ "audit_scope" \in DOMAIN Here.files =>
              task = "auditor" /\ Starting("audit_scope", "TARGET_KEY") = Here.key
<1>1. ASSUME NEW f \in DOMAIN Here.files,
             Here.files[f][1] = Target(Here.key), 1 \in DOMAIN Here.files[f]
      PROVE  Starting(f, "TARGET_KEY") = Here.key
  <2>1. \A j \in DOMAIN Here.files[f] : 1 <= j
    BY PlacesBounded
  <2>2. QED
    BY <1>1, <2>1, LineStarts DEF Target
<1>2. ASSUME "README" \in DOMAIN Here.files
      PROVE  /\ task \notin {"hidden", "auditor"}
             /\ 1 \in DOMAIN Here.files["README"]
             /\ Here.files["README"][1] = Target(Here.key)
  <2>1. task \notin {"hidden", "auditor"}
    BY <1>2, PathsAre
  <2>2. CASE task = "alert"
    <3>1. Here.files["README"] = AlertText("README")
      BY <1>2, <2>2, FilesAre
    <3>2. QED
      BY <2>2, <3>1, AnswersAre DEF AlertText
  <2>3. CASE task = "drift"
    <3>1. Here.files["README"] = DriftText("README")
      BY <1>2, <2>3, FilesAre
    <3>2. QED
      BY <2>3, <3>1, AnswersAre DEF DriftText
  <2>4. CASE task = "recovery"
    <3>1. Here.files["README"] = RecoveryText("README")
      BY <1>2, <2>4, FilesAre
    <3>2. QED
      BY <2>4, <3>1, AnswersAre DEF RecoveryText
  <2>5. CASE task = "support"
    <3>1. Here.files["README"] = SupportText("README")
      BY <1>2, <2>5, FilesAre
    <3>2. QED
      BY <2>5, <3>1, AnswersAre DEF SupportText
  <2>6. CASE task = "security"
    <3>1. Here.files["README"] = SecurityText("README")
      BY <1>2, <2>6, FilesAre
    <3>2. QED
      BY <2>6, <3>1, AnswersAre DEF SecurityText
  <2>7. CASE task = "runbook"
    <3>1. Here.files["README"] = RunbookText("README")
      BY <1>2, <2>7, FilesAre
    <3>2. QED
      BY <2>7, <3>1, AnswersAre DEF RunbookText
  <2>8. CASE task \in {"analyst_first", "manager_first"}
    <3>1. Here.files["README"] = EscalationText("README")
      BY <1>2, <2>8, FilesAre
    <3>2. Here.key = "ESCALATION_CODE"
      BY <2>8, AnswersAre
    <3>3. QED
      BY <2>8, <3>1, <3>2 DEF EscalationText
  <2>9. QED
    BY <2>1, <2>2, <2>3, <2>4, <2>5, <2>6, <2>7, <2>8, NamesAre
<1>3. ASSUME "audit_scope" \in DOMAIN Here.files
      PROVE  /\ task = "auditor"
             /\ 1 \in DOMAIN Here.files["audit_scope"]
             /\ Here.files["audit_scope"][1] = Target(Here.key)
  <2>1. task = "auditor"
    BY <1>3, PathsAre, NamesAre
  <2>2. Here.files["audit_scope"] = AuditorText("audit_scope")
    BY <1>3, <2>1, FilesAre
  <2>3. QED
    BY <2>1, <2>2, AnswersAre DEF AuditorText
<1>4. QED
  BY <1>1, <1>2, <1>3

-----------------------------------------------------------------------------
\* The invariant of the reference agents: what they hold when they deliver is
\* the answer.  The values come with the keys they asked for; what an agent
\* has asked for is told by its memory and its last action.
Right(action) ==
  action.type = "set_output" =>
    \/ /\ task \in FileTaskNames
       /\ action.key = Here.key /\ action.value = Here.answer
    \/ task = "stream" /\ action.key = "STREAM_CODE" /\ action.value = <<"stream">>

ExtractIsLine ==
  task \in FileTaskNames /\ Answers("extract_value") =>
    \E i \in DOMAIN Here.files[last.path] :
      /\ Here.files[last.path][i].key = last.key
      /\ Here.files[last.path][i].value = reply.value

OpsKnows(m) ==
  /\ {"target", "pending"} \subseteq DOMAIN m
  /\ m.target \in {None, Here.key} /\ m.pending \in {None, Here.key}
  /\ last.type = "extract_value" =>
       last.key = Here.key /\ Here.key \in {"ALERT_CODE", "RECOVERY_TOKEN"}

\* In the hidden file's task ToyAgent lists, reads the first file, extracts and
\* delivers; in any other there is nothing to extract.
HiddenListing == {".config", "config.example", "readme"}
ToyKnows(m) ==
  /\ "seen" \in DOMAIN m
  /\ task # "hidden" /\ last.type = "extract_value" => last.key = "API_KEY"
  /\ task = "hidden" /\ over = "no" =>
       /\ reply.ok
       /\ \/ last.type = "none" /\ m.seen = {} /\ seen = {}
          \/ last.type = "list_dir" /\ m.seen = {} /\ seen = HiddenListing
          \/ last.type = "read_file" /\ last.path = ".config"
          \/ last.type = "extract_value" /\ reply.value = "correct"

\* So does NaiveLLMLoopAgent.
NaiveKnows(m) ==
  /\ {"files", "cached", "value", "retry"} \subseteq DOMAIN m
  /\ task # "hidden" => /\ m.value = None
                        /\ last.type = "extract_value" => last.key = "ACCESS_TOKEN"
  /\ task = "hidden" /\ over = "no" =>
       /\ reply.ok
       /\ \/ last.type = "none" /\ m.files = <<>> /\ m.cached = None /\ m.value = None
          \/ last.type = "list_dir" /\ m.cached = None /\ m.value = None
          \/ last.type = "read_file" /\ last.path = ".config" /\ m.value = None
          \/ last.type = "extract_value" /\ reply.value = "correct"

AuditorKnows(m) ==
  /\ {"read", "target", "issue", "audit", "pending", "submitted"} \subseteq DOMAIN m
  /\ m.target # None => task = "auditor" /\ m.target = Here.key
  /\ task = "auditor" => m.issue \in {None, "issue"} /\ m.audit \in {None, "audit"}
  /\ last.type = "extract_value" => m.pending = last.key

\* The runbook's pieces, as the agent reads them.
Phases == <<"phase_1", "phase_2", "phase_3">>
Codes(m) == IF "phase_3" \in m.read THEN <<"code_1", "code_2", "code_3">>
            ELSE IF "phase_2" \in m.read THEN <<"code_1", "code_2">>
            ELSE IF "phase_1" \in m.read THEN <<"code_1">> ELSE <<>>
RunbookHolds(m) ==
  /\ {"listed", "read", "target", "phases", "codes", "ack", "handoff"} \subseteq DOMAIN m
  /\ m.phases = IF "runbook_index" \in m.read THEN Phases ELSE <<>>
  /\ m.codes = Codes(m)
  /\ m.ack = IF "timeline" \in m.read THEN "ack" ELSE None
  /\ m.handoff = IF "handoff" \in m.read THEN "handoff" ELSE None
  /\ m.target \in {None, Here.key}
  /\ "phase_3" \in m.read => "phase_2" \in m.read
  /\ "phase_2" \in m.read => "phase_1" \in m.read
  /\ "phase_1" \in m.read => "runbook_index" \in m.read
NextToRead(m, path) ==
  /\ path \notin m.read
  /\ path = "phase_1" => "runbook_index" \in m.read
  /\ path = "phase_2" => "phase_1" \in m.read
  /\ path = "phase_3" => "phase_2" \in m.read
RunbookKnows(m) == /\ RunbookHolds(m) /\ task = "runbook"
                   /\ last.type = "read_file" => NextToRead(m, last.path)

RolesKnow(m) ==
  /\ {"target", "tokens", "format", "role"} \subseteq DOMAIN m
  /\ m.target \in {None, Here.key} /\ (task = "hidden" => m.target = None)
  /\ \A t \in m.tokens :
       /\ t.key \notin {"ANALYST_TOKEN", "MANAGER_TOKEN"}
       /\ task # "hidden" /\ t.key = Here.key => Here.answer = <<t.value>>

Knows(m) == /\ player = "ops" => OpsKnows(m)
            /\ player = "toy" => ToyKnows(m)
            /\ player = "naive" => NaiveKnows(m)
            /\ player = "auditor" => AuditorKnows(m)
            /\ player = "runbook" => RunbookKnows(m)
            /\ player = "roles" => RolesKnow(m)

RightInv == ToldInv /\ FirstAnswerIsRight /\ ExtractIsLine /\ Knows(memory)

LEMMA PerformMeans ==
  ASSUME NEW action, Perform(action)
  PROVE  /\ over = "no" /\ last' = action /\ UNCHANGED <<task, pages, critical>>
         /\ Here' = Here
BY DEF Perform, Refused, Took, Here

\* An action of a type that the files of a task offer is that operation.
LEMMA FileActionIs ==
  ASSUME task \in FileTaskNames, NEW action, Perform(action)
  PROVE  /\ action.type = "list_dir" => ListDir
         /\ action.type = "read_file" => ReadFile(action.path)
         /\ action.type = "extract_value" => ExtractValue(action.path, action.key)
         /\ action.type = "set_output" /\ action.key = Here.key =>
              SetOutput(action.key, action.value) /\ Took(action)
<1>1. task \notin {"stream", "dice"}
  BY NamesAre
<1>2. ASSUME action.type \in FileVerbs
      PROVE  TaskActions(action) /\ Took(action)
  <2>1. FileVerbs \subseteq Verbs
    BY <1>1 DEF Verbs
  <2>2. QED
    BY <1>2, <2>1 DEF Perform, Refused
<1>3. ASSUME TaskActions(action)
      PROVE  \/ HiddenActions(action)
             \/ action.type \in {"read_json", "find_line"}
             \/ action.type = "set_output" /\ action.key # Here.key
  <2>1. CASE task \in {"hidden", "alert", "drift", "recovery"}
    BY <1>3, <2>1 DEF TaskActions, AlertActions, DriftActions, RecoveryActions
  <2>2. CASE task \in {"analyst_first", "manager_first", "auditor"}
    BY <1>3, <2>2 DEF TaskActions, EscalationActions, AuditorActions
  <2>3. CASE task \in {"support", "security", "runbook"}
    BY <1>3, <2>3 DEF TaskActions, SupportActions, SecurityActions, RunbookActions
  <2>4. QED
    BY <2>1, <2>2, <2>3, NamesAre
<1>4. QED
  BY <1>2, <1>3 DEF FileVerbs, HiddenActions

LEMMA RightSucceeds ==
  ASSUME Told, NEW action, Right(action), Perform(action),
         action.type = "set_output"
  PROVE  over' = "success"
<1>1. CASE task \in FileTaskNames /\ action.key = Here.key /\ action.value = Here.answer
  <2>1. SetOutput(action.key, action.value) /\ Took(action)
    BY <1>1, FileActionIs
  <2>2. output'[Here.key] = Here.answer
    BY <1>1, <2>1, AnswerHasValues DEF SetOutput, Told, OutputWasHeard
  <2>3. Here' = Here /\ task' = task
    BY PerformMeans
  <2>4. Valid'
    BY <1>1, <2>2, <2>3, NamesAre DEF Valid, FileValid
  <2>5. QED
    BY <2>1, <2>4 DEF Took
<1>2. CASE task = "stream" /\ action.key = "STREAM_CODE" /\ action.value = <<"stream">>
  <2>1. TaskActions(action) /\ Took(action)
    BY <1>2 DEF Perform, Refused, Verbs
  <2>2. SetOutput(action.key, action.value)
    BY <1>2, <2>1 DEF TaskActions, StreamActions
  <2>3. output'["STREAM_CODE"] = <<"stream">> /\ task' = task
    BY <1>2, <2>2, PerformMeans DEF SetOutput, Told, OutputWasHeard, Keys
  <2>4. Valid'
    BY <1>2, <2>3 DEF Valid, StreamValid
  <2>5. QED
    BY <2>1, <2>4 DEF Took
<1>3. QED
  BY <1>1, <1>2 DEF Right

LEMMA ExtractTellsLine ==
  ASSUME Told, NEW action, Honest(action), Perform(action)
  PROVE  ExtractIsLine'
<1> SUFFICES ASSUME task' \in FileTaskNames, last'.type = "extract_value", reply'.ok
             PROVE  \E i \in DOMAIN Here'.files[last'.path] :
                      /\ Here'.files[last'.path][i].key = last'.key
                      /\ Here'.files[last'.path][i].value = reply'.value
  BY DEF ExtractIsLine, Answers, FileTaskNames, World
<1>1. last' = action /\ Here' = Here /\ task \in FileTaskNames
  BY PerformMeans
<1> DEFINE file == Here.files[action.path]
           found == {i \in DOMAIN file : Matches(file[i], action.key)}
<1>2. ExtractValue(action.path, action.key) /\ action.path \in read
  BY <1>1, FileActionIs DEF Honest
<1>3. DOMAIN file \in SUBSET (1 .. 4)
  BY <1>1, <1>2, PlacesBounded DEF Told, ReadIsThere
<1>4. found # {}
  BY <1>2 DEF ExtractValue, Fails, Bad, Good
<1>5. reply'.value = file[Earliest(found)].value
  BY <1>2, <1>4 DEF ExtractValue, Good
<1>6. Earliest(found) \in found
  BY <1>3, <1>4, EarliestIsOne
<1>7. Earliest(found) \in DOMAIN file /\ file[Earliest(found)].key = action.key
  BY <1>6 DEF Matches
<1>8. QED
  BY <1>1, <1>5, <1>7

LEMMA PatchIsAnswer ==
  ASSUME task = "drift"
  PROVE  Patch = Here.answer
<1>1. task \in FileTaskNames
  BY NamesAre
<1>2. {"desired.conf", "live.conf"} \subseteq DOMAIN Here.files
  BY PathsAre
<1>3. Desired = <<Line("MAX_CONN", "desired"), Line("MODE", "mode")>>
  <2>1. Desired = DriftText("desired.conf")
    BY <1>1, <1>2, FilesAre DEF Desired
  <2>2. QED
    BY <2>1 DEF DriftText
<1>4. Starting("live.conf", "MAX_CONN") = "half"
  <2>1. Here.files["live.conf"] = DriftText("live.conf")
    BY <1>1, <1>2, FilesAre
  <2>2. Here.files["live.conf"] = <<Line("MAX_CONN", "half"), Line("MODE", "mode")>>
    BY <2>1 DEF DriftText
  <2>3. \A j \in DOMAIN Here.files["live.conf"] : 1 <= j
    BY <1>1, <1>2, PlacesBounded
  <2>4. 1 \in DOMAIN Here.files["live.conf"]
        /\ Here.files["live.conf"][1] = Line("MAX_CONN", "half")
    BY <2>2
  <2>5. QED
    BY <1>1, <1>2, <2>3, <2>4, LineStarts
<1>5. 1 \in Drifted /\ Drifted \in SUBSET {1, 2}
  BY <1>3, <1>4 DEF Drifted, Line
<1>6. Earliest(Drifted) = 1
  <2>1. Drifted \in SUBSET Nat /\ Drifted # {}
    BY <1>5
  <2>2. Earliest(Drifted) \in Drifted /\ Earliest(Drifted) <= 1
    BY <1>5, <2>1, EarliestIsFirst
  <2>3. Earliest(Drifted) \in {1, 2}
    BY <1>5, <2>2
  <2>4. QED
    BY <2>2, <2>3
<1>7. Patch = <<"MAX_CONN", "desired">>
  BY <1>3, <1>6 DEF Patch, Line
<1>8. QED
  BY <1>7, AnswersAre

LEMMA OpsIsRight ==
  ASSUME Told, ExtractIsLine, task \in FileTaskNames, last.type # "set_output",
         NEW m, OpsKnows(m), NEW next, next = OpsActs(m), Perform(next.action)
  PROVE  Right(next.action) /\ OpsKnows(next.memory)'
<1> DEFINE n == OpsLearns(m)
           left == Unseen(n, n.files)
<1>1. /\ {"target", "pending"} \subseteq DOMAIN n
      /\ n.target \in {None, Here.key} /\ n.pending \in {None, Here.key}
  <2>1. ReadLast("README") => Starting("README", "TARGET_KEY") = Here.key
    BY TargetIsKey DEF ReadLast, Answers, Told, LastWasHonest, ReadIsThere
  <2>2. QED
    BY <2>1 DEF OpsKnows, OpsLearns
<1>2. Answers("extract_value") => Here.answer = <<reply.value>>
  <2>1. SUFFICES ASSUME Answers("extract_value") PROVE Here.answer = <<reply.value>>
    OBVIOUS
  <2>2. last.path \in DOMAIN Here.files
    BY <2>1 DEF Answers, Told, LastWasHonest, Honest, ReadIsThere
  <2>3. task # "hidden" /\ last.key = Here.key
    BY <2>1, AnswersAre DEF Answers, OpsKnows
  <2>4. QED
    BY <2>1, <2>2, <2>3, KeyLineIsAnswer DEF ExtractIsLine
<1>3. CanPatch(n) => n.target = Here.key /\ Patch = Here.answer
  <2>1. SUFFICES ASSUME CanPatch(n) PROVE n.target = Here.key /\ Patch = Here.answer
    OBVIOUS
  <2>2. n.target = "DRIFT_PATCH"
    BY <2>1 DEF CanPatch
  <2>3. Here.key = "DRIFT_PATCH"
    BY <1>1, <2>2 DEF None
  <2>4. task = "drift"
    BY <2>3, AnswersAre, NamesAre
  <2>5. QED
    BY <2>2, <2>3, <2>4, PatchIsAnswer
<1> HIDE DEF left
<1>4. Right(next.action)
  <2>1. next.action.type = "set_output" =>
          \/ /\ Answers("extract_value") /\ n.pending # None
             /\ next.action = Deliver(n.pending, <<reply.value>>)
          \/ CanPatch(n) /\ next.action = Deliver(n.target, Patch)
    BY DEF OpsActs, OpsChooses, Move, Wait, List, Read, Extract
  <2>2. QED
    BY <1>1, <1>2, <1>3, <2>1 DEF Right, Deliver
<1>5. /\ {"target", "pending"} \subseteq DOMAIN next.memory
      /\ next.memory.target \in {None, Here.key}
      /\ next.memory.pending \in {None, Here.key}
      /\ next.action.type = "extract_value" =>
           next.action.key = Here.key /\ Here.key \in {"ALERT_CODE", "RECOVERY_TOKEN"}
  BY <1>1 DEF OpsActs, OpsChooses, Move, Wait, List, Read, Extract, Deliver,
     Answers, None
<1>6. QED
  BY <1>4, <1>5, PerformMeans DEF OpsKnows

\* What happens in the hidden file's task.
LEMMA HiddenSteps ==
  ASSUME task = "hidden", NEW action, Perform(action)
  PROVE  /\ action = List => reply'.ok /\ seen' = seen \cup HiddenListing
         /\ action = Read(".config") => reply'.ok
         /\ action = Extract(".config", "API_KEY") =>
              reply'.ok /\ reply'.value = "correct"
<1>1. task \in FileTaskNames
  BY NamesAre
<1>2. ".config" \in DOMAIN Here.files
  BY PathsAre
<1>3. Here.files[".config"] = <<Line("API_KEY", "correct")>>
  <2>1. Here.files[".config"] = HiddenText(".config")
    BY <1>1, <1>2, FilesAre
  <2>2. QED
    BY <2>1 DEF HiddenText
<1>4. ASSUME action = List
      PROVE  reply'.ok /\ seen' = seen \cup HiddenListing
  <2>1. ListDir
    BY <1>1, <1>4, FileActionIs DEF List
  <2>2. Here.listing = <<".config", "config.example", "readme">>
    BY DEF Here, World, FileTask, HiddenConfig
  <2>3. {Here.listing[i] : i \in DOMAIN Here.listing} = HiddenListing
    BY <2>2 DEF HiddenListing
  <2>4. QED
    BY <2>1, <2>3 DEF ListDir, Good
<1>5. ASSUME action = Read(".config")
      PROVE  reply'.ok
  <2>1. ReadFile(".config")
    BY <1>1, <1>5, FileActionIs DEF Read
  <2>2. QED
    BY <1>2, <2>1 DEF ReadFile, Good
<1>6. ASSUME action = Extract(".config", "API_KEY")
      PROVE  reply'.ok /\ reply'.value = "correct"
  <2> DEFINE file == Here.files[".config"]
             found == {i \in DOMAIN file : Matches(file[i], "API_KEY")}
  <2>1. ExtractValue(".config", "API_KEY")
    BY <1>1, <1>6, FileActionIs DEF Extract
  <2>2. DOMAIN file = {1} /\ file[1] = Line("API_KEY", "correct")
    BY <1>3
  <2>3. Matches(file[1], "API_KEY")
    BY <2>2 DEF Matches, Line
  <2>4. found = {1}
    BY <2>2, <2>3
  <2>5. reply' = [Good EXCEPT !.value = file[Earliest(found)].value]
    BY <2>1, <2>4 DEF ExtractValue
  <2>6. Earliest(found) = 1
    BY <2>4, EarliestIsOne
  <2>7. QED
    BY <2>2, <2>5, <2>6 DEF Good, Line
<1>7. QED
  BY <1>4, <1>5, <1>6

\* In other tasks nothing is under the keys that the two agents ask for.
LEMMA NothingThere ==
  ASSUME Told, ExtractIsLine, task \in FileTaskNames, Answers("extract_value"),
         last.key = "ACCESS_TOKEN" \/ (task # "hidden" /\ last.key = "API_KEY")
  PROVE  FALSE
<1>1. last.path \in DOMAIN Here.files
  BY DEF Answers, Told, LastWasHonest, Honest, ReadIsThere
<1>2. QED
  BY <1>1, KeyLineIsAnswer DEF ExtractIsLine

LEMMA ToyIsRight ==
  ASSUME Told, ExtractIsLine, task \in FileTaskNames, last.type # "set_output",
         NEW m, ToyKnows(m), NEW next, next = ToyActs(m), Perform(next.action)
  PROVE  Right(next.action) /\ ToyKnows(next.memory)'
<1> DEFINE n == IF last.type = "read_file" /\ reply.error = "file_not_found"
                  THEN [m EXCEPT !.seen = @ \cup {last.path}] ELSE m
           left == {i \in FilesSeen : Here.listing[i] \notin n.seen}
           first == Here.listing[Earliest(left)]
<1>1. "seen" \in DOMAIN n
  BY DEF ToyKnows
<1>2. \/ Answers("read_file") /\ next = Move(n, Extract(last.path, "API_KEY"))
      \/ Answers("extract_value") /\ next = Move(n, Deliver("API_KEY", <<reply.value>>))
      \/ FilesSeen = {} /\ reply.ok /\ ~Answers("read_file")
             /\ ~Answers("extract_value")
         /\ next = Move(n, List)
      \/ ~(FilesSeen = {} /\ reply.ok) /\ ~Answers("read_file")
             /\ ~Answers("extract_value")
         /\ left = {} /\ next = Move(n, Wait)
      \/ ~(FilesSeen = {} /\ reply.ok) /\ ~Answers("read_file")
             /\ ~Answers("extract_value")
         /\ left # {} /\ next = Move([n EXCEPT !.seen = @ \cup {first}], Read(first))
  BY DEF ToyActs, ToyExplores
<1>3. over = "no" /\ last' = next.action /\ task' = task
  BY PerformMeans
<1>4. "seen" \in DOMAIN next.memory
  BY <1>1, <1>2 DEF Move
<1>5. CASE task # "hidden"
  <2>1. ~Answers("extract_value")
    BY <1>5, NothingThere DEF ToyKnows, Answers
  <2>2. /\ next.action.type # "set_output"
        /\ next.action.type = "extract_value" => next.action.key = "API_KEY"
    BY <1>2, <2>1 DEF Move, Wait, List, Read, Extract
  <2>3. QED
    BY <1>3, <1>4, <1>5, <2>2 DEF ToyKnows, Right
<1>6. CASE task = "hidden"
  <2>1. Here.key = "API_KEY" /\ Here.answer = <<"correct">>
    BY <1>6, AnswersAre
  <2>2. Here.listing = <<".config", "config.example", "readme">>
    BY <1>6 DEF Here, World, FileTask, HiddenConfig
  <2>3. CASE last.type = "none"
    <3>1. next = Move(n, List) /\ n = m
      BY <1>2, <1>3, <1>6, <2>2, <2>3 DEF ToyKnows, Answers, FilesSeen
    <3>2. next.action = List /\ next.memory.seen = {} /\ seen = {}
      BY <1>3, <1>6, <2>3, <3>1 DEF ToyKnows, Move
    <3>3. reply'.ok /\ seen' = HiddenListing
      BY <1>6, <3>2, HiddenSteps
    <3>4. QED
      BY <1>3, <1>4, <1>6, <3>2, <3>3 DEF ToyKnows, Right, List
  <2>4. CASE last.type = "list_dir"
    <3>1. n = m /\ m.seen = {} /\ seen = HiddenListing
      BY <1>3, <1>6, <2>4 DEF ToyKnows
    <3>2. FilesSeen = {1, 2, 3} /\ left = {1, 2, 3}
      <4>1. DOMAIN Here.listing = {1, 2, 3}
        BY <2>2
      <4>2. \A i \in {1, 2, 3} : Here.listing[i] \in HiddenListing
        BY <2>2 DEF HiddenListing
      <4>3. FilesSeen = {1, 2, 3}
        BY <3>1, <4>1, <4>2 DEF FilesSeen
      <4>4. QED
        BY <3>1, <4>3
    <3>3. first = ".config"
      <4>1. Earliest({1, 2, 3}) \in {1, 2, 3} /\ Earliest({1, 2, 3}) <= 1
        BY EarliestIsFirst
      <4>2. QED
        BY <2>2, <3>2, <4>1
    <3>4. next.action = Read(".config")
      BY <1>2, <2>4, <3>2, <3>3 DEF Answers, Move
    <3>5. reply'.ok
      BY <1>6, <3>4, HiddenSteps
    <3>6. QED
      BY <1>3, <1>4, <1>6, <3>4, <3>5 DEF ToyKnows, Right, Read
  <2>5. CASE last.type = "read_file" /\ last.path = ".config"
    <3>1. next.action = Extract(".config", "API_KEY")
      BY <1>2, <1>3, <1>6, <2>5 DEF ToyKnows, Answers, Move
    <3>2. reply'.ok /\ reply'.value = "correct"
      BY <1>6, <3>1, HiddenSteps
    <3>3. QED
      BY <1>3, <1>4, <1>6, <3>1, <3>2 DEF ToyKnows, Right, Extract
  <2>6. CASE last.type = "extract_value" /\ reply.value = "correct"
    <3>1. next.action = Deliver("API_KEY", <<"correct">>)
      BY <1>2, <1>3, <1>6, <2>6 DEF ToyKnows, Answers, Move
    <3>2. Right(next.action)
      BY <1>6, <2>1, <3>1, NamesAre DEF Right, Deliver
    <3>3. over' = "success"
      BY <3>1, <3>2, RightSucceeds DEF Deliver
    <3>4. QED
      BY <1>3, <1>4, <1>6, <3>1, <3>2, <3>3 DEF ToyKnows
  <2>7. QED
    BY <1>3, <1>6, <2>3, <2>4, <2>5, <2>6 DEF ToyKnows
<1>7. QED
  BY <1>5, <1>6

LEMMA NaiveIsRight ==
  ASSUME Told, ExtractIsLine, task \in FileTaskNames, last.type # "set_output",
         NEW m, NaiveKnows(m), NEW next, next = NaiveActs(m), Perform(next.action)
  PROVE  Right(next.action) /\ NaiveKnows(next.memory)'
<1> DEFINE n == NaiveLearns(m)
           fields == {"files", "cached", "value", "retry"}
<1>1. fields \subseteq DOMAIN n
  BY DEF NaiveKnows, NaiveLearns
<1>2. over = "no" /\ last' = next.action /\ task' = task
  BY PerformMeans
<1>3. fields \subseteq DOMAIN next.memory /\ next.memory.value = n.value
  BY <1>1 DEF NaiveActs, NaiveChooses, Move
<1>4. CASE task # "hidden"
  <2>1. ~Answers("extract_value")
    BY <1>4, NothingThere DEF NaiveKnows, Answers
  <2>2. n.value = None
    BY <1>4, <2>1 DEF NaiveKnows, NaiveLearns
  <2>3. /\ next.action.type # "set_output"
        /\ next.action.type = "extract_value" => next.action.key = "ACCESS_TOKEN"
    BY <1>4, <2>2 DEF NaiveActs, NaiveChooses, NaiveKnows, NaiveKey, Move, Wait,
       List, Read, Extract
  <2>4. QED
    BY <1>2, <1>3, <1>4, <2>2, <2>3 DEF NaiveKnows, Right
<1>5. CASE task = "hidden"
  <2>1. Here.key = "API_KEY" /\ Here.answer = <<"correct">> /\ NaiveKey = "API_KEY"
    BY <1>5, AnswersAre DEF NaiveKey
  <2>2. Here.listing = <<".config", "config.example", "readme">>
    BY <1>5 DEF Here, World, FileTask, HiddenConfig
  <2>3. CASE last.type = "none"
    <3>1. n = m /\ m.files = <<>> /\ m.cached = None /\ m.value = None /\ reply.ok
      BY <1>2, <1>5, <2>3 DEF NaiveKnows, NaiveLearns, Answers
    <3>2. next.action = List /\ next.memory = m
      BY <2>3, <3>1 DEF NaiveActs, NaiveChooses, Answers, Move
    <3>3. reply'.ok
      BY <1>5, <3>2, HiddenSteps
    <3>4. QED
      BY <1>2, <1>3, <1>5, <3>1, <3>2, <3>3 DEF NaiveKnows, Right, List
  <2>4. CASE last.type = "list_dir"
    <3>1. n = [m EXCEPT !.files = Here.listing] /\ reply.ok
          /\ m.cached = None /\ m.value = None
      BY <1>2, <1>5, <2>4 DEF NaiveKnows, NaiveLearns, Answers
    <3>2. n.files = Here.listing /\ n.cached = None /\ n.value = None
      BY <3>1 DEF NaiveKnows
    <3>3. Here.listing # <<>> /\ Head(Here.listing) = ".config"
      BY <2>2
    <3>4. next.action = Read(".config")
      BY <2>4, <3>1, <3>2, <3>3 DEF NaiveActs, NaiveChooses, Answers, Move
    <3>5. reply'.ok
      BY <1>5, <3>4, HiddenSteps
    <3>6. QED
      BY <1>2, <1>3, <1>5, <3>2, <3>4, <3>5 DEF NaiveKnows, Right, Read
  <2>5. CASE last.type = "read_file" /\ last.path = ".config"
    <3>1. n.cached = ".config" /\ n.value = None /\ reply.ok
      BY <1>2, <1>5, <2>5 DEF NaiveKnows, NaiveLearns, Answers
    <3>2. next.action = Extract(".config", "API_KEY")
      BY <2>1, <2>5, <3>1 DEF NaiveActs, NaiveChooses, Answers, Move, None
    <3>3. reply'.ok /\ reply'.value = "correct"
      BY <1>5, <3>2, HiddenSteps
    <3>4. QED
      BY <1>2, <1>3, <1>5, <3>2, <3>3 DEF NaiveKnows, Right, Extract
  <2>6. CASE last.type = "extract_value" /\ reply.value = "correct"
    <3>1. n.value = "correct" /\ reply.ok
      BY <1>2, <1>5, <2>6 DEF NaiveKnows, NaiveLearns, Answers
    <3>2. next.action = Deliver("API_KEY", <<"correct">>)
      BY <2>1, <2>6, <3>1 DEF NaiveActs, NaiveChooses, Answers, Move, None
    <3>3. Right(next.action)
      BY <1>5, <2>1, <3>2, NamesAre DEF Right, Deliver
    <3>4. over' = "success"
      BY <3>2, <3>3, RightSucceeds DEF Deliver
    <3>5. QED
      BY <1>2, <1>3, <1>5, <3>2, <3>3, <3>4 DEF NaiveKnows
  <2>7. QED
    BY <1>2, <1>5, <2>3, <2>4, <2>5, <2>6 DEF NaiveKnows
<1>6. QED
  BY <1>4, <1>5

LEMMA AuditorIsRight ==
  ASSUME Told, ExtractIsLine, task \in FileTaskNames, last.type # "set_output",
         NEW m, AuditorKnows(m), NEW next, next = AuditorActs(m), Perform(next.action)
  PROVE  Right(next.action) /\ AuditorKnows(next.memory)'
<1> DEFINE n == AuditorLearns(m)
           fields == {"read", "target", "issue", "audit", "pending", "submitted"}
<1>1. fields \subseteq DOMAIN n
  BY DEF AuditorKnows, AuditorLearns
<1>2. last' = next.action /\ task' = task /\ Here' = Here
  BY PerformMeans
<1>3. n.target # None => task = "auditor" /\ n.target = Here.key
  <2>1. Answers("read_file") /\ last.path = "audit_scope" =>
          task = "auditor" /\ Starting("audit_scope", "TARGET_KEY") = Here.key
    BY TargetIsKey DEF Told, LastWasHonest, ReadIsThere
  <2>2. QED
    BY <2>1 DEF AuditorKnows, AuditorLearns
<1>4. task = "auditor" => n.issue \in {None, "issue"} /\ n.audit \in {None, "audit"}
  <2>1. ASSUME task = "auditor", Answers("extract_value")
        PROVE  /\ last.key = "ISSUE_ID" => reply.value = "issue"
               /\ last.key = "AUDIT_CODE" => reply.value = "audit"
    <3>1. last.path \in DOMAIN Here.files
      BY <2>1 DEF Answers, Told, LastWasHonest, Honest, ReadIsThere
    <3>2. Here.files[last.path] = AuditorText(last.path)
      BY <2>1, <3>1, FilesAre
    <3>3. QED
      BY <2>1, <3>2, MoreKeysOf DEF ExtractIsLine
  <2>2. Answers("extract_value") => m.pending = last.key
    BY DEF Answers, AuditorKnows
  <2>3. QED
    BY <2>1, <2>2 DEF AuditorKnows, AuditorLearns
<1> HIDE DEF n
<1>5. next.action.type = "set_output" =>
        /\ None \notin {n.issue, n.audit, n.target}
        /\ next.action = Deliver(n.target, <<n.issue, n.audit>>)
  BY DEF AuditorActs, AuditorChooses, Move, Wait, Read, Extract, n
<1>6. Right(next.action)
  <2>1. SUFFICES ASSUME next.action.type = "set_output" PROVE Right(next.action)
    BY DEF Right
  <2>2. task = "auditor" /\ n.target = Here.key /\ n.issue = "issue"
            /\ n.audit = "audit"
    BY <1>3, <1>4, <1>5, <2>1
  <2>3. Here.answer = <<"issue", "audit">>
    BY <2>2, AnswersAre
  <2>4. QED
    BY <1>5, <2>1, <2>2, <2>3 DEF Right, Deliver
<1>7. /\ fields \subseteq DOMAIN next.memory
      /\ next.memory.target = n.target
      /\ next.memory.issue = n.issue /\ next.memory.audit = n.audit
      /\ next.action.type = "extract_value" => next.memory.pending = next.action.key
  BY <1>1 DEF AuditorActs, AuditorChooses, Move, Wait, Read, Extract, Deliver, n
<1>8. QED
  BY <1>2, <1>3, <1>4, <1>6, <1>7 DEF AuditorKnows

LEMMA RolesAreRight ==
  ASSUME Told, ExtractIsLine, task \in FileTaskNames, last.type # "set_output",
         NEW m, RolesKnow(m), NEW next, next = RolesAct(m), Perform(next.action)
  PROVE  Right(next.action) /\ RolesKnow(next.memory)'
<1> DEFINE b == Observes(m)
           fields == {"target", "tokens", "format", "role"}
           told == [i \in DOMAIN Wanted(b) |->
                      CHOOSE v \in TokenOf(b, Wanted(b)[i]) : TRUE]
<1>1. task' = task /\ Here' = Here
  BY PerformMeans
<1>2. RolesKnow(ReconObserves(m))
  <2>1. ReadLast("README") =>
          task # "hidden" /\ Starting("README", "TARGET_KEY") = Here.key
    BY TargetIsKey DEF ReadLast, Answers, Told, LastWasHonest, ReadIsThere
  <2>2. QED
    BY <2>1 DEF RolesKnow, ReconObserves
<1>3. ASSUME NEW c, RolesKnow(c), Answers("read_file"), NEW t \in TokensIn(c, last.path)
      PROVE  /\ t.key \notin {"ANALYST_TOKEN", "MANAGER_TOKEN"}
             /\ task # "hidden" /\ t.key = Here.key => Here.answer = <<t.value>>
  <2> DEFINE file == Here.files[last.path]
  <2>1. last.path \in DOMAIN Here.files
    BY <1>3 DEF Told, LastWasHonest, ReadIsThere
  <2>2. PICK i \in DOMAIN file :
          /\ t = [key |-> file[i].key, value |-> file[i].value]
          /\ file[i].key = c.target \/ file[i].at = "start"
    BY <1>3 DEF TokensIn
  <2>3. c.target \notin {"ANALYST_TOKEN", "MANAGER_TOKEN"}
    BY <1>3, AnswersAre, NamesAre DEF RolesKnow, None
  <2>4. t.key \notin {"ANALYST_TOKEN", "MANAGER_TOKEN"}
    BY <2>1, <2>2, <2>3, NoTokenAtStart
  <2>5. task # "hidden" /\ t.key = Here.key => Here.answer = <<t.value>>
    BY <2>1, <2>2, KeyLineIsAnswer
  <2>6. QED
    BY <2>4, <2>5
<1>4. RolesKnow(ExecutorObserves(ReconObserves(m)))
  <2> DEFINE c == ReconObserves(m)
  <2> HIDE DEF c
  <2>1. RolesKnow(c) => RolesKnow(ExecutorObserves(c))
    BY <1>3 DEF RolesKnow, ExecutorObserves
  <2>2. QED
    BY <1>2, <2>1 DEF c
<1>5. RolesKnow(b)
  BY <1>4 DEF RolesKnow, Observes, Handoff
<1> HIDE DEF b
<1>6. CanEmit(b) => b.target = Here.key /\ told = Here.answer
  <2>1. SUFFICES ASSUME CanEmit(b) PROVE b.target = Here.key /\ told = Here.answer
    OBVIOUS
  <2>2. \A k : TokenOf(b, k) # {} => k \notin {"ANALYST_TOKEN", "MANAGER_TOKEN"}
    BY <1>5 DEF TokenOf, RolesKnow
  <2>3. Wanted(b) = <<b.target>>
    <3>1. \A i \in DOMAIN Wanted(b) :
              Wanted(b)[i] \notin {"ANALYST_TOKEN", "MANAGER_TOKEN"}
      BY <2>1, <2>2 DEF CanEmit
    <3>2. \/ Wanted(b) = <<"ANALYST_TOKEN", "MANAGER_TOKEN">>
          \/ Wanted(b) = <<"MANAGER_TOKEN", "ANALYST_TOKEN">>
          \/ Wanted(b) = <<b.target>>
      BY DEF Wanted
    <3>3. Wanted(b) # <<"ANALYST_TOKEN", "MANAGER_TOKEN">>
          /\ Wanted(b) # <<"MANAGER_TOKEN", "ANALYST_TOKEN">>
      BY <3>1
    <3>4. QED
      BY <3>2, <3>3
  <2>4. b.target = Here.key /\ task # "hidden"
    BY <1>5, <2>1 DEF CanEmit, RolesKnow
  <2>5. TokenOf(b, Here.key) # {}
    BY <2>1, <2>3, <2>4 DEF CanEmit
  <2>6. \A v \in TokenOf(b, Here.key) : Here.answer = <<v>>
    BY <1>5, <2>4 DEF TokenOf, RolesKnow
  <2>7. told = <<CHOOSE v \in TokenOf(b, Here.key) : TRUE>>
    BY <2>3, <2>4
  <2>8. QED
    BY <2>4, <2>5, <2>6, <2>7
<1>7. Right(ReconActs(b).action) /\ RolesKnow(ReconActs(b).memory)
  BY <1>5 DEF ReconActs, Move, Wait, List, Read, Right
<1>8. Right(ExecutorActs(b).action) /\ RolesKnow(ExecutorActs(b).memory)
  <2>1. RolesKnow(ExecutorActs(b).memory)
    BY <1>5 DEF ExecutorActs, RolesKnow, Move
  <2>2. ExecutorActs(b).action.type = "set_output" =>
          CanEmit(b) /\ ExecutorActs(b).action = Deliver(b.target, told)
    BY DEF ExecutorActs, Move, Wait, Read
  <2> HIDE DEF told
  <2>3. QED
    BY <1>6, <2>1, <2>2 DEF Right, Deliver
<1>9. Right(next.action) /\ RolesKnow(next.memory)
  BY <1>7, <1>8 DEF RolesAct, RolesKnow, Move, Right, b
<1>10. QED
  BY <1>1, <1>9 DEF RolesKnow

-----------------------------------------------------------------------------
\* Sequences joined and extended, from their lengths and elements.
LEMMA JoinedIs ==
  ASSUME NEW S, NEW s \in Seq(S), NEW t \in Seq(S), NEW u \in Seq(S),
         Len(u) = Len(s) + Len(t),
         \A i \in 1 .. Len(s) : u[i] = s[i],
         \A i \in 1 .. Len(t) : u[Len(s) + i] = t[i]
  PROVE  s \o t = u
<1>1. Len(s \o t) = Len(u) /\ s \o t \in Seq(S)
  OBVIOUS
<1>2. ASSUME NEW i \in 1 .. Len(u)
      PROVE  (s \o t)[i] = u[i]
  <2>1. CASE i <= Len(s)
    BY <2>1
  <2>2. CASE i > Len(s)
    <3>1. i - Len(s) \in 1 .. Len(t) /\ i = Len(s) + (i - Len(s))
      BY <2>2
    <3>2. QED
      BY <2>2, <3>1
  <2>3. QED
    BY <2>1, <2>2
<1>3. QED
  BY <1>1, <1>2

LEMMA ExtendedIs ==
  ASSUME NEW S, NEW s \in Seq(S), NEW e \in S, NEW u \in Seq(S),
         Len(u) = Len(s) + 1, \A i \in 1 .. Len(s) : u[i] = s[i], u[Len(s) + 1] = e
  PROVE  Append(s, e) = u
<1>1. /\ <<e>> \in Seq(S) /\ Len(<<e>>) = 1
      /\ \A i \in 1 .. Len(<<e>>) : u[Len(s) + i] = <<e>>[i]
  OBVIOUS
<1>2. s \o <<e>> = u
  BY <1>1, JoinedIs
<1>3. QED
  BY <1>2, AppendIsConcat

LEMMA TwoAndThree ==
  ASSUME NEW s, NEW t, NEW a, NEW b, NEW c, NEW d, NEW e,
         s = <<a, b>>, t = <<c, d, e>>
  PROVE  s \o t = <<a, b, c, d, e>>
<1> DEFINE S == {a, b, c, d, e}
           u == <<a, b, c, d, e>>
<1>1. s \in Seq(S) /\ Len(s) = 2
  OBVIOUS
<1>2. t \in Seq(S) /\ Len(t) = 3
  OBVIOUS
<1>3. u \in Seq(S) /\ Len(u) = 5
  OBVIOUS
<1>4. \A i \in 1 .. 2 : u[i] = s[i]
  OBVIOUS
<1>5. \A i \in 1 .. 3 : u[2 + i] = t[i]
  OBVIOUS
<1> HIDE DEF S, u
<1>6. /\ Len(u) = Len(s) + Len(t)
      /\ \A i \in 1 .. Len(s) : u[i] = s[i]
      /\ \A i \in 1 .. Len(t) : u[Len(s) + i] = t[i]
  BY <1>1, <1>2, <1>3, <1>4, <1>5
<1>7. s \o t = u
  BY <1>1, <1>2, <1>3, <1>6, JoinedIs
<1>8. QED
  BY <1>7 DEF u

LEMMA ThreeAndTwo ==
  ASSUME NEW s, NEW t, NEW a, NEW b, NEW c, NEW d, NEW e,
         s = <<a, b, c>>, t = <<d, e>>
  PROVE  s \o t = <<a, b, c, d, e>>
<1> DEFINE S == {a, b, c, d, e}
           u == <<a, b, c, d, e>>
<1>1. s \in Seq(S) /\ Len(s) = 3
  OBVIOUS
<1>2. t \in Seq(S) /\ Len(t) = 2
  OBVIOUS
<1>3. u \in Seq(S) /\ Len(u) = 5
  OBVIOUS
<1>4. \A i \in 1 .. 3 : u[i] = s[i]
  OBVIOUS
<1>5. \A i \in 1 .. 2 : u[3 + i] = t[i]
  OBVIOUS
<1> HIDE DEF S, u
<1>6. /\ Len(u) = Len(s) + Len(t)
      /\ \A i \in 1 .. Len(s) : u[i] = s[i]
      /\ \A i \in 1 .. Len(t) : u[Len(s) + i] = t[i]
  BY <1>1, <1>2, <1>3, <1>4, <1>5
<1>7. s \o t = u
  BY <1>1, <1>2, <1>3, <1>6, JoinedIs
<1>8. QED
  BY <1>7 DEF u

LEMMA FiveAndThree ==
  ASSUME NEW s, NEW t, NEW a, NEW b, NEW c, NEW d, NEW e, NEW f, NEW g, NEW h,
         s = <<a, b, c, d, e>>, t = <<f, g, h>>
  PROVE  s \o t = <<a, b, c, d, e, f, g, h>>
<1> DEFINE S == {a, b, c, d, e, f, g, h}
           u == <<a, b, c, d, e, f, g, h>>
<1>1. s \in Seq(S) /\ Len(s) = 5
  OBVIOUS
<1>2. t \in Seq(S) /\ Len(t) = 3
  OBVIOUS
<1>3. u \in Seq(S) /\ Len(u) = 8
  OBVIOUS
<1>4. \A i \in 1 .. 5 : u[i] = s[i]
  OBVIOUS
<1>5. \A i \in 1 .. 3 : u[5 + i] = t[i]
  OBVIOUS
<1> HIDE DEF S, u
<1>6. /\ Len(u) = Len(s) + Len(t)
      /\ \A i \in 1 .. Len(s) : u[i] = s[i]
      /\ \A i \in 1 .. Len(t) : u[Len(s) + i] = t[i]
  BY <1>1, <1>2, <1>3, <1>4, <1>5
<1>7. s \o t = u
  BY <1>1, <1>2, <1>3, <1>6, JoinedIs
<1>8. QED
  BY <1>7 DEF u

LEMMA OneMore ==
  ASSUME NEW s, NEW a, NEW b, s = <<a>>
  PROVE  Append(s, b) = <<a, b>>
<1> DEFINE S == {a, b}
           u == <<a, b>>
<1>1. s \in Seq(S) /\ Len(s) = 1 /\ b \in S
  OBVIOUS
<1>2. u \in Seq(S) /\ Len(u) = 2 /\ u[2] = b /\ \A i \in 1 .. 1 : u[i] = s[i]
  OBVIOUS
<1> HIDE DEF S, u
<1>3. Len(u) = Len(s) + 1 /\ (\A i \in 1 .. Len(s) : u[i] = s[i]) /\ u[Len(s) + 1] = b
  BY <1>1, <1>2
<1>4. Append(s, b) = u
  BY <1>1, <1>2, <1>3, ExtendedIs
<1>5. QED
  BY <1>4 DEF u

LEMMA TwoMore ==
  ASSUME NEW s, NEW a, NEW b, NEW c, s = <<a, b>>
  PROVE  Append(s, c) = <<a, b, c>>
<1> DEFINE S == {a, b, c}
           u == <<a, b, c>>
<1>1. s \in Seq(S) /\ Len(s) = 2 /\ c \in S
  OBVIOUS
<1>2. u \in Seq(S) /\ Len(u) = 3 /\ u[3] = c /\ \A i \in 1 .. 2 : u[i] = s[i]
  OBVIOUS
<1> HIDE DEF S, u
<1>3. Len(u) = Len(s) + 1 /\ (\A i \in 1 .. Len(s) : u[i] = s[i]) /\ u[Len(s) + 1] = c
  BY <1>1, <1>2
<1>4. Append(s, c) = u
  BY <1>1, <1>2, <1>3, ExtendedIs
<1>5. QED
  BY <1>4 DEF u

-----------------------------------------------------------------------------
LEMMA RunbookPieces ==
  ASSUME task = "runbook"
  PROVE  /\ Indexed = Phases
         /\ Starting("phase_1", "PHASE_CODE") = "code_1"
         /\ Starting("phase_2", "PHASE_CODE") = "code_2"
         /\ Starting("phase_3", "PHASE_CODE") = "code_3"
         /\ Starting("timeline", "ACK_ID") = "ack"
         /\ Starting("handoff", "HANDOFF_TOKEN") = "handoff"
<1>1. task \in FileTaskNames
  BY NamesAre
<1>2. {"phase_1", "phase_2", "phase_3", "timeline", "handoff", "runbook_index"}
        \subseteq DOMAIN Here.files
  BY PathsAre
<1>3. \A f \in DOMAIN Here.files :
        Here.files[f] = RunbookText(f) /\ \A j \in DOMAIN Here.files[f] : 1 <= j
  BY <1>1, FilesAre, PlacesBounded
<1>4. /\ RunbookText("phase_1") = <<Line("PHASE_CODE", "code_1"), Line("NEXT", "phase_2")>>
      /\ RunbookText("phase_2") = <<Line("PHASE_CODE", "code_2"), Line("NEXT", "phase_3")>>
      /\ RunbookText("phase_3") = <<Line("PHASE_CODE", "code_3")>>
      /\ RunbookText("timeline") = <<Line("ACK_ID", "ack")>>
      /\ RunbookText("handoff") = <<Line("HANDOFF_TOKEN", "handoff")>>
  BY DEF RunbookText
<1>5. ASSUME NEW f \in DOMAIN Here.files, NEW key, NEW v,
             1 \in DOMAIN RunbookText(f), RunbookText(f)[1] = Line(key, v)
      PROVE  Starting(f, key) = v
  BY <1>1, <1>3, <1>5, LineStarts
<1>6. /\ Starting("phase_1", "PHASE_CODE") = "code_1"
      /\ Starting("phase_2", "PHASE_CODE") = "code_2"
      /\ Starting("phase_3", "PHASE_CODE") = "code_3"
  BY <1>2, <1>4, <1>5
<1>7. /\ Starting("timeline", "ACK_ID") = "ack"
      /\ Starting("handoff", "HANDOFF_TOKEN") = "handoff"
  BY <1>2, <1>4, <1>5
<1>8. Indexed = Phases
  <2> DEFINE index == Here.files["runbook_index"]
  <2>1. index = <<Line("PHASE_1_PATH", "phase_1"), Line("PHASE_2_PATH", "phase_2"),
                  Line("PHASE_3_PATH", "phase_3")>>
    <3>1. index = RunbookText("runbook_index")
      BY <1>2, <1>3
    <3>2. QED
      BY <3>1 DEF RunbookText
  <2>2. DOMAIN index = {1, 2, 3}
    BY <2>1
  <2>3. /\ index[1] = Line("PHASE_1_PATH", "phase_1")
        /\ index[2] = Line("PHASE_2_PATH", "phase_2")
        /\ index[3] = Line("PHASE_3_PATH", "phase_3")
    BY <2>1
  <2> HIDE DEF index
  <2>4. /\ \A j \in DOMAIN index : index[j].key = "PHASE_1_PATH" => 1 <= j
        /\ \A j \in DOMAIN index : index[j].key = "PHASE_2_PATH" => 2 <= j
        /\ \A j \in DOMAIN index : index[j].key = "PHASE_3_PATH" => 3 <= j
    BY <2>2, <2>3 DEF Line
  <2>5. Starting("runbook_index", "PHASE_1_PATH") = "phase_1"
    BY <1>1, <1>2, <2>2, <2>3, <2>4, LineStarts DEF index
  <2>6. Starting("runbook_index", "PHASE_2_PATH") = "phase_2"
    BY <1>1, <1>2, <2>2, <2>3, <2>4, LineStarts DEF index
  <2>7. Starting("runbook_index", "PHASE_3_PATH") = "phase_3"
    BY <1>1, <1>2, <2>2, <2>3, <2>4, LineStarts DEF index
  <2>8. QED
    BY <2>5, <2>6, <2>7 DEF Indexed, Phases
<1>9. QED
  BY <1>6, <1>7, <1>8

LEMMA PlanIs ==
  ASSUME NEW m, RunbookHolds(m)
  PROVE  Plan(m) = IF "runbook_index" \in m.read
                     THEN <<"README", "runbook_index", "phase_1", "phase_2", "phase_3",
                            "timeline", "handoff", "sequence">>
                     ELSE <<"README", "runbook_index", "timeline", "handoff", "sequence">>
<1> DEFINE before == <<"README", "runbook_index">>
           after == <<"timeline", "handoff", "sequence">>
<1>0. /\ before = <<"README", "runbook_index">>
      /\ after = <<"timeline", "handoff", "sequence">>
      /\ Plan(m) = (before \o m.phases) \o after
  BY DEF Plan
<1> DEFINE first == before \o m.phases
<1> HIDE DEF before, after
<1>1. CASE "runbook_index" \in m.read
  <2>1. m.phases = <<"phase_1", "phase_2", "phase_3">>
    BY <1>1 DEF RunbookHolds, Phases
  <2>2. first
          = <<"README", "runbook_index", "phase_1", "phase_2", "phase_3">>
    BY <1>0, <2>1, TwoAndThree
  <2> HIDE DEF first
  <2>3. first \o after
          = <<"README", "runbook_index", "phase_1", "phase_2", "phase_3",
              "timeline", "handoff", "sequence">>
    BY <1>0, <2>2, FiveAndThree
  <2>4. QED
    BY <1>0, <1>1, <2>3 DEF first
<1>2. CASE "runbook_index" \notin m.read
  <2>1. m.phases = <<>>
    BY <1>2 DEF RunbookHolds
  <2>2. first = <<"README", "runbook_index">>
    BY <1>0, <2>1
  <2> HIDE DEF first
  <2>3. first \o after
          = <<"README", "runbook_index", "timeline", "handoff", "sequence">>
    BY <1>0, <2>2, TwoAndThree
  <2>4. QED
    BY <1>0, <1>2, <2>3 DEF first
<1>3. QED
  BY <1>1, <1>2

\* The agent reads what comes next, and delivers when nothing is left.
LEMMA UnreadIsNext ==
  ASSUME NEW m, RunbookHolds(m)
  PROVE  /\ Unread(m) # {} => NextToRead(m, Plan(m)[Earliest(Unread(m))])
         /\ Unread(m) = {} =>
              {"runbook_index", "phase_3", "timeline", "handoff"} \subseteq m.read
<1> DEFINE plan == Plan(m)
           left == Unread(m)
<1>1. \/ plan = <<"README", "runbook_index", "timeline", "handoff", "sequence">>
      \/ /\ "runbook_index" \in m.read
         /\ plan = <<"README", "runbook_index", "phase_1", "phase_2", "phase_3",
                      "timeline", "handoff", "sequence">>
  BY PlanIs
<1>2. DOMAIN plan \in SUBSET (1 .. 8) /\ left \in SUBSET DOMAIN plan
  BY <1>1 DEF Unread
<1> HIDE DEF plan, left
<1>3. ASSUME left # {}
      PROVE  NextToRead(m, plan[Earliest(left)])
  <2>1. left \in SUBSET Nat
    BY <1>2
  <2>2. Earliest(left) \in left /\ \A j \in left : Earliest(left) <= j
    BY <1>3, <2>1, EarliestIsFirst
  <2>3. Earliest(left) \in DOMAIN plan /\ plan[Earliest(left)] \notin m.read
    BY <1>2, <2>2 DEF left, plan, Unread
  <2>4. \A j \in DOMAIN plan : ~(Earliest(left) <= j) => plan[j] \in m.read
    BY <2>2 DEF left, plan, Unread
  <2>5. QED
    BY <1>1, <2>3, <2>4 DEF NextToRead
<1>4. ASSUME left = {}
      PROVE  {"runbook_index", "phase_3", "timeline", "handoff"} \subseteq m.read
  <2>1. \A j \in DOMAIN plan : plan[j] \in m.read
    BY <1>4 DEF left, plan, Unread
  <2>2. "runbook_index" \in m.read
    BY <1>1, <2>1
  <2>3. plan = <<"README", "runbook_index", "phase_1", "phase_2", "phase_3",
                 "timeline", "handoff", "sequence">>
    BY <2>2, PlanIs DEF plan
  <2>4. QED
    BY <2>1, <2>3
<1>5. QED
  BY <1>3, <1>4 DEF plan, left

LEMMA RunbookLearnsHolds ==
  ASSUME Told, NEW m, RunbookKnows(m)
  PROVE  RunbookHolds(RunbookLearns(m))
<1> DEFINE n == RunbookLearns(m)
<1>1. task = "runbook" /\ RunbookHolds(m)
  BY DEF RunbookKnows
<1>2. CASE ~Answers("read_file")
  BY <1>1, <1>2 DEF RunbookLearns
<1>3. ASSUME Answers("read_file")
      PROVE  RunbookHolds(n)
  <2> DEFINE path == last.path
             k == [m EXCEPT !.read = @ \cup {path}]
  <2>1. NextToRead(m, path)
    BY <1>3 DEF RunbookKnows, Answers
  <2>2. InPhases(m, path) <=>
          "runbook_index" \in m.read /\ path \in {"phase_1", "phase_2", "phase_3"}
    BY <1>1 DEF InPhases, RunbookHolds, Phases
  <2>3. CASE path = "README"
    <3>1. Starting("README", "TARGET_KEY") = Here.key
      BY <1>1, <2>3, TargetIsKey, NamesAre, PathsAre
    <3>2. n = [k EXCEPT !.target = Here.key]
      BY <1>3, <2>2, <2>3, <3>1 DEF RunbookLearns
    <3>3. QED
      BY <1>1, <2>3, <3>2 DEF RunbookHolds, Codes
  <2>4. CASE path = "runbook_index"
    <3>1. n = [k EXCEPT !.phases = Phases]
      BY <1>1, <1>3, <2>2, <2>4, RunbookPieces DEF RunbookLearns
    <3>2. QED
      BY <1>1, <2>4, <3>1 DEF RunbookHolds, Codes
  <2>5. CASE path = "phase_1"
    <3>1. n = [k EXCEPT !.codes = Append(@, "code_1")]
      BY <1>1, <1>3, <2>1, <2>2, <2>5, RunbookPieces DEF RunbookLearns, NextToRead
    <3>2. m.codes = <<>> /\ "phase_1" \notin m.read
      BY <1>1, <2>1, <2>5 DEF RunbookHolds, NextToRead, Codes
    <3>3. n.codes = <<"code_1">>
      <4>1. n.codes = Append(m.codes, "code_1")
        BY <1>1, <3>1 DEF RunbookHolds
      <4>2. QED
        BY <3>2, <4>1
    <3>4. QED
      BY <1>1, <2>1, <2>5, <3>1, <3>2, <3>3 DEF RunbookHolds, Codes, NextToRead
  <2>6. CASE path = "phase_2"
    <3>1. n = [k EXCEPT !.codes = Append(@, "code_2")]
      BY <1>1, <1>3, <2>1, <2>2, <2>6, RunbookPieces
         DEF RunbookLearns, NextToRead, RunbookHolds
    <3>2. m.codes = <<"code_1">> /\ "phase_2" \notin m.read
      BY <1>1, <2>1, <2>6 DEF RunbookHolds, NextToRead, Codes
    <3>3. n.codes = <<"code_1", "code_2">>
      BY <1>1, <3>1, <3>2, OneMore DEF RunbookHolds
    <3>4. QED
      BY <1>1, <2>1, <2>6, <3>1, <3>2, <3>3 DEF RunbookHolds, Codes, NextToRead
  <2>7. CASE path = "phase_3"
    <3>1. n = [k EXCEPT !.codes = Append(@, "code_3")]
      BY <1>1, <1>3, <2>1, <2>2, <2>7, RunbookPieces
         DEF RunbookLearns, NextToRead, RunbookHolds
    <3>2. m.codes = <<"code_1", "code_2">> /\ "phase_3" \notin m.read
      BY <1>1, <2>1, <2>7 DEF RunbookHolds, NextToRead, Codes
    <3>3. n.codes = <<"code_1", "code_2", "code_3">>
      BY <1>1, <3>1, <3>2, TwoMore DEF RunbookHolds
    <3>4. QED
      BY <1>1, <2>1, <2>7, <3>1, <3>2, <3>3 DEF RunbookHolds, Codes, NextToRead
  <2>8. CASE path = "timeline"
    <3>1. n = [k EXCEPT !.ack = "ack"]
      BY <1>1, <1>3, <2>2, <2>8, RunbookPieces DEF RunbookLearns
    <3>2. QED
      BY <1>1, <2>8, <3>1 DEF RunbookHolds, Codes
  <2>9. CASE path = "handoff"
    <3>1. n = [k EXCEPT !.handoff = "handoff"]
      BY <1>1, <1>3, <2>2, <2>9, RunbookPieces DEF RunbookLearns
    <3>2. QED
      BY <1>1, <2>9, <3>1 DEF RunbookHolds, Codes
  <2>10. CASE path \notin {"README", "runbook_index", "phase_1", "phase_2", "phase_3",
                           "timeline", "handoff"}
    <3>1. n = k
      BY <1>3, <2>2, <2>10 DEF RunbookLearns
    <3>2. QED
      BY <1>1, <2>10, <3>1 DEF RunbookHolds, Codes
  <2>11. QED
    BY <2>3, <2>4, <2>5, <2>6, <2>7, <2>8, <2>9, <2>10
<1>4. QED
  BY <1>2, <1>3

LEMMA RunbookIsRight ==
  ASSUME Told, last.type # "set_output",
         NEW m, RunbookKnows(m), NEW next, next = RunbookActs(m), Perform(next.action)
  PROVE  Right(next.action) /\ RunbookKnows(next.memory)'
<1> DEFINE n == RunbookLearns(m)
           left == Unread(n)
<1>1. last' = next.action /\ task' = task /\ Here' = Here /\ task = "runbook"
  BY PerformMeans DEF RunbookKnows
<1>2. RunbookHolds(n)
  BY RunbookLearnsHolds
<1>3. RunbookHolds(next.memory) /\ next.memory.read = n.read
  BY <1>2 DEF RunbookActs, RunbookChooses, RunbookHolds, Codes, Move
<1>4. next.action.type = "read_file" => NextToRead(next.memory, next.action.path)
  <2>1. next.action.type = "read_file" =>
          left # {} /\ next.action.path = Plan(n)[Earliest(left)]
    BY DEF RunbookActs, RunbookChooses, Move, Wait, List, Read, Deliver
  <2>2. QED
    BY <1>2, <1>3, <2>1, UnreadIsNext DEF NextToRead
<1>5. Right(next.action)
  <2>1. SUFFICES ASSUME next.action.type = "set_output" PROVE Right(next.action)
    BY DEF Right
  <2>2. /\ left = {} /\ n.target # None
        /\ next.action = Deliver(n.target, n.codes \o <<n.ack, n.handoff>>)
    BY <2>1 DEF RunbookActs, RunbookChooses, Move, Wait, List, Read
  <2>3. n.codes = <<"code_1", "code_2", "code_3">> /\ n.ack = "ack"
        /\ n.handoff = "handoff" /\ n.target = Here.key
    BY <1>2, <2>2, UnreadIsNext DEF RunbookHolds, Codes
  <2> HIDE DEF n
  <2>4. n.codes \o <<n.ack, n.handoff>> = RunbookChecksum
    BY <2>3, ThreeAndTwo DEF RunbookChecksum
  <2>5. Here.answer = RunbookChecksum /\ task \in FileTaskNames
    BY <1>1, AnswersAre, NamesAre
  <2>6. QED
    BY <2>2, <2>3, <2>4, <2>5 DEF Right, Deliver
<1>6. QED
  BY <1>1, <1>3, <1>4, <1>5 DEF RunbookKnows, RunbookHolds, NextToRead, Codes

\* LogStreamMonitorAgent delivers what came with a page; DiceGameAgent and
\* CheaterSimAgent deliver nothing.
LEMMA StreamIsRight ==
  ASSUME Told, task = "stream", NEW m
  PROVE  Right(StreamActs(m).action)
<1>1. reply.value \in {"stream", None}
  BY DEF Told, Heard, Known
<1>2. StreamActs(m).action.type = "set_output" =>
        StreamActs(m).action = Deliver("STREAM_CODE", <<reply.value>>)
            /\ reply.value # None
  BY DEF StreamActs, Move, Wait, Deliver
<1>3. QED
  BY <1>1, <1>2 DEF Right, Deliver

LEMMA OthersDeliverNothing ==
  ASSUME NEW m
  PROVE  Right(DiceActs(m).action) /\ Right(CheaterActs(m).action)
BY DEF DiceActs, CheaterActs, Move, Right

LEMMA ReferencesAreRight ==
  ASSUME RightInv, player # "any", UNCHANGED player,
         NEW next, next = Acts(memory), Perform(next.action), memory' = next.memory
  PROVE  Right(next.action) /\ Knows(memory)'
<1>1. Told /\ ExtractIsLine /\ last.type # "set_output"
  BY PerformMeans DEF RightInv, ToldInv, FirstAnswerIsRight
<1>2. Knows(memory)
  BY DEF RightInv
<1>3. CASE player = "ops"
  <2>1. task \in FileTaskNames /\ next = OpsActs(memory) /\ OpsKnows(memory)
    BY <1>1, <1>2, <1>3 DEF Acts, Told, Setting, Knows
  <2>2. Right(next.action) /\ OpsKnows(next.memory)'
    BY <1>1, <2>1, OpsIsRight
  <2>3. QED
    BY <1>3, <2>2 DEF Knows
<1>4. CASE player = "toy"
  <2>1. task \in FileTaskNames /\ next = ToyActs(memory) /\ ToyKnows(memory)
    BY <1>1, <1>2, <1>4 DEF Acts, Told, Setting, Knows
  <2>2. Right(next.action) /\ ToyKnows(next.memory)'
    BY <1>1, <2>1, ToyIsRight
  <2>3. QED
    BY <1>4, <2>2 DEF Knows
<1>5. CASE player = "naive"
  <2>1. task \in FileTaskNames /\ next = NaiveActs(memory) /\ NaiveKnows(memory)
    BY <1>1, <1>2, <1>5 DEF Acts, Told, Setting, Knows
  <2>2. Right(next.action) /\ NaiveKnows(next.memory)'
    BY <1>1, <2>1, NaiveIsRight
  <2>3. QED
    BY <1>5, <2>2 DEF Knows
<1>6. CASE player = "auditor"
  <2>1. task \in FileTaskNames /\ next = AuditorActs(memory) /\ AuditorKnows(memory)
    BY <1>1, <1>2, <1>6 DEF Acts, Told, Setting, Knows
  <2>2. Right(next.action) /\ AuditorKnows(next.memory)'
    BY <1>1, <2>1, AuditorIsRight
  <2>3. QED
    BY <1>6, <2>2 DEF Knows
<1>7. CASE player = "runbook"
  <2>1. next = RunbookActs(memory) /\ RunbookKnows(memory)
    BY <1>2, <1>7 DEF Acts, Knows
  <2>2. Right(next.action) /\ RunbookKnows(next.memory)'
    BY <1>1, <2>1, RunbookIsRight
  <2>3. QED
    BY <1>7, <2>2 DEF Knows
<1>8. CASE player = "roles"
  <2>1. task \in FileTaskNames /\ next = RolesAct(memory) /\ RolesKnow(memory)
    BY <1>1, <1>2, <1>8 DEF Acts, Told, Setting, Knows
  <2>2. Right(next.action) /\ RolesKnow(next.memory)'
    BY <1>1, <2>1, RolesAreRight
  <2>3. QED
    BY <1>8, <2>2 DEF Knows
<1>9. CASE player = "stream"
  <2>1. task = "stream" /\ next = StreamActs(memory)
    BY <1>1, <1>9 DEF Acts, Told, Setting
  <2>2. Right(next.action)
    BY <1>1, <2>1, StreamIsRight
  <2>3. QED
    BY <1>9, <2>2 DEF Knows
<1>10. CASE player \in {"dice", "cheater"}
  <2>1. next \in {DiceActs(memory), CheaterActs(memory)}
    BY <1>10 DEF Acts
  <2>2. Right(next.action)
    BY <2>1, OthersDeliverNothing
  <2>3. QED
    BY <1>10, <2>2 DEF Knows
<1>11. QED
  BY <1>1, <1>3, <1>4, <1>5, <1>6, <1>7, <1>8, <1>9, <1>10 DEF Told, Setting, Blanks

-----------------------------------------------------------------------------

LEMMA RightInit == RunsInit => RightInv
<1> SUFFICES ASSUME RunsInit PROVE RightInv
  OBVIOUS
<1>1. ToldInv
  BY ToldInit
<1>2. FirstAnswerIsRight /\ ExtractIsLine
  BY DEF RunsInit, TaskInit, NoAction, FirstAnswerIsRight, ExtractIsLine, Answers
<1>3. memory = Blanks[player] /\ last.type = "none" /\ reply.ok /\ seen = Initially
  BY DEF RunsInit, TaskInit, NoAction, Good
<1>4. player = "ops" => OpsKnows(memory)
  BY <1>3 DEF Blanks, OpsBlank, OpsKnows
<1>5. player = "toy" => ToyKnows(memory)
  BY <1>3 DEF Blanks, ToyBlank, ToyKnows, Initially
<1>6. player = "naive" => NaiveKnows(memory)
  BY <1>3 DEF Blanks, NaiveBlank, NaiveKnows
<1>7. player = "auditor" => AuditorKnows(memory)
  BY <1>3 DEF Blanks, AuditorBlank, AuditorKnows
<1>8. player = "runbook" => RunbookKnows(memory)
  <2>1. RunbookHolds(RunbookBlank)
    BY DEF RunbookBlank, RunbookHolds, Codes
  <2>2. player = "runbook" => task = "runbook"
    BY DEF RunsInit, Plays
  <2>3. QED
    BY <1>3, <2>1, <2>2 DEF Blanks, RunbookKnows
<1>9. player = "roles" => RolesKnow(memory)
  BY <1>3 DEF Blanks, RolesBlank, RolesKnow
<1>10. QED
  BY <1>1, <1>2, <1>4, <1>5, <1>6, <1>7, <1>8, <1>9 DEF RightInv, Knows

LEMMA RightStep == RightInv /\ [RunsNext]_runVars => RightInv'
<1> SUFFICES ASSUME RightInv, [RunsNext]_runVars PROVE RightInv'
  OBVIOUS
<1>1. ToldInv /\ ToldInv'
  BY ToldStep DEF RightInv
<1>2. CASE ReferenceMoves
  <2>1. PICK next : next = Acts(memory)
    OBVIOUS
  <2>2. /\ player # "any" /\ UNCHANGED player /\ memory' = next.memory
        /\ Perform(next.action)
    BY <1>2, <2>1 DEF ReferenceMoves, Makes
  <2>3. Right(next.action) /\ Knows(memory)'
    BY <2>1, <2>2, ReferencesAreRight
  <2>4. Honest(next.action)
    BY <1>1, <2>1, <2>2, ReferencesAreHonest DEF ToldInv
  <2>5. ExtractIsLine'
    BY <1>1, <2>2, <2>4, ExtractTellsLine DEF ToldInv
  <2>6. FirstAnswerIsRight'
    <3>1. last' = next.action
      BY <2>2, PerformMeans
    <3>2. next.action.type = "set_output" => over' = "success"
      BY <1>1, <2>2, <2>3, RightSucceeds DEF ToldInv
    <3>3. QED
      BY <3>1, <3>2 DEF FirstAnswerIsRight
  <2>7. QED
    BY <1>1, <2>3, <2>5, <2>6 DEF RightInv
<1>3. CASE AnyMoves
  <2>1. player' = "any"
    BY <1>3 DEF AnyMoves
  <2>2. ExtractIsLine'
    BY <1>1, <1>3, AnyPerforms, ExtractTellsLine DEF ToldInv
  <2>3. QED
    BY <1>1, <2>1, <2>2 DEF RightInv, FirstAnswerIsRight, Knows
<1>4. CASE UNCHANGED runVars
  <2>1. /\ UNCHANGED <<task, over, last, reply, seen, player, memory>>
        /\ Here' = Here
    BY <1>4 DEF runVars, taskVars, Here
  <2>2. FirstAnswerIsRight' /\ ExtractIsLine'
    BY <2>1 DEF RightInv, FirstAnswerIsRight, ExtractIsLine, Answers
  <2>3. Knows(memory)'
    BY <2>1 DEF RightInv, Knows, OpsKnows, ToyKnows, NaiveKnows, AuditorKnows,
       RunbookKnows, RunbookHolds, Codes, NextToRead, RolesKnow
  <2>4. QED
    BY <1>1, <2>2, <2>3 DEF RightInv
<1>5. QED
  BY <1>2, <1>3, <1>4 DEF RunsNext

\* A reference agent's first answer is the right one, in every task it can be
\* set to (the agents of agents/ and the validators of the tasks).
THEOREM FirstAnswerIsRightCorrect == RunsSpec => []FirstAnswerIsRight
<1>1. RightInv => FirstAnswerIsRight
  BY DEF RightInv
<1>2. QED
  BY RightInit, RightStep, <1>1, PTL DEF RunsSpec

=============================================================================
