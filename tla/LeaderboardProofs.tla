--------------------------- MODULE LeaderboardProofs ---------------------------
(***************************************************************************)
(* Theorems of SessionStore and Archive, which Leaderboard composes, for   *)
(* every set of commands, of tools and of runs that an earlier version has *)
(* left.                                                                   *)
(***************************************************************************)
EXTENDS Leaderboard, FiniteSetTheorems, TLAPS

(***************************************************************************)
(* SessionInv is inductive: a command that updates the session has stored  *)
(* its run, or the user was warned, and what is stored stays (StageInv).   *)
(***************************************************************************)
LEMMA InitSession == Init => SessionInv
  BY SessionAssumption
  DEF Init, SessionInv, SuccessInv, SessionTypeOK, Unstarted, StageInv,
      SuccessIsSuccess, PointersResolve, Pointers, Stored, NoSession, Torn,
      File, SessionPointer, Runs, Places

-----------------------------------------------------------------------------
\* A file always holds a pointer of the right form.
LEMMA PointerTypes ==
  ASSUME SessionTypeOK
  PROVE  /\ session.pointer \in SessionPointer
         /\ \A p \in Pointers : p \in SessionPointer
         /\ NoSession \in SessionPointer /\ Torn \in File
         /\ LatestRunId \in Runs
BY DEF Pointers, SessionTypeOK, File, Torn, NoSession, SessionPointer, Runs,
       LatestRunId, LoadSession

\* What a command is about to save, after it has loaded the session.
LEMMA LoadedPointer ==
  ASSUME SessionTypeOK, NEW c \in Commands, Load(c)
  PROVE  \E new \in SessionPointer :
           /\ pointer' = [pointer EXCEPT ![c] = new]
           /\ session.pointer \in Pointers
           /\ Pointers' \subseteq Pointers \cup {new}
           /\ target[c] = NoRun =>
                /\ new.run = c
                /\ new.success \in {session.pointer.success} \cup
                     (IF episode[c] = "success" THEN {c} ELSE {})
                /\ new.bundle = session.pointer.bundle
           /\ target[c] # NoRun =>
                /\ new.run = session.pointer.run
                /\ new.success = session.pointer.success
                /\ new.bundle = target[c]
<1> DEFINE new == IF target[c] = NoRun THEN UpdatedByRun(c)
                                       ELSE UpdatedByBundle(c)
<1>1. /\ new \in SessionPointer
      /\ target[c] = NoRun =>
           /\ new.run = c
           /\ new.success \in {session.pointer.success} \cup
                (IF episode[c] = "success" THEN {c} ELSE {})
           /\ new.bundle = session.pointer.bundle
      /\ target[c] # NoRun =>
           /\ new.run = session.pointer.run
           /\ new.success = session.pointer.success
           /\ new.bundle = target[c]
  BY PointerTypes DEF UpdatedByRun, UpdatedByBundle, LoadSession,
     SessionPointer, Runs, SessionTypeOK
<1>2. pointer' = [pointer EXCEPT ![c] = new] /\ session' = session
  BY DEF Load
<1> HIDE DEF new
<1>3. /\ session.pointer \in Pointers
      /\ Pointers' \subseteq Pointers \cup {new}
  BY <1>2 DEF Pointers, SessionTypeOK
<1> QED BY <1>1, <1>2, <1>3

\* A step that adds no pointer but the empty one, and makes no success a
\* failure.
LEMMA SuccessKept ==
  ASSUME SessionTypeOK, SuccessIsSuccess,
         Pointers' \subseteq Pointers \cup {NoSession},
         \A c \in Commands : episode[c] = "success" => episode'[c] = "success"
  PROVE  SuccessIsSuccess'
BY PointerTypes DEF SuccessIsSuccess, NoSession, SessionPointer, Runs

LEMMA NextSuccess == SuccessInv /\ [Next]_vars => SuccessInv'
<1> SUFFICES ASSUME SuccessInv, [Next]_vars PROVE SuccessInv'
  OBVIOUS
<1> USE SessionAssumption DEF SuccessInv
<1>t. SessionTypeOK
  OBVIOUS
<1>1. ASSUME NEW c \in Commands, NEW ended \in {"success", "failure"},
             Run(c, ended)
      PROVE  SuccessInv'
  <2> USE <1>1 DEF Run, Go, Begun
  <2>1. SessionTypeOK' /\ Unstarted'
    BY DEF SessionTypeOK, Places, Unstarted
  <2>2. Pointers' = Pointers
    BY DEF Pointers
  <2>3. \A d \in Commands : episode[d] = "success" => episode'[d] = "success"
    BY DEF Unstarted, SessionTypeOK
  <2> QED BY <2>1, <2>2, <2>3, SuccessKept
<1>2. ASSUME NEW c \in Commands,
             OpenArtifact(c) \/ FillArtifact(c) \/ PersistFails(c)
      PROVE  SuccessInv'
  <2> USE <1>2 DEF OpenArtifact, FillArtifact, PersistFails, Go
  <2>1. SessionTypeOK'
    BY DEF SessionTypeOK, Places
  <2>2. Unstarted'
    BY DEF SessionTypeOK, Unstarted
  <2>3. Pointers' = Pointers /\ episode' = episode
    BY DEF Pointers
  <2> QED BY <2>1, <2>2, <2>3, SuccessKept
<1>3. ASSUME NEW c \in Commands, Seal(c)
      PROVE  SuccessInv'
  <2> USE <1>3 DEF Seal, Go, Begun
  <2>1. SessionTypeOK' /\ Unstarted'
    BY PointerTypes DEF SessionTypeOK, Places, Unstarted, Runs
  <2>2. Pointers' = Pointers /\ episode' = episode
    BY DEF Pointers
  <2> QED BY <2>1, <2>2, SuccessKept
<1>4. ASSUME NEW c \in Commands, Load(c)
      PROVE  SuccessInv'
  <2>1. PICK new \in SessionPointer :
          /\ pointer' = [pointer EXCEPT ![c] = new]
          /\ session.pointer \in Pointers
          /\ Pointers' \subseteq Pointers \cup {new}
          /\ new.success \in {session.pointer.success} \cup
               (IF episode[c] = "success" THEN {c} ELSE {})
    BY <1>4, LoadedPointer
  <2>2. SessionTypeOK' /\ Unstarted'
    BY <1>4, <2>1 DEF Load, Go, SessionTypeOK, Places, Unstarted
  <2>3. episode' = episode
    BY <1>4 DEF Load
  <2> QED BY <2>1, <2>2, <2>3 DEF SuccessIsSuccess
<1>5. ASSUME NEW c \in Commands, OpenSession(c) \/ FillSession(c)
      PROVE  SuccessInv'
  <2> USE <1>5 DEF OpenSession, FillSession, Go
  <2>1. \/ session' = [whole |-> TRUE, pointer |-> pointer[c]]
        \/ session' = Torn
    OBVIOUS
  <2>2. session' \in File
    <3>1. pointer[c] \in SessionPointer
      BY DEF SessionTypeOK
    <3>2. [whole |-> TRUE, pointer |-> pointer[c]] \in File
      BY <3>1 DEF File
    <3> QED BY <2>1, <3>2, PointerTypes
  <2>3. latest' \in SessionPointer
    <3>1. Concluded(c) \in SessionPointer
      BY <1>t DEF SessionTypeOK, SessionPointer, Runs, Concluded
    <3>2. latest' \in {latest, Concluded(c)}
      OBVIOUS
    <3> QED BY <3>1, <3>2 DEF SessionTypeOK
  <2>a. /\ at' \in [Commands -> Places]
        /\ \A d \in Commands : at'[d] = "idle" => at[d] = "idle"
        /\ UNCHANGED <<episode, artifact, warned, pointer, target, sealed,
                       quiet>>
    BY DEF SessionTypeOK, Places
  <2>4. SessionTypeOK' /\ Unstarted'
    BY <2>a, <2>2, <2>3 DEF SessionTypeOK, Unstarted
  <2>5. Pointers' \subseteq Pointers \cup {NoSession} /\ episode' = episode
    <3>1. session'.pointer \in {NoSession} \cup {pointer[d] : d \in Commands}
      BY <2>1 DEF Torn
    <3> QED BY <2>a, <3>1 DEF Pointers
  <2> QED BY <2>4, <2>5, SuccessKept
<1>6. ASSUME NEW c \in Commands, SaveFails(c) \/ Die(c)
      PROVE  SuccessInv'
  <2> USE <1>6 DEF SaveFails, Die, Go
  <2>1. SessionTypeOK' /\ Unstarted'
    BY DEF SessionTypeOK, Places, Unstarted
  <2>2. Pointers' = Pointers /\ episode' = episode
    BY DEF Pointers
  <2> QED BY <2>1, <2>2, SuccessKept
<1>7. CASE UNCHANGED vars
  BY <1>7 DEF vars, SessionTypeOK, Unstarted, SuccessIsSuccess, Pointers
<1> QED
  BY <1>1, <1>2, <1>3, <1>4, <1>5, <1>6, <1>7 DEF Next

-----------------------------------------------------------------------------
\* A step that adds no pointer but the empty one, and takes nothing out of
\* what the pointers refer to.
LEMMA PointersKept ==
  ASSUME SessionTypeOK, PointersResolve,
         Pointers' \subseteq Pointers \cup {NoSession},
         Stored \subseteq Stored', warned \subseteq warned',
         sealed \subseteq sealed'
  PROVE  PointersResolve'
BY PointerTypes DEF PointersResolve, NoSession, SessionPointer, Runs

LEMMA NextSession == SessionInv /\ [Next]_vars => SessionInv'
<1> SUFFICES ASSUME SessionInv, [Next]_vars
             PROVE  StageInv' /\ PointersResolve'
  BY NextSuccess DEF SessionInv
<1> USE SessionAssumption DEF SessionInv, SuccessInv
<1>t. SessionTypeOK
  OBVIOUS
<1>1. ASSUME NEW c \in Commands, NEW ended \in {"success", "failure"},
             Run(c, ended)
      PROVE  StageInv' /\ PointersResolve'
  <2> USE <1>1 DEF Run, Go, Begun
  <2>1. Pointers' = Pointers /\ Stored' = Stored
    BY DEF Pointers, Stored
  <2>2. StageInv'
    BY DEF StageInv, SessionTypeOK, Stored
  <2> QED BY <2>1, <2>2, PointersKept
<1>2. ASSUME NEW c \in Commands, OpenArtifact(c) \/ PersistFails(c)
      PROVE  StageInv' /\ PointersResolve'
  <2> USE <1>2 DEF OpenArtifact, PersistFails, Go
  <2>1. Stored' = Stored
    BY DEF StageInv, SessionTypeOK, Stored
  <2>2. StageInv'
    BY <2>1 DEF StageInv, SessionTypeOK
  <2> QED BY <2>1, <2>2, PointersKept DEF Pointers
<1>3. ASSUME NEW c \in Commands, FillArtifact(c)
      PROVE  StageInv' /\ PointersResolve'
  <2> USE <1>3 DEF FillArtifact, Go
  <2>1. Stored' = Stored \cup {c}
    BY DEF SessionTypeOK, Stored
  <2>2. StageInv'
    BY <2>1 DEF StageInv, SessionTypeOK
  <2> QED BY <2>1, <2>2, PointersKept DEF Pointers
<1>4. ASSUME NEW c \in Commands, Seal(c)
      PROVE  StageInv' /\ PointersResolve'
  <2> USE <1>4 DEF Seal, Go, Begun
  <2> DEFINE r == LatestRunId
  <2>1. Stored' = Stored /\ Pointers' = Pointers /\ sealed \subseteq sealed'
    BY DEF Stored, Pointers
  <2>2. StageInv'
    <3>1. CASE r # NoRun /\ artifact[r] = "whole"
      <4>1. /\ target' = [target EXCEPT ![c] = r]
            /\ at' = [at EXCEPT ![c] = "load"]
            /\ sealed' = sealed \cup {r}
        BY <3>1
      <4>2. r \in sealed' \cap Stored' /\ r \in Runs
        BY <2>1, <3>1, <4>1, PointerTypes DEF Stored, Runs
      <4> HIDE DEF r
      <4> QED BY <2>1, <3>1, <4>1, <4>2 DEF StageInv, SessionTypeOK
    <3>2. CASE ~(r # NoRun /\ artifact[r] = "whole")
      <4>1. UNCHANGED <<target, sealed>> /\ at' = [at EXCEPT ![c] = "done"]
        BY <3>2
      <4> QED BY <2>1, <4>1 DEF StageInv, SessionTypeOK
    <3> QED BY <3>1, <3>2
  <2> QED BY <2>1, <2>2, PointersKept
<1>5. ASSUME NEW c \in Commands, Load(c)
      PROVE  StageInv' /\ PointersResolve'
  <2>1. PICK new \in SessionPointer :
          /\ pointer' = [pointer EXCEPT ![c] = new]
          /\ session.pointer \in Pointers
          /\ Pointers' \subseteq Pointers \cup {new}
          /\ target[c] = NoRun =>
               /\ new.run = c
               /\ new.success \in {session.pointer.success, c}
               /\ new.bundle = session.pointer.bundle
          /\ target[c] # NoRun =>
               /\ new.run = session.pointer.run
               /\ new.success = session.pointer.success
               /\ new.bundle = target[c]
    BY <1>5, LoadedPointer
  <2> USE <1>5 DEF Load, Go
  <2>2. Stored' = Stored
    BY DEF Stored
  <2>3. StageInv'
    BY <2>2 DEF StageInv, SessionTypeOK
  <2>4. {new.run, new.success} \subseteq Stored \cup warned \cup {NoRun}
    BY <2>1 DEF PointersResolve, StageInv
  <2>5. new.bundle \in (sealed \cap Stored) \cup {NoRun}
    BY <2>1 DEF PointersResolve, StageInv
  <2>6. PointersResolve'
    BY <2>1, <2>2, <2>4, <2>5 DEF PointersResolve
  <2> QED BY <2>3, <2>6
<1>6. ASSUME NEW c \in Commands,
             OpenSession(c) \/ FillSession(c) \/ SaveFails(c) \/ Die(c)
      PROVE  StageInv' /\ PointersResolve'
  <2> USE <1>6 DEF OpenSession, FillSession, SaveFails, Die, Go
  <2>1. Stored' = Stored
    BY DEF Stored
  <2>2. StageInv'
    BY <2>1 DEF StageInv, SessionTypeOK
  <2>3. Pointers' \subseteq Pointers \cup {NoSession}
    BY DEF Pointers, Torn
  <2> QED BY <2>1, <2>2, <2>3, PointersKept
<1>7. CASE UNCHANGED vars
  BY <1>7 DEF vars, StageInv, PointersResolve, Pointers, Stored
<1> QED
  BY <1>1, <1>2, <1>3, <1>4, <1>5, <1>6, <1>7 DEF Next

LEMMA SessionInvariant == Spec => []SessionInv
  BY InitSession, NextSession, PTL DEF Spec

\* The types of the files, for any number of commands.
THEOREM SessionTypeCorrect == Spec => []SessionTypeOK
<1>1. SessionInv => SessionTypeOK
  BY DEF SessionInv, SuccessInv
<1> QED BY <1>1, SessionInvariant, PTL

\* The run that the session calls a success is one, however commands overlap,
\* fail and die (session.py:71-76).
THEOREM SuccessIsSuccessCorrect == Spec => []SuccessIsSuccess
<1>1. SessionInv => SuccessIsSuccess
  BY DEF SessionInv, SuccessInv
<1> QED BY <1>1, SessionInvariant, PTL

\* Every run and bundle the session points to is there in full, unless the
\* user was warned (cli.py:272-295, 450-458).
THEOREM PointersResolveCorrect == Spec => []PointersResolve
<1>1. SessionInv => PointersResolve
  BY DEF SessionInv, SuccessInv
<1> QED BY <1>1, SessionInvariant, PTL

-----------------------------------------------------------------------------
\* Only one command changes its place in a step.
LEMMA GoChanges ==
  ASSUME SessionTypeOK, NEW c \in Commands, NEW place \in Places, Go(c, place)
  PROVE  /\ at'[c] = place /\ \A d \in Commands : d # c => at'[d] = at[d]
         /\ Active' = IF place \in {"idle", "done", "died"} THEN Active \ {c}
                                                            ELSE Active \cup {c}
<1>1. at'[c] = place /\ \A d \in Commands : d # c => at'[d] = at[d]
  BY DEF SessionTypeOK, Go
<1>2. QED
  BY <1>1 DEF Active

\* Steps of the one command at work that leave the session alone.
LEMMA QuietKept ==
  ASSUME SessionTypeOK, QuietInv, NEW c \in Commands, NEW place \in Places,
         Go(c, place), c \in Active, place \notin {"idle", "save", "saving"},
         at[c] # "saving", UNCHANGED <<session, latest, quiet>>
  PROVE  QuietInv'
<1>1. SUFFICES ASSUME quiet PROVE QuietInv'
  BY DEF QuietInv
<1>2. /\ at'[c] = place /\ \A d \in Commands : d # c => at'[d] = at[d]
      /\ Active' \subseteq {c} /\ Active = {c}
  BY <1>1, GoChanges DEF QuietInv
<1>3. session.pointer = latest
  BY <1>1, <1>2 DEF QuietInv
<1>4. QED
  BY <1>2, <1>3 DEF QuietInv

LEMMA QuietNext == SessionTypeOK /\ QuietInv /\ [Next]_vars => QuietInv'
<1> SUFFICES ASSUME SessionTypeOK, QuietInv, [Next]_vars PROVE QuietInv'
  OBVIOUS
<1>1. ASSUME NEW c \in Commands, NEW ended \in {"success", "failure"},
             Run(c, ended)
      PROVE  QuietInv'
  <2>1. SUFFICES ASSUME quiet' PROVE QuietInv'
    BY DEF QuietInv
  <2>2. /\ quiet /\ Active = {} /\ Go(c, "persist")
        /\ UNCHANGED <<session, latest>>
    BY <1>1, <2>1 DEF Run, Begun
  <2>3. at'[c] = "persist" /\ Active' = {c}
    BY <2>2, GoChanges DEF Places
  <2>4. QED
    BY <2>2, <2>3 DEF QuietInv
<1>2. ASSUME NEW c \in Commands,
             OpenArtifact(c) \/ FillArtifact(c) \/ PersistFails(c)
      PROVE  QuietInv'
  <2>1. PICK place \in {"persisting", "load"} : Go(c, place)
    BY <1>2 DEF OpenArtifact, FillArtifact, PersistFails
  <2>2. /\ c \in Active /\ at[c] # "saving"
        /\ UNCHANGED <<session, latest, quiet>>
    BY <1>2 DEF OpenArtifact, FillArtifact, PersistFails, Active
  <2>3. place \in Places /\ place \notin {"idle", "save", "saving"}
    BY DEF Places
  <2>4. QED
    BY <2>1, <2>2, <2>3, QuietKept
<1>3. ASSUME NEW c \in Commands, Seal(c)
      PROVE  QuietInv'
  <2>1. SUFFICES ASSUME quiet' PROVE QuietInv'
    BY DEF QuietInv
  <2>2. /\ quiet /\ Active = {} /\ UNCHANGED <<session, latest>>
    BY <1>3, <2>1 DEF Seal, Begun
  <2>3. PICK place \in {"load", "done"} : Go(c, place)
    BY <1>3 DEF Seal
  <2>4. at'[c] = place /\ Active' \subseteq {c}
    BY <2>2, <2>3, GoChanges DEF Places
  <2>5. QED
    BY <2>2, <2>3, <2>4 DEF QuietInv
<1>4. ASSUME NEW c \in Commands, Load(c)
      PROVE  QuietInv'
  <2>1. SUFFICES ASSUME quiet PROVE QuietInv'
    BY <1>4 DEF QuietInv, Load
  <2>2. /\ at[c] = "load" /\ c \in Active /\ Go(c, "save")
        /\ UNCHANGED <<episode, session, target, latest, quiet>>
    BY <1>4 DEF Load, Active
  <2>3. at'[c] = "save" /\ Active' = {c} /\ Active = {c}
    BY <2>1, <2>2, GoChanges DEF Places, QuietInv
  <2>4. session.pointer = latest
    BY <2>1, <2>2, <2>3 DEF QuietInv
  <2>5. pointer'[c] = Concluded(c)'
    <3>1. pointer'[c] = IF target[c] = NoRun THEN UpdatedByRun(c)
                                             ELSE UpdatedByBundle(c)
      BY <1>4 DEF Load, SessionTypeOK
    <3>2. Concluded(c)' = Concluded(c)
      BY <2>2 DEF Concluded
    <3>3. QED
      BY <2>4, <3>1, <3>2 DEF Concluded, UpdatedByRun, UpdatedByBundle,
         LoadSession
  <2>6. QED
    BY <2>2, <2>3, <2>4, <2>5 DEF QuietInv
<1>5. ASSUME NEW c \in Commands, OpenSession(c)
      PROVE  QuietInv'
  <2>1. SUFFICES ASSUME quiet PROVE QuietInv'
    BY <1>5 DEF QuietInv, OpenSession
  <2>2. /\ at[c] = "save" /\ c \in Active /\ Go(c, "saving") /\ session' = Torn
        /\ UNCHANGED <<episode, pointer, target, latest, quiet>>
    BY <1>5 DEF OpenSession, Active
  <2>3. at'[c] = "saving" /\ Active' = {c} /\ Active = {c}
    BY <2>1, <2>2, GoChanges DEF Places, QuietInv
  <2>4. pointer'[c] = Concluded(c)'
    BY <2>1, <2>2 DEF QuietInv, Concluded
  <2>5. ~session'.whole
    BY <2>2 DEF Torn
  <2>6. QED
    BY <2>3, <2>4, <2>5 DEF QuietInv
<1>6. ASSUME NEW c \in Commands, FillSession(c)
      PROVE  QuietInv'
  <2>1. SUFFICES ASSUME quiet PROVE QuietInv'
    BY <1>6 DEF QuietInv, FillSession
  <2>2. /\ at[c] = "saving" /\ c \in Active /\ Go(c, "done")
        /\ latest' = Concluded(c)
    BY <1>6 DEF FillSession, Active
  <2>3. Active' = {}
    BY <2>1, <2>2, GoChanges DEF Places, QuietInv
  <2>4. pointer[c] = Concluded(c) /\ ~session.whole
    BY <2>1, <2>2 DEF QuietInv
  <2>5. session'.pointer = pointer[c]
    BY <1>6, <2>4 DEF FillSession
  <2>6. QED
    BY <2>2, <2>3, <2>4, <2>5 DEF QuietInv
<1>7. ASSUME NEW c \in Commands, SaveFails(c) \/ Die(c)
      PROVE  QuietInv'
  BY <1>7 DEF QuietInv, SaveFails, Die
<1>8. CASE UNCHANGED vars
  BY <1>8 DEF vars, QuietInv, Active, Concluded
<1>9. QED
  BY <1>1, <1>2, <1>3, <1>4, <1>5, <1>6, <1>7, <1>8 DEF Next

\* Commands given one after the other find the last run, the last successful
\* run and the last bundle in the session (README.md:79, CHANGELOG.md:51).
THEOREM SessionFollowsHistoryCorrect == Spec => []SessionFollowsHistory
<1>1. Init => QuietInv
  BY DEF Init, QuietInv, Active, Torn
<1>2. SessionInv => SessionTypeOK
  BY DEF SessionInv, SuccessInv
<1>3. QuietInv => SessionFollowsHistory
  BY DEF QuietInv, SessionFollowsHistory
<1>4. QED
  BY <1>1, <1>2, <1>3, QuietNext, SessionInvariant, PTL DEF Spec

-----------------------------------------------------------------------------
(***************************************************************************)
(* ArchiveInv is inductive: its part about the session is kept by the      *)
(* commands as shown above, and by the tools because they leave the        *)
(* session alone; its part about a tool is kept by the others because what *)
(* is accounted for, and rewritten, only grows, and what is in an old      *)
(* format only shrinks.                                                    *)
(***************************************************************************)
\* What ArchiveInv says of one tool.
ToolOK(t) ==
  /\ toolAt[t] = "load" => file[t] \in Accounted
  /\ toolAt[t] # "done" => answer[t] = "none"
  /\ toolAt[t] \in {"rewrite", "rewriting"} => file[t] \in OldRuns
  /\ toolAt[t] = "rewriting" => file[t] \in rewritten
  /\ toolAt[t] \in {"migrating", "rewrite", "rewriting"} /\ ~errors[t] =>
       legacy \subseteq todo[t] \cup
         (IF toolAt[t] = "migrating" THEN {} ELSE {file[t]})
  /\ answer[t] \in {"missing", "raised"} /\ file[t] # NoRun
       => file[t] \in warned \cup rewritten
  /\ answer[t] = "migrated" /\ ~errors[t] => legacy = {}

\* What it says of the commands.
CommandsOK ==
  /\ \A c \in Commands :
       /\ at[c] \in {"idle", "persist", "persisting"} => artifact[c] # "whole"
       /\ at[c] = "load" /\ target[c] = NoRun => c \in Accounted
  /\ \A p \in Pointers : {p.run, p.success} \subseteq Accounted \cup {NoRun}
  /\ \A r \in OldRuns : at[r] = "done" /\ artifact[r] # "absent"

LEMMA ArchiveParts ==
  ArchiveInv <=> /\ SuccessInv /\ QuietInv /\ ToolTypeOK /\ CommandsOK
                 /\ \A t \in Tools : ToolOK(t)
BY DEF ArchiveInv, AccountInv, MigrationInv, VerifyFindsItsRun,
       MigrationIsComplete, ToolOK, CommandsOK

LEMMA ArchiveFromParts ==
  ASSUME SuccessInv', QuietInv', ToolTypeOK', CommandsOK',
         \A t \in Tools : ToolOK(t)'
  PROVE  ArchiveInv'
BY DEF ArchiveInv, AccountInv, MigrationInv, VerifyFindsItsRun,
       MigrationIsComplete, ToolOK, CommandsOK

LEMMA InitArchive == BoardInit => ArchiveInv
<1> SUFFICES ASSUME BoardInit PROVE ArchiveInv
  OBVIOUS
<1> USE SessionAssumption, ArchiveAssumption DEF BoardInit, ArchiveInit
<1>1. SuccessInv
  BY DEF SuccessInv, SessionTypeOK, Unstarted, SuccessIsSuccess, Pointers,
         NoSession, Torn, File, SessionPointer, Runs, Places
<1>2. QuietInv
  BY DEF QuietInv, Active, Torn
<1>3. ToolTypeOK
  BY DEF ToolTypeOK, Runs
<1>4. CommandsOK
  <2>1. \A p \in Pointers : p = NoSession
    BY DEF Pointers, Torn
  <2>2. \A c \in Commands : at[c] = "idle" => artifact[c] = "absent"
    OBVIOUS
  <2>3. \A c \in Commands : at[c] \in {"idle", "done"}
    OBVIOUS
  <2>4. \A r \in OldRuns : at[r] = "done" /\ artifact[r] = "whole"
    OBVIOUS
  <2> HIDE DEF BoardInit, ArchiveInit
  <2> QED BY <2>1, <2>2, <2>3, <2>4 DEF CommandsOK, NoSession
<1>5. \A t \in Tools : ToolOK(t)
  BY DEF ToolOK
<1> QED BY <1>1, <1>2, <1>3, <1>4, <1>5, ArchiveParts

-----------------------------------------------------------------------------
\* The steps of the commands.

\* A step that adds no pointer but the empty one, and takes nothing out of
\* what is accounted for.
LEMMA AccountKept ==
  ASSUME SessionTypeOK, CommandsOK,
         Pointers' \subseteq Pointers \cup {NoSession},
         Accounted \subseteq Accounted'
  PROVE  \A p \in Pointers' : {p.run, p.success} \subseteq Accounted' \cup {NoRun}
BY PointerTypes DEF CommandsOK, NoSession

LEMMA CommandsNext ==
  ASSUME SuccessInv, CommandsOK, rewritten' = rewritten, Next
  PROVE  CommandsOK' /\ Accounted \subseteq Accounted'
<1> USE SessionAssumption, ArchiveAssumption DEF SuccessInv
<1>t. SessionTypeOK
  OBVIOUS
<1>1. ASSUME NEW c \in Commands, NEW ended \in {"success", "failure"},
             Run(c, ended)
      PROVE  CommandsOK' /\ Accounted \subseteq Accounted'
  <2> USE <1>1 DEF Run, Go, Begun
  <2>1. Pointers' = Pointers /\ Accounted' = Accounted
    BY DEF Pointers, Accounted, Stored
  <2> QED BY <2>1, AccountKept DEF CommandsOK, SessionTypeOK
<1>2. ASSUME NEW c \in Commands, OpenArtifact(c) \/ PersistFails(c)
      PROVE  CommandsOK' /\ Accounted \subseteq Accounted'
  <2> USE <1>2 DEF OpenArtifact, PersistFails, Go
  <2>1. Pointers' = Pointers /\ Accounted \subseteq Accounted'
    BY DEF Pointers, Accounted, Stored, CommandsOK, SessionTypeOK
  <2>2. PersistFails(c) => c \in Accounted'
    BY DEF Accounted
  <2> QED BY <2>1, <2>2, AccountKept DEF CommandsOK, SessionTypeOK
<1>3. ASSUME NEW c \in Commands, FillArtifact(c)
      PROVE  CommandsOK' /\ Accounted \subseteq Accounted'
  <2> USE <1>3 DEF FillArtifact, Go
  <2>1. Pointers' = Pointers /\ Accounted' = Accounted \cup {c}
    BY DEF Pointers, Accounted, Stored, SessionTypeOK
  <2> QED BY <2>1, AccountKept DEF CommandsOK, SessionTypeOK
<1>4. ASSUME NEW c \in Commands, Seal(c)
      PROVE  CommandsOK' /\ Accounted \subseteq Accounted'
  <2> USE <1>4 DEF Seal, Go, Begun
  <2>1. Pointers' = Pointers /\ Accounted' = Accounted
    BY DEF Pointers, Accounted, Stored
  <2>2. \/ at' = [at EXCEPT ![c] = "done"] /\ target' = target
        \/ /\ at' = [at EXCEPT ![c] = "load"]
           /\ target' = [target EXCEPT ![c] = LatestRunId]
           /\ LatestRunId # NoRun
    OBVIOUS
  <2>3. artifact' = artifact /\ at[c] = "idle"
    OBVIOUS
  <2> QED BY <2>1, <2>2, <2>3, AccountKept DEF CommandsOK, SessionTypeOK
<1>5. ASSUME NEW c \in Commands, Load(c)
      PROVE  CommandsOK' /\ Accounted \subseteq Accounted'
  <2>1. PICK new \in SessionPointer :
          /\ pointer' = [pointer EXCEPT ![c] = new]
          /\ session.pointer \in Pointers
          /\ Pointers' \subseteq Pointers \cup {new}
          /\ target[c] = NoRun =>
               /\ new.run = c
               /\ new.success \in {session.pointer.success, c}
          /\ target[c] # NoRun =>
               /\ new.run = session.pointer.run
               /\ new.success = session.pointer.success
    BY <1>5, LoadedPointer
  <2> USE <1>5 DEF Load, Go
  <2>2. Accounted' = Accounted
    BY DEF Accounted, Stored
  <2>3. {new.run, new.success} \subseteq Accounted \cup {NoRun}
    BY <2>1 DEF CommandsOK
  <2>4. \A p \in Pointers' : {p.run, p.success} \subseteq Accounted' \cup {NoRun}
    BY <2>1, <2>2, <2>3 DEF CommandsOK
  <2> QED BY <2>2, <2>4 DEF CommandsOK, SessionTypeOK
<1>6. ASSUME NEW c \in Commands,
             OpenSession(c) \/ FillSession(c) \/ SaveFails(c) \/ Die(c)
      PROVE  CommandsOK' /\ Accounted \subseteq Accounted'
  <2> USE <1>6 DEF OpenSession, FillSession, SaveFails, Die, Go, Active
  <2>1. Pointers' \subseteq Pointers \cup {NoSession} /\ Accounted' = Accounted
    BY DEF Pointers, Torn, Accounted, Stored
  <2>2. UNCHANGED <<artifact, target>>
    OBVIOUS
  <2>3. PICK place \in {"saving", "done", "died"} : Go(c, place)
    OBVIOUS
  <2>4. at[c] \notin {"idle", "done"}
    OBVIOUS
  <2> QED BY <2>1, <2>2, <2>3, <2>4, AccountKept DEF CommandsOK, SessionTypeOK
<1> QED BY <1>1, <1>2, <1>3, <1>4, <1>5, <1>6 DEF Next

LEMMA CommandStep ==
  ASSUME ArchiveInv, Next, UNCHANGED toolVars
  PROVE  ArchiveInv'
<1> USE ArchiveParts
<1>1. SuccessInv' /\ QuietInv'
  BY NextSuccess, QuietNext DEF SuccessInv
<1>2. ToolTypeOK'
  BY DEF ToolTypeOK, toolVars
<1>3. CommandsOK' /\ Accounted \subseteq Accounted'
  BY CommandsNext DEF toolVars
<1>4. warned \subseteq warned'
  BY DEF Next, Run, OpenArtifact, FillArtifact, PersistFails, Seal, Load,
         OpenSession, FillSession, SaveFails, Die
<1>5. \A t \in Tools : ToolOK(t)'
  BY <1>3, <1>4 DEF ToolOK, toolVars
<1> QED BY <1>1, <1>2, <1>3, <1>5, ArchiveFromParts

-----------------------------------------------------------------------------
\* The steps of the tools.

\* A tool keeps the invariant if it leaves the session and the other tools
\* alone, and keeps what is said of itself.
LEMMA ToolStep ==
  ASSUME ArchiveInv, NEW t \in Tools, ToolsKeepSession, ToolTypeOK', ToolOK(t)',
         artifact' \in [Commands -> {"absent", "torn", "whole"}],
         \A c \in Commands :
           artifact'[c] = artifact[c] \/ (c \in OldRuns /\ artifact'[c] # "absent"),
         \A u \in Tools \ {t} :
           /\ toolAt'[u] = toolAt[u] /\ file'[u] = file[u] /\ todo'[u] = todo[u]
           /\ answer'[u] = answer[u] /\ errors'[u] = errors[u],
         Accounted \subseteq Accounted', rewritten \subseteq rewritten',
         legacy' \subseteq legacy
  PROVE  ArchiveInv'
<1> USE ArchiveParts DEF ToolsKeepSession
<1>1. SuccessInv'
  BY DEF SuccessInv, SessionTypeOK, Unstarted, SuccessIsSuccess, Pointers
<1>2. QuietInv'
  BY DEF QuietInv, Active, Concluded
<1>3. CommandsOK'
  <2>1. Pointers' = Pointers
    BY DEF Pointers
  <2> QED BY <2>1, ArchiveAssumption DEF CommandsOK
<1>4. \A u \in Tools : ToolOK(u)'
  <2>1. ASSUME NEW u \in Tools \ {t} PROVE ToolOK(u)'
    <3>1. ToolOK(u)
      OBVIOUS
    <3> QED BY <3>1 DEF ToolOK
  <2> QED BY <2>1
<1> QED BY <1>1, <1>2, <1>3, <1>4, ArchiveFromParts

LEMMA ToolSteps ==
  ASSUME ArchiveInv, NEW t \in Tools,
         \/ VerifyResolve(t) \/ VerifyLoad(t) \/ VerifyBundle(t)
         \/ MigrateBegin(t) \/ MigrateRead(t) \/ MigrateFails(t) \/ ToolDies(t)
  PROVE  ArchiveInv'
<1>i. SuccessInv /\ ToolTypeOK /\ CommandsOK /\ ToolOK(t)
  BY ArchiveParts
<1>t. SessionTypeOK
  BY <1>i DEF SuccessInv
<1>k. /\ ToolsKeepSession /\ UNCHANGED <<artifact, legacy, rewritten>>
      /\ Accounted' = Accounted
  BY DEF VerifyResolve, VerifyLoad, VerifyBundle, MigrateBegin, MigrateRead,
         MigrateFails, ToolDies, ToolsKeepSession, Accounted, Stored
<1>s. ASSUME ToolTypeOK', ToolOK(t)',
             \A u \in Tools \ {t} :
               /\ toolAt'[u] = toolAt[u] /\ file'[u] = file[u]
               /\ todo'[u] = todo[u] /\ answer'[u] = answer[u]
               /\ errors'[u] = errors[u]
      PROVE  ArchiveInv'
  BY <1>s, <1>k, <1>t, ToolStep DEF SessionTypeOK
<1> USE SessionAssumption, ArchiveAssumption DEF Move, Ends
<1>1. CASE VerifyResolve(t)
  <2> USE <1>1 DEF VerifyResolve
  <2>1. LatestRunId \in Accounted \cup {NoRun} /\ LatestRunId \in Runs
    BY <1>i, <1>t, PointerTypes
    DEF CommandsOK, LatestRunId, LoadSession, Pointers
  <2>2. ToolTypeOK'
    BY <1>i, <2>1 DEF ToolTypeOK
  <2>3. ToolOK(t)'
    BY <1>i, <1>k, <2>1 DEF ToolOK, ToolTypeOK, ToolsKeepSession
  <2> QED BY <1>i, <1>s, <2>2, <2>3 DEF ToolTypeOK
<1>2. CASE VerifyLoad(t)
  <2> USE <1>2 DEF VerifyLoad
  <2>1. file[t] \in Accounted /\ file[t] \in Commands
    BY <1>i, <1>t DEF ToolOK, Accounted, Stored, ToolTypeOK, SessionTypeOK
  <2>2. artifact[file[t]] # "whole" => file[t] \in warned \cup rewritten
    BY <2>1 DEF Accounted, Stored
  <2>3. artifact[file[t]] \in {"absent", "torn", "whole"}
    BY <1>t, <2>1 DEF SessionTypeOK
  <2>4. \/ toolAt' = [toolAt EXCEPT ![t] = "bundle"] /\ answer' = answer
        \/ /\ toolAt' = [toolAt EXCEPT ![t] = "done"]
           /\ \E a \in {"raised", "missing"} : answer' = [answer EXCEPT ![t] = a]
           /\ file[t] \in warned \cup rewritten
    BY <2>2, <2>3
  <2>5. UNCHANGED <<file, todo, errors>> /\ toolAt[t] = "load"
    OBVIOUS
  <2>6. ToolTypeOK'
    BY <1>i, <1>k, <2>4, <2>5 DEF ToolTypeOK
  <2>7. ToolOK(t)'
    BY <1>i, <1>k, <2>4, <2>5 DEF ToolOK, ToolTypeOK, ToolsKeepSession
  <2> QED BY <1>i, <1>s, <2>4, <2>5, <2>6, <2>7 DEF ToolTypeOK
<1>3. CASE VerifyBundle(t)
  <2> USE <1>3 DEF VerifyBundle
  <2>1. ToolTypeOK'
    BY <1>i DEF ToolTypeOK
  <2>2. ToolOK(t)'
    BY <1>i, <1>k DEF ToolOK, ToolTypeOK, ToolsKeepSession
  <2> QED BY <1>i, <1>s, <2>1, <2>2 DEF ToolTypeOK
<1>4. CASE MigrateBegin(t)
  <2> USE <1>4 DEF MigrateBegin
  <2>1. ToolTypeOK'
    BY <1>i DEF ToolTypeOK
  <2>2. legacy \subseteq todo'[t]
    BY <1>i DEF ToolTypeOK, CommandsOK
  <2>3. ToolOK(t)'
    BY <1>i, <1>k, <2>2 DEF ToolOK, ToolTypeOK, ToolsKeepSession
  <2> QED BY <1>i, <1>s, <2>1, <2>3 DEF ToolTypeOK
<1>5. CASE MigrateRead(t)
  <2> USE <1>5 DEF MigrateRead
  <2>1. CASE todo[t] = {} /\ Ends(t, "migrated") /\ file' = [file EXCEPT ![t] = NoRun]
             /\ UNCHANGED <<todo, errors>>
    <3>1. ToolTypeOK'
      BY <1>i, <2>1 DEF ToolTypeOK, Runs
    <3>2. ToolOK(t)'
      BY <1>i, <1>k, <2>1 DEF ToolOK, ToolTypeOK, ToolsKeepSession
    <3> QED BY <1>i, <1>s, <2>1, <3>1, <3>2 DEF ToolTypeOK
  <2>2. CASE \E r \in todo[t] :
               /\ todo' = [todo EXCEPT ![t] = @ \ {r}]
               /\ errors' = [errors EXCEPT ![t] = @ \/ Reported(r)]
               /\ IF artifact[r] = "whole" /\ r \in legacy
                    THEN Move(t, "rewrite") /\ file' = [file EXCEPT ![t] = r]
                    ELSE UNCHANGED <<toolAt, file>>
               /\ UNCHANGED answer
    <3>1. PICK r \in todo[t] :
            /\ todo' = [todo EXCEPT ![t] = todo[t] \ {r}]
            /\ errors' = [errors EXCEPT ![t] = errors[t] \/ Reported(r)]
            /\ IF artifact[r] = "whole" /\ r \in legacy
                 THEN /\ toolAt' = [toolAt EXCEPT ![t] = "rewrite"]
                      /\ file' = [file EXCEPT ![t] = r]
                 ELSE UNCHANGED <<toolAt, file>>
            /\ UNCHANGED answer
      BY <2>2
    <3>2. r \in Commands /\ (errors[t] \/ Reported(r)) \in BOOLEAN
      BY <1>i DEF ToolTypeOK, Reported
    <3>3. ToolTypeOK'
      BY <1>i, <1>k, <3>1, <3>2 DEF ToolTypeOK, Runs
    <3>4. /\ errors'[t] = (errors[t] \/ artifact[r] # "whole")
          /\ todo'[t] = todo[t] \ {r} /\ toolAt[t] = "migrating"
      BY <1>i, <3>1 DEF ToolTypeOK, Reported
    <3>5. ToolOK(t)'
      <4>1. CASE artifact[r] = "whole" /\ r \in legacy
        <5>1. toolAt'[t] = "rewrite" /\ file'[t] = r /\ answer' = answer
          BY <1>i, <3>1, <4>1 DEF ToolTypeOK
        <5> QED BY <1>i, <1>k, <3>4, <4>1, <5>1
            DEF ToolOK, ToolTypeOK, ToolsKeepSession
      <4>2. CASE ~(artifact[r] = "whole" /\ r \in legacy)
        <5>1. UNCHANGED <<toolAt, file, answer>>
          BY <3>1, <4>2
        <5> QED BY <1>i, <1>k, <3>4, <4>2, <5>1
            DEF ToolOK, ToolTypeOK, ToolsKeepSession
      <4> QED BY <4>1, <4>2
    <3> QED BY <1>i, <1>s, <3>1, <3>3, <3>5 DEF ToolTypeOK
  <2> QED BY <2>1, <2>2
<1>6. CASE MigrateFails(t)
  <2> USE <1>6 DEF MigrateFails
  <2>1. ToolTypeOK'
    BY <1>i DEF ToolTypeOK
  <2>2. ToolOK(t)'
    BY <1>i, <1>k DEF ToolOK, ToolTypeOK, ToolsKeepSession
  <2> QED BY <1>i, <1>s, <2>1, <2>2 DEF ToolTypeOK
<1>7. CASE ToolDies(t)
  <2> USE <1>7 DEF ToolDies
  <2>1. ToolTypeOK'
    BY <1>i DEF ToolTypeOK, Runs
  <2>2. ToolOK(t)'
    BY <1>i, <1>k DEF ToolOK, ToolTypeOK, ToolsKeepSession
  <2> QED BY <1>i, <1>s, <2>1, <2>2 DEF ToolTypeOK
<1> QED BY <1>1, <1>2, <1>3, <1>4, <1>5, <1>6, <1>7

\* A migration tears the artifact that it opens and restores it, of a run that
\* it has rewritten.
LEMMA RewriteSteps ==
  ASSUME ArchiveInv, NEW t \in Tools, MigrateOpen(t) \/ MigrateFill(t)
  PROVE  ArchiveInv'
<1>i. SuccessInv /\ ToolTypeOK /\ CommandsOK /\ ToolOK(t)
  BY ArchiveParts
<1>t. SessionTypeOK
  BY <1>i DEF SuccessInv
<1> USE SessionAssumption, ArchiveAssumption DEF Move, Ends
<1>f. file[t] \in OldRuns /\ file[t] \in Commands
  BY <1>i DEF ToolOK, MigrateOpen, MigrateFill
<1>1. CASE MigrateOpen(t)
  <2> USE <1>1 DEF MigrateOpen
  <2>1. /\ ToolsKeepSession /\ legacy' = legacy
        /\ rewritten' = rewritten \cup {file[t]}
        /\ artifact' = [artifact EXCEPT ![file[t]] = "torn"]
        /\ toolAt' = [toolAt EXCEPT ![t] = "rewriting"] /\ toolAt[t] = "rewrite"
        /\ UNCHANGED <<file, todo, answer, errors>>
    OBVIOUS
  <2>2. Accounted \subseteq Accounted'
    BY <1>t, <2>1 DEF Accounted, Stored, SessionTypeOK, ToolsKeepSession
  <2>3. ToolTypeOK'
    BY <1>i, <1>f, <2>1 DEF ToolTypeOK
  <2>4. ToolOK(t)'
    BY <1>i, <1>f, <2>1 DEF ToolOK, ToolTypeOK, ToolsKeepSession
  <2>5. /\ artifact' \in [Commands -> {"absent", "torn", "whole"}]
        /\ \A c \in Commands :
             \/ artifact'[c] = artifact[c]
             \/ c \in OldRuns /\ artifact'[c] # "absent"
    BY <1>t, <1>f, <2>1 DEF SessionTypeOK
  <2> QED BY <1>i, <2>1, <2>2, <2>3, <2>4, <2>5, ToolStep DEF ToolTypeOK
<1>2. CASE MigrateFill(t)
  <2> USE <1>2 DEF MigrateFill
  <2>1. /\ ToolsKeepSession /\ legacy' = legacy \ {file[t]}
        /\ rewritten' = rewritten
        /\ artifact' = [artifact EXCEPT ![file[t]] = "whole"]
        /\ toolAt' = [toolAt EXCEPT ![t] = "migrating"]
        /\ toolAt[t] = "rewriting"
        /\ UNCHANGED <<file, todo, answer, errors>>
    OBVIOUS
  <2>2. Accounted \subseteq Accounted'
    BY <1>t, <2>1 DEF Accounted, Stored, SessionTypeOK, ToolsKeepSession
  <2>3. ToolTypeOK'
    BY <1>i, <1>f, <2>1 DEF ToolTypeOK
  <2>4. ToolOK(t)'
    BY <1>i, <1>f, <2>1 DEF ToolOK, ToolTypeOK, ToolsKeepSession
  <2>5. /\ artifact' \in [Commands -> {"absent", "torn", "whole"}]
        /\ \A c \in Commands :
             \/ artifact'[c] = artifact[c]
             \/ c \in OldRuns /\ artifact'[c] # "absent"
    BY <1>t, <1>f, <2>1 DEF SessionTypeOK
  <2> QED BY <1>i, <2>1, <2>2, <2>3, <2>4, <2>5, ToolStep DEF ToolTypeOK
<1> QED BY <1>1, <1>2

\* An ingest reads bundles and has files of its own.
LEMMA IngestSteps ==
  ASSUME ArchiveInv, NEW t \in Tools,
         \/ Submit(t) \/ StoreSubmission(t) \/ ReadIndex(t) \/ WriteIndex(t)
         \/ IngestFails(t)
  PROVE  ArchiveInv'
<1>i. SuccessInv /\ ToolTypeOK /\ CommandsOK /\ ToolOK(t)
  BY ArchiveParts
<1>t. SessionTypeOK
  BY <1>i DEF SuccessInv
<1>k. /\ ToolsKeepSession /\ UNCHANGED <<artifact, legacy, rewritten, todo, errors>>
      /\ Accounted' = Accounted
  BY DEF Submit, StoreSubmission, ReadIndex, WriteIndex, IngestFails,
         IngestKeeps, vars, ToolsKeepSession, Accounted, Stored
<1>1. toolAt[t] \in {"idle", "store", "storing", "read", "index", "indexing"}
  BY DEF Submit, StoreSubmission, ReadIndex, WriteIndex, IngestFails, Ingesting
<1>2. \/ /\ \E place \in {"store", "storing", "read", "index", "indexing"} :
              toolAt' = [toolAt EXCEPT ![t] = place]
         /\ answer' = answer
      \/ /\ toolAt' = [toolAt EXCEPT ![t] = "done"]
         /\ \E a \in {"refused", "failed", "ingested"} :
              answer' = [answer EXCEPT ![t] = a]
  BY DEF Submit, StoreSubmission, ReadIndex, WriteIndex, IngestFails, Finished,
         Move, Ends
<1>3. \E r \in Runs : file' = [file EXCEPT ![t] = r]
  BY <1>i, <1>t DEF Submit, StoreSubmission, ReadIndex, WriteIndex, IngestFails,
     Finished, Runs, SessionTypeOK, ToolTypeOK
<1>4. ToolTypeOK'
  BY <1>i, <1>k, <1>2, <1>3 DEF ToolTypeOK
<1>5. ToolOK(t)'
  BY <1>i, <1>k, <1>1, <1>2 DEF ToolOK, ToolTypeOK
<1> QED BY <1>i, <1>k, <1>t, <1>2, <1>3, <1>4, <1>5, ToolStep
    DEF ToolTypeOK, SessionTypeOK

LEMMA NextArchive == ArchiveInv /\ [BoardNext]_archiveVars => ArchiveInv'
<1> SUFFICES ASSUME ArchiveInv, [BoardNext]_archiveVars PROVE ArchiveInv'
  OBVIOUS
<1>1. CASE Next /\ UNCHANGED toolVars
  BY <1>1, CommandStep
<1>2. CASE ToolNext
  BY <1>2, ToolSteps, RewriteSteps DEF ToolNext
<1>3. ASSUME NEW t \in Tools,
             \/ Submit(t) \/ StoreSubmission(t) \/ ReadIndex(t) \/ WriteIndex(t)
             \/ IngestFails(t)
      PROVE  ArchiveInv'
  BY <1>3, IngestSteps
<1>4. CASE UNCHANGED archiveVars
  <2>1. SuccessInv' /\ QuietInv'
    BY <1>4, NextSuccess, QuietNext DEF archiveVars, ArchiveInv, SuccessInv
  <2>2. ToolTypeOK' /\ CommandsOK' /\ \A t \in Tools : ToolOK(t)'
    BY <1>4, ArchiveParts DEF archiveVars, vars, toolVars, ToolTypeOK,
       CommandsOK, ToolOK, Accounted, Stored, Pointers
  <2> QED BY <2>1, <2>2, ArchiveFromParts
<1> QED BY <1>1, <1>2, <1>3, <1>4 DEF BoardNext, ArchiveNext

LEMMA ArchiveInvariant == BoardSpec => []ArchiveInv
  BY InitArchive, NextArchive, PTL DEF BoardSpec

-----------------------------------------------------------------------------
\* verify finds the artifact of the run the session names and can read it,
\* unless the user was warned that it was not stored or a migration has had
\* it open for writing (cli.py:149-172, session.py:106-112, migration.py:165).
THEOREM VerifyFindsItsRunCorrect == BoardSpec => []VerifyFindsItsRun
<1>1. ArchiveInv => VerifyFindsItsRun
  BY DEF ArchiveInv
<1> QED BY <1>1, ArchiveInvariant, PTL

\* A migration that reports no error leaves no artifact in an old format,
\* whatever other migrations, runs and readers do beside it
\* (migration.py:174-196).
THEOREM MigrationIsCompleteCorrect == BoardSpec => []MigrationIsComplete
<1>1. ArchiveInv => MigrationIsComplete
  BY DEF ArchiveInv
<1> QED BY <1>1, ArchiveInvariant, PTL

\* Beside tools too, the run that the session calls a success is one
\* (session.py:71-76), and commands given one after the other find the last
\* run, the last successful run and the last bundle in it (README.md:79).
THEOREM SessionBesideTools ==
  BoardSpec => [](SuccessIsSuccess /\ SessionFollowsHistory)
<1>1. ArchiveInv => SuccessIsSuccess /\ SessionFollowsHistory
  BY DEF ArchiveInv, SuccessInv, QuietInv, SessionFollowsHistory
<1> QED BY <1>1, ArchiveInvariant, PTL

-----------------------------------------------------------------------------
(***************************************************************************)
(* The index.  Selected takes the places of a list in their order: the     *)
(* rank of a place among the chosen ones is a number up to how many there  *)
(* are, and each such number is the rank of one.                           *)
(***************************************************************************)
LEMMA Ranked ==
  ASSUME NEW P, P \subseteq Nat, IsFiniteSet(P), NEW n \in 1 .. Cardinality(P)
  PROVE  \E i \in P : Cardinality({j \in P : j <= i}) = n
<1> DEFINE Below(i) == {j \in P : j <= i}
           rank == [i \in P |-> Cardinality(Below(i))]
           ranks == 1 .. Cardinality(P)
<1>1. Cardinality(P) \in Nat
  BY FS_CardinalityType
<1>2. ASSUME NEW i \in P
      PROVE  IsFiniteSet(Below(i)) /\ Cardinality(Below(i)) \in ranks
  <2>1. i \in Below(i) /\ Below(i) \subseteq P
    OBVIOUS
  <2> HIDE DEF Below
  <2>2. IsFiniteSet(Below(i)) /\ Cardinality(Below(i)) <= Cardinality(P)
    BY <2>1, FS_Subset
  <2>3. Cardinality(Below(i)) \in Nat
    BY <2>2, FS_CardinalityType
  <2>4. Cardinality(Below(i)) # 0
    BY <2>1, <2>2, FS_EmptySet
  <2> QED BY <1>1, <2>2, <2>3, <2>4
<1>3. ASSUME NEW i \in P, NEW k \in P, i < k
      PROVE  Cardinality(Below(i)) # Cardinality(Below(k))
  <2>1. i \in Nat /\ k \in Nat
    OBVIOUS
  <2>2. k \in Below(k) /\ k \notin Below(i)
    BY <1>3, <2>1
  <2>3. Below(i) \subseteq Below(k)
    <3>1. ASSUME NEW j \in Below(i) PROVE j \in Below(k)
      <4>1. j \in P /\ j \in Nat /\ j <= i
        OBVIOUS
      <4> QED BY <1>3, <2>1, <4>1
    <3> QED BY <3>1
  <2> HIDE DEF Below
  <2> QED BY <1>2, <2>2, <2>3, FS_Subset
<1>4. rank \in Injection(P, ranks)
  <2> HIDE DEF Below, ranks
  <2>1. rank \in [P -> ranks]
    BY <1>2
  <2>2. ASSUME NEW i \in P, NEW k \in P, i # k PROVE rank[i] # rank[k]
    <3>1. i \in Nat /\ k \in Nat
      OBVIOUS
    <3>2. i < k \/ k < i
      BY <2>2, <3>1
    <3> QED BY <1>3, <3>2
  <2> QED BY <2>1, <2>2 DEF Injection, IsInjective
<1>5. IsFiniteSet(ranks) /\ Cardinality(ranks) = Cardinality(P)
  BY <1>1, FS_Interval
<1>6. rank \in Surjection(P, ranks)
  <2> HIDE DEF rank, ranks
  <2> QED BY <1>4, <1>5, FS_Injection
<1> QED BY <1>6 DEF Surjection

Place(places, n) == CHOOSE i \in places : Cardinality({j \in places : j <= i}) = n

LEMMA SelectedIs ==
  ASSUME NEW list, NEW places
  PROVE  Selected(list, places) =
           [n \in 1 .. Cardinality(places) |-> list[Place(places, n)]]
  BY DEF Selected, Place

LEMMA PlaceChosen ==
  ASSUME NEW len \in Nat, NEW places, places \subseteq 1 .. len
  PROVE  /\ IsFiniteSet(places) /\ Cardinality(places) \in Nat
         /\ \A n \in 1 .. Cardinality(places) : Place(places, n) \in places
<1>1. IsFiniteSet(places) /\ Cardinality(places) \in Nat
  <2>1. IsFiniteSet(1 .. len)
    BY FS_Interval
  <2> QED BY <2>1, FS_Subset, FS_CardinalityType
<1>2. ASSUME NEW n \in 1 .. Cardinality(places)
      PROVE  Place(places, n) \in places
  <2>1. places \subseteq Nat
    OBVIOUS
  <2>2. \E i \in places : Cardinality({j \in places : j <= i}) = n
    BY <1>1, <2>1, Ranked
  <2> QED BY <2>2 DEF Place
<1> QED BY <1>1, <1>2

\* Of the entries that name the runs of a list, the selected ones name the
\* selected runs.
LEMMA SelectedRuns ==
  ASSUME NEW entries, NEW list, NEW len \in Nat, DOMAIN list = 1 .. len,
         RunsIn(entries) = list, NEW places, places \subseteq 1 .. len
  PROVE  RunsIn(Selected(entries, places)) = Selected(list, places)
<1> DEFINE k == Cardinality(places)
<1>1. \A i \in 1 .. len : entries[i].run = list[i]
  BY DEF RunsIn
<1>2. \A n \in 1 .. k : Place(places, n) \in 1 .. len
  BY PlaceChosen
<1> HIDE DEF k
<1>3. \A n \in 1 .. k : entries[Place(places, n)].run = list[Place(places, n)]
  BY <1>1, <1>2
<1>4. /\ Selected(entries, places) = [n \in 1 .. k |-> entries[Place(places, n)]]
      /\ Selected(list, places) = [n \in 1 .. k |-> list[Place(places, n)]]
  BY SelectedIs DEF k
<1> QED BY <1>3, <1>4 DEF RunsIn

\* Nothing is selected at no place.
LEMMA NothingSelected ==
  ASSUME NEW list
  PROVE  Selected(list, {}) = << >>
<1>1. Cardinality({}) = 0
  BY FS_EmptySet
<1> QED BY <1>1, SelectedIs

\* What is selected of a list is a list of what is in it.
LEMMA SelectedSeq ==
  ASSUME NEW S, NEW list, NEW len \in Nat, \A i \in 1 .. len : list[i] \in S,
         NEW places \in SUBSET (1 .. len)
  PROVE  Selected(list, places) \in Seq(S)
<1> DEFINE chosen == Selected(list, places)
           k == Cardinality(places)
<1>1. k \in Nat /\ \A n \in 1 .. k : list[Place(places, n)] \in S
  BY PlaceChosen
<1>2. chosen = [n \in 1 .. k |-> list[Place(places, n)]]
  BY SelectedIs
<1> HIDE DEF chosen, k
<1>3. chosen \in Seq(S)
  BY <1>1, <1>2
<1> QED BY <1>3 DEF chosen

LEMMA SelectedLen ==
  ASSUME NEW list, NEW len \in Nat, NEW places \in SUBSET (1 .. len)
  PROVE  Cardinality(places) \in Nat /\ Len(Selected(list, places)) = Cardinality(places)
<1> DEFINE k == Cardinality(places)
<1>1. k \in Nat
  BY PlaceChosen
<1> HIDE DEF k
<1>2. Selected(list, places) = [n \in 1 .. k |-> list[Place(places, n)]]
  BY SelectedIs DEF k
<1> QED BY <1>1, <1>2 DEF k

\* An ingest that is later than all entries of the index puts its own last,
\* and names the runs in the order of their last ingest.
LEMMA HeldLast ==
  ASSUME NEW t, NEW len \in Nat, DOMAIN ingested = 1 .. len,
         RunsIn(index.entries) = ingested,
         stamp[t] \in Nat, Until(index.entries, stamp[t] - 1)
  PROVE  /\ EntriesWith(t) \in Seq({EntriesWith(t)[i] : i \in DOMAIN EntriesWith(t)})
         /\ RunsIn(EntriesWith(t)) = Again(file[t]) /\ Until(EntriesWith(t), stamp[t])
<1> DEFINE entries == index.entries
           others == {i \in DOMAIN ingested : ingested[i] # file[t]}
           new == [run |-> file[t], when |-> stamp[t]]
           S == {entries[i] : i \in 1 .. len}
           first == Selected(entries, others)
           now == Append(first, new)
           k == Cardinality(others)
<1>1. DOMAIN entries = 1 .. len /\ \A i \in 1 .. len : entries[i].run = ingested[i]
  BY DEF RunsIn
<1>2. {i \in DOMAIN entries : entries[i].run # file[t]} = others
  BY <1>1
<1>3. ASSUME NEW i \in others
      PROVE  entries[i].when < stamp[t] /\ ~(entries[i].when > stamp[t])
  <2>1. entries[i].when \in Nat /\ entries[i].when <= stamp[t] - 1
    BY <1>1 DEF Until
  <2> QED BY <2>1
<1>4. /\ {i \in others : entries[i].when < stamp[t]} = others
      /\ {i \in others : entries[i].when > stamp[t]} = {}
  BY <1>3
<1>5. EntriesWith(t) = (first \o <<new>>) \o << >>
  <2> HIDE DEF others
  <2> QED BY <1>2, <1>4, NothingSelected DEF EntriesWith
<1>6. first \in Seq(S) /\ Len(first) = k /\ k \in Nat
  <2>1. \A i \in 1 .. len : entries[i] \in S
    OBVIOUS
  <2>2. others \subseteq 1 .. len
    OBVIOUS
  <2> HIDE DEF S, others, entries
  <2>3. others \in SUBSET (1 .. len)
    BY <2>2
  <2>4. Selected(entries, others) \in Seq(S)
    BY <2>1, <2>3, SelectedSeq
  <2> QED BY <2>3, <2>4, SelectedLen
<1>7. first = [n \in 1 .. k |-> entries[Place(others, n)]]
  BY SelectedIs
<1>8. \A n \in 1 .. k : Place(others, n) \in 1 .. len
  <2>1. others \subseteq 1 .. len
    OBVIOUS
  <2> HIDE DEF others
  <2> QED BY <2>1, PlaceChosen
<1>9. Selected(ingested, others) = [n \in 1 .. k |-> ingested[Place(others, n)]]
  BY SelectedIs
<1> DEFINE both == S \cup {new}
<1> HIDE DEF first, k, S, new, others, both
<1>10. first \in Seq(both)
  <2>1. \A i \in 1 .. Len(first) : first[i] \in both
    BY <1>6 DEF both
  <2> QED BY <1>6, <2>1
<1>11. EntriesWith(t) = now
  BY <1>5, <1>10 DEF both
<1>12. /\ now \in Seq(both) /\ Len(now) = k + 1 /\ DOMAIN now = 1 .. (k + 1)
       /\ now[k + 1] = new
       /\ \A n \in 1 .. k : now[n] = entries[Place(others, n)]
  BY <1>6, <1>7, <1>10 DEF both
<1> HIDE DEF now
<1>13. now \in Seq({now[i] : i \in DOMAIN now})
  <2> DEFINE range == {now[i] : i \in DOMAIN now}
  <2>1. \A i \in 1 .. Len(now) : now[i] \in range
    BY <1>12
  <2> HIDE DEF range
  <2> QED BY <1>12, <2>1 DEF range
<1>14. \A n \in 1 .. k : entries[Place(others, n)].run = ingested[Place(others, n)]
  BY <1>1, <1>8
<1>15. new.run = file[t] /\ new.when = stamp[t]
  BY DEF new
<1>16. RunsIn(now) = Again(file[t])
  <2> DEFINE sel == Selected(ingested, others)
             T == {ingested[i] : i \in 1 .. len}
  <2>1. sel \in Seq(T) /\ Len(sel) = k
    <3>1. \A i \in 1 .. len : ingested[i] \in T
      OBVIOUS
    <3>2. others \in SUBSET (1 .. len)
      BY DEF others
    <3> HIDE DEF T
    <3>3. Selected(ingested, others) \in Seq(T)
      BY <3>1, <3>2, SelectedSeq
    <3> QED BY <3>2, <3>3, SelectedLen DEF k
  <2>2. sel = [n \in 1 .. k |-> ingested[Place(others, n)]]
    BY <1>9
  <2>3. Again(file[t]) = Append(sel, file[t])
    BY DEF Again, others
  <2> HIDE DEF sel, T
  <2>4. Append(sel, file[t]) =
          [n \in 1 .. (k + 1) |-> IF n = k + 1 THEN file[t] ELSE ingested[Place(others, n)]]
    BY <1>6, <2>1, <2>2
  <2>5. RunsIn(now) = [n \in 1 .. (k + 1) |-> now[n].run]
    BY <1>12 DEF RunsIn
  <2>6. \A n \in 1 .. (k + 1) : now[n].run =
          IF n = k + 1 THEN file[t] ELSE ingested[Place(others, n)]
    BY <1>6, <1>12, <1>14, <1>15
  <2> QED BY <2>3, <2>4, <2>5, <2>6
<1>17. Until(now, stamp[t])
  <2>1. ASSUME NEW n \in 1 .. k
        PROVE  entries[Place(others, n)].when \in Nat
                 /\ entries[Place(others, n)].when <= stamp[t]
    <3>1. /\ entries[Place(others, n)].when \in Nat
          /\ entries[Place(others, n)].when <= stamp[t] - 1
      BY <1>1, <1>8 DEF Until, entries
    <3> QED BY <3>1
  <2>2. ASSUME NEW n \in 1 .. (k + 1)
        PROVE  now[n].when \in Nat /\ now[n].when <= stamp[t]
    BY <1>6, <1>12, <1>15, <2>1
  <2> QED BY <1>12, <2>2 DEF Until
<1> QED BY <1>11, <1>13, <1>16, <1>17

LEMMA AgainTyped ==
  ASSUME ingested \in Seq(Commands), NEW run \in Commands
  PROVE  /\ Again(run) \in Seq(Commands)
         /\ \A i \in DOMAIN Again(run) :
              Again(run)[i] = run \/ \E j \in DOMAIN ingested : Again(run)[i] = ingested[j]
<1> DEFINE len == Len(ingested)
           others == {i \in DOMAIN ingested : ingested[i] # run}
           sel == Selected(ingested, others)
           k == Cardinality(others)
<1>1. len \in Nat /\ DOMAIN ingested = 1 .. len /\ \A i \in 1 .. len : ingested[i] \in Commands
  OBVIOUS
<1>2. others \in SUBSET (1 .. len)
  BY <1>1
<1> HIDE DEF len
<1>3. sel \in Seq(Commands)
  <2> HIDE DEF others
  <2> QED BY <1>1, <1>2, SelectedSeq
<1>4. k \in Nat /\ Len(sel) = k
  <2> HIDE DEF others
  <2> QED BY <1>1, <1>2, SelectedLen
<1>5. sel = [n \in 1 .. k |-> ingested[Place(others, n)]]
  BY SelectedIs
<1>6. \A n \in 1 .. k : Place(others, n) \in 1 .. len
  <2> HIDE DEF others
  <2> QED BY <1>1, <1>2, PlaceChosen
<1>7. Again(run) = Append(sel, run)
  BY DEF Again
<1> HIDE DEF sel, others, k
<1>8. Again(run) \in Seq(Commands) /\ DOMAIN Again(run) = 1 .. (k + 1)
        /\ Again(run)[k + 1] = run /\ \A n \in 1 .. k : Again(run)[n] = sel[n]
  BY <1>3, <1>4, <1>7
<1>9. \A n \in 1 .. k : Again(run)[n] = ingested[Place(others, n)]
  BY <1>5, <1>8
<1> QED BY <1>1, <1>4, <1>6, <1>8, <1>9

-----------------------------------------------------------------------------
(***************************************************************************)
(* CalmInv.  Most steps leave the ingests alone.                           *)
(***************************************************************************)
LEMMA CalmInit == BoardInit => CalmInv
<1> SUFFICES ASSUME BoardInit PROVE CalmInv
  OBVIOUS
<1>1. Ingesting = {} /\ \A t \in Tools : toolAt[t] # "indexing"
  BY DEF BoardInit, ArchiveInit, Ingesting
<1>2. index.state = "missing" /\ index.entries = << >> /\ ingested = << >>
  BY DEF BoardInit
<1>3. RunsIn(<< >>) = << >>
  BY DEF RunsIn
<1>4. DOMAIN held = Tools /\ DOMAIN stamp = Tools /\ clock = 0
        /\ submission \in [Commands -> {"absent", "torn", "whole"}]
  BY DEF BoardInit
<1> QED BY <1>1, <1>2, <1>3, <1>4 DEF CalmInv, Until

LEMMA ToolsApart ==
  ASSUME ArchiveInv, ArchiveNext, NEW u \in Tools
  PROVE  \/ toolAt'[u] = toolAt[u] /\ (u \in Ingesting => file'[u] = file[u])
         \/ u \notin Ingesting /\ u \notin Ingesting'
<1>t. ToolTypeOK
  BY ArchiveParts
<1> USE <1>t DEF Move, Ends, Ingesting, ToolTypeOK
<1> DEFINE Apart == \/ toolAt'[u] = toolAt[u] /\ (u \in Ingesting => file'[u] = file[u])
                    \/ u \notin Ingesting /\ u \notin Ingesting'
<1>1. CASE Next /\ UNCHANGED toolVars
  BY <1>1 DEF toolVars
<1>2. ASSUME NEW t \in Tools, VerifyResolve(t) \/ VerifyBundle(t)
      PROVE  Apart
  BY <1>2 DEF VerifyResolve, VerifyBundle
<1>l. ASSUME NEW t \in Tools, VerifyLoad(t) PROVE Apart
  <2> USE <1>l DEF VerifyLoad
  <2>1. SessionTypeOK /\ ToolOK(t)
    BY ArchiveParts DEF SuccessInv
  <2>2. file[t] \in Commands
    BY <2>1, ArchiveAssumption DEF ToolOK, Accounted, Stored, SessionTypeOK
  <2>3. artifact[file[t]] \in {"absent", "torn", "whole"}
    BY <2>1, <2>2 DEF SessionTypeOK
  <2>4. \E place \in {"bundle", "done"} : toolAt' = [toolAt EXCEPT ![t] = place]
    BY <2>3
  <2> QED BY <2>4
<1>3. ASSUME NEW t \in Tools, MigrateBegin(t) \/ MigrateRead(t)
      PROVE  Apart
  BY <1>3 DEF MigrateBegin, MigrateRead
<1>4. ASSUME NEW t \in Tools, MigrateOpen(t) \/ MigrateFill(t)
      PROVE  Apart
  BY <1>4 DEF MigrateOpen, MigrateFill
<1>5. ASSUME NEW t \in Tools, MigrateFails(t) \/ ToolDies(t)
      PROVE  Apart
  BY <1>5 DEF MigrateFails, ToolDies
<1> QED BY <1>1, <1>2, <1>l, <1>3, <1>4, <1>5 DEF ArchiveNext, ToolNext

LEMMA CalmKept ==
  ASSUME CalmInv, UNCHANGED boardVars,
         \A u \in Tools :
           \/ toolAt'[u] = toolAt[u] /\ (u \in Ingesting => file'[u] = file[u])
           \/ u \notin Ingesting /\ u \notin Ingesting'
  PROVE  CalmInv'
<1> SUFFICES ASSUME calm' PROVE CalmInv'
  BY DEF CalmInv
<1>1. calm /\ UNCHANGED <<submission, index, held, stamp, clock, ingested>>
  BY DEF boardVars
<1>2. Ingesting' = Ingesting
  BY DEF Ingesting
<1>3. \A t \in Ingesting : toolAt'[t] = toolAt[t] /\ file'[t] = file[t]
  BY DEF Ingesting
<1>4. \A t \in Tools : toolAt'[t] = "indexing" <=> toolAt[t] = "indexing"
  BY DEF Ingesting
<1>5. ASSUME NEW t \in Ingesting PROVE TurnInv(t)'
  <2>1. TurnInv(t)
    BY <1>1 DEF CalmInv
  <2>2. Again(file[t])' = Again(file[t])
    BY <1>1, <1>3 DEF Again
  <2> QED BY <1>1, <1>3, <2>1, <2>2 DEF TurnInv, Until
<1> QED BY <1>1, <1>2, <1>3, <1>4, <1>5 DEF CalmInv, Until

\* An ingest that is at work while ingests take turns is the only one.
LEMMA TurnAlone ==
  ASSUME CalmInv, calm, NEW t \in Ingesting
  PROVE  /\ Ingesting = {t} /\ TurnInv(t) /\ t \in Tools
         /\ \A u \in Tools \ {t} : toolAt[u] # "indexing"
  BY DEF CalmInv, Ingesting

LEMMA SubmitCalm ==
  ASSUME ArchiveInv, CalmInv, NEW t \in Tools, Submit(t)
  PROVE  CalmInv'
<1>t. ToolTypeOK /\ SessionTypeOK
  BY ArchiveParts DEF SuccessInv
<1> SUFFICES ASSUME calm' PROVE CalmInv'
  BY DEF CalmInv
<1> USE DEF Submit, Move, Ends, IngestKeeps
<1>1. CASE Ends(t, "refused") /\ UNCHANGED <<file, stamp, clock, calm>>
  <2>1. UNCHANGED boardVars
    BY <1>1 DEF boardVars
  <2>2. \A u \in Tools :
          \/ toolAt'[u] = toolAt[u] /\ (u \in Ingesting => file'[u] = file[u])
          \/ u \notin Ingesting /\ u \notin Ingesting'
    BY <1>1, <1>t DEF Ingesting, ToolTypeOK
  <2> QED BY <2>1, <2>2, CalmKept
<1>2. ASSUME NEW r \in sealed, toolAt' = [toolAt EXCEPT ![t] = "store"],
             file' = [file EXCEPT ![t] = r], clock' = clock + 1,
             stamp' = [stamp EXCEPT ![t] = clock + 1],
             calm' = (calm /\ Ingesting = {})
      PROVE  CalmInv'
  <2>1. calm /\ Ingesting = {} /\ UNCHANGED <<submission, index, held, ingested>>
    BY <1>2
  <2>2. r \in Commands
    BY <1>t DEF SessionTypeOK
  <2>3. Ingesting' = {t} /\ toolAt'[t] = "store" /\ file'[t] = r
    BY <1>2, <1>t, <2>1 DEF Ingesting, ToolTypeOK
  <2>4. \A u \in Tools : toolAt[u] # "indexing"
    BY <2>1 DEF Ingesting
  <2>5. /\ clock \in Nat /\ DOMAIN held = Tools /\ DOMAIN stamp = Tools
        /\ submission \in [Commands -> {"absent", "torn", "whole"}]
        /\ ingested \in Seq(Commands)
        /\ index.state # "torn" /\ RunsIn(index.entries) = ingested
        /\ Until(index.entries, clock)
        /\ \A i \in DOMAIN ingested : submission[ingested[i]] = "whole"
    BY <2>1, <2>4 DEF CalmInv
  <2>6. stamp'[t] = clock + 1 /\ DOMAIN stamp' = Tools
    BY <1>2, <2>5
  <2>7. TurnInv(t)'
    BY <1>2, <2>1, <2>2, <2>3, <2>5, <2>6 DEF TurnInv, Until
  <2>8. Until(index.entries, clock)'
    BY <1>2, <2>1, <2>5 DEF Until
  <2> QED BY <1>2, <2>1, <2>3, <2>5, <2>6, <2>7, <2>8 DEF CalmInv
<1> QED BY <1>1, <1>2

LEMMA StoreCalm ==
  ASSUME ArchiveInv, CalmInv, NEW t \in Tools, StoreSubmission(t)
  PROVE  CalmInv'
<1>t. ToolTypeOK
  BY ArchiveParts
<1> SUFFICES ASSUME calm' PROVE CalmInv'
  BY DEF CalmInv
<1>1. calm /\ UNCHANGED <<file, index, held, stamp, clock, ingested>>
  BY DEF StoreSubmission
<1>2. /\ toolAt[t] \in {"store", "storing"}
      /\ \E place \in {"storing", "read"}, with \in {"torn", "whole"} :
           /\ toolAt' = [toolAt EXCEPT ![t] = place]
           /\ submission' = [submission EXCEPT ![file[t]] = with]
           /\ place = "read" => with = "whole"
  BY DEF StoreSubmission, Move
<1>3. Ingesting = {t} /\ TurnInv(t) /\ \A u \in Tools : toolAt[u] # "indexing"
  BY <1>1, <1>2, TurnAlone DEF Ingesting
<1>4. PICK place \in {"storing", "read"}, with \in {"torn", "whole"} :
        /\ toolAt' = [toolAt EXCEPT ![t] = place]
        /\ submission' = [submission EXCEPT ![file[t]] = with]
        /\ place = "read" => with = "whole"
  BY <1>2
<1>5. Ingesting' = {t} /\ toolAt'[t] = place /\ \A u \in Tools : toolAt'[u] # "indexing"
  BY <1>3, <1>4, <1>t DEF Ingesting, ToolTypeOK
<1>6. /\ clock \in Nat /\ DOMAIN held = Tools /\ DOMAIN stamp = Tools
      /\ submission \in [Commands -> {"absent", "torn", "whole"}]
      /\ ingested \in Seq(Commands)
      /\ index.state # "torn" /\ RunsIn(index.entries) = ingested
      /\ Until(index.entries, clock)
      /\ \A i \in DOMAIN ingested :
           submission[ingested[i]] = "whole" \/ file[t] = ingested[i]
  BY <1>1, <1>3 DEF CalmInv
<1>7. file[t] \in Commands
  BY <1>3 DEF TurnInv
<1>8. /\ submission' \in [Commands -> {"absent", "torn", "whole"}]
      /\ submission'[file[t]] = with
      /\ \A r \in Commands : r # file[t] => submission'[r] = submission[r]
  BY <1>4, <1>6, <1>7
<1>9. TurnInv(t)'
  BY <1>1, <1>3, <1>4, <1>5, <1>8 DEF TurnInv, Until
<1>10. \A i \in DOMAIN ingested :
         submission'[ingested[i]] = "whole" \/ file[t] = ingested[i]
  BY <1>6, <1>8
<1> QED BY <1>1, <1>5, <1>6, <1>8, <1>9, <1>10 DEF CalmInv, Until

LEMMA ReadCalm ==
  ASSUME ArchiveInv, CalmInv, NEW t \in Tools, ReadIndex(t)
  PROVE  CalmInv'
<1>t. ToolTypeOK
  BY ArchiveParts
<1> SUFFICES ASSUME calm' PROVE CalmInv'
  BY DEF CalmInv
<1>1. /\ calm /\ UNCHANGED <<file, index, submission, stamp, clock, ingested>>
      /\ toolAt[t] = "read" /\ toolAt' = [toolAt EXCEPT ![t] = "index"]
      /\ held' = [held EXCEPT ![t] = EntriesWith(t)]
  BY DEF ReadIndex, Move
<1>2. Ingesting = {t} /\ TurnInv(t) /\ \A u \in Tools : toolAt[u] # "indexing"
  BY <1>1, TurnAlone DEF Ingesting
<1>3. Ingesting' = {t} /\ toolAt'[t] = "index" /\ \A u \in Tools : toolAt'[u] # "indexing"
  BY <1>1, <1>2, <1>t DEF Ingesting, ToolTypeOK
<1>4. /\ clock \in Nat /\ DOMAIN held = Tools /\ DOMAIN stamp = Tools
      /\ submission \in [Commands -> {"absent", "torn", "whole"}]
      /\ ingested \in Seq(Commands)
      /\ index.state # "torn" /\ RunsIn(index.entries) = ingested
      /\ Until(index.entries, clock)
      /\ \A i \in DOMAIN ingested :
           submission[ingested[i]] = "whole" \/ file[t] = ingested[i]
  BY <1>1, <1>2 DEF CalmInv
<1>5. /\ stamp[t] \in Nat /\ stamp[t] <= clock /\ Until(index.entries, stamp[t] - 1)
      /\ stamp[t] \in 1 .. clock /\ file[t] \in Commands
      /\ submission[file[t]] = "whole"
  BY <1>1, <1>2, <1>4 DEF TurnInv
<1> DEFINE now == EntriesWith(t)
<1>6. now \in Seq({now[i] : i \in DOMAIN now}) /\ RunsIn(now) = Again(file[t])
        /\ Until(now, stamp[t])
  <2> DEFINE len == Len(ingested)
  <2>1. len \in Nat /\ DOMAIN ingested = 1 .. len
    BY <1>4
  <2>2. RunsIn(index.entries) = ingested
    BY <1>4
  <2>3. stamp[t] \in Nat /\ Until(index.entries, stamp[t] - 1)
    BY <1>5
  <2> HIDE DEF len
  <2> QED BY ONLY <2>1, <2>2, <2>3, HeldLast
<1>7. Until(now, clock)
  <2> HIDE DEF now
  <2>1. ASSUME NEW i \in DOMAIN now PROVE now[i].when \in Nat /\ now[i].when <= clock
    <3>1. now[i].when \in Nat /\ now[i].when <= stamp[t]
      BY <1>6 DEF Until
    <3> QED BY <1>4, <1>5, <3>1
  <2> QED BY <2>1 DEF Until
<1>8. held'[t] = now /\ DOMAIN held' = Tools
  BY <1>1, <1>4
<1>9. Again(file[t])' = Again(file[t])
  BY <1>1 DEF Again
<1> HIDE DEF now
<1>10. TurnInv(t)'
  BY <1>1, <1>3, <1>5, <1>6, <1>7, <1>8, <1>9 DEF TurnInv, Until
<1> QED BY <1>1, <1>3, <1>4, <1>8, <1>10 DEF CalmInv, Until

LEMMA WriteCalm ==
  ASSUME ArchiveInv, CalmInv, NEW t \in Tools, WriteIndex(t)
  PROVE  CalmInv'
<1>t. ToolTypeOK
  BY ArchiveParts
<1> SUFFICES ASSUME calm' PROVE CalmInv'
  BY DEF CalmInv
<1>1. calm /\ UNCHANGED <<submission, clock>> /\ toolAt[t] \in {"index", "indexing"}
  BY DEF WriteIndex
<1>2. Ingesting = {t} /\ TurnInv(t) /\ \A u \in Tools \ {t} : toolAt[u] # "indexing"
  BY <1>1, TurnAlone DEF Ingesting
<1>3. /\ clock \in Nat /\ DOMAIN held = Tools /\ DOMAIN stamp = Tools
      /\ submission \in [Commands -> {"absent", "torn", "whole"}]
      /\ ingested \in Seq(Commands)
      /\ \A i \in DOMAIN ingested :
           submission[ingested[i]] = "whole" \/ file[t] = ingested[i]
  BY <1>1, <1>2 DEF CalmInv
<1>4. /\ file[t] \in Commands /\ submission[file[t]] = "whole"
      /\ stamp[t] \in 1 .. clock
      /\ held[t] \in Seq({held[t][i] : i \in DOMAIN held[t]})
      /\ RunsIn(held[t]) = Again(file[t]) /\ Until(held[t], clock)
  BY <1>1, <1>2 DEF TurnInv
<1>5. CASE toolAt[t] = "index"
  <2>1. /\ toolAt' = [toolAt EXCEPT ![t] = "indexing"]
        /\ index' = [state |-> "torn", entries |-> << >>]
        /\ UNCHANGED <<file, held, stamp, ingested>>
    BY <1>5 DEF WriteIndex, Move
  <2>2. Ingesting' = {t} /\ toolAt'[t] = "indexing"
    BY <1>2, <1>t, <2>1 DEF Ingesting, ToolTypeOK
  <2>3. index'.entries = << >> /\ DOMAIN << >> = {}
    BY <2>1
  <2>4. Again(file[t])' = Again(file[t])
    BY <2>1 DEF Again
  <2>5. TurnInv(t)'
    BY <1>1, <1>4, <2>1, <2>2, <2>3, <2>4 DEF TurnInv, Until
  <2> QED BY <1>1, <1>3, <2>1, <2>2, <2>5 DEF CalmInv
<1>6. CASE toolAt[t] = "indexing"
  <2>1. /\ toolAt' = [toolAt EXCEPT ![t] = "done"]
        /\ held' = [held EXCEPT ![t] = << >>] /\ stamp' = [stamp EXCEPT ![t] = 0]
        /\ index' = IF Len(index.entries) > Len(held[t])
                      THEN [state |-> "torn", entries |-> << >>]
                      ELSE [state |-> "whole", entries |-> held[t]]
        /\ ingested' = Again(file[t])
    BY <1>1, <1>6 DEF WriteIndex, Finished, Ends, Move
  <2>2. index.entries = << >>
    BY <1>2, <1>6 DEF TurnInv
  <2>3. Len(index.entries) = 0 /\ Len(held[t]) \in Nat
    BY <1>4, <2>2
  <2>4. index'.state = "whole" /\ index'.entries = held[t]
    BY <2>1, <2>3
  <2>5. Ingesting' = {}
    BY <1>2, <1>t, <2>1 DEF Ingesting, ToolTypeOK
  <2>6. /\ ingested' \in Seq(Commands)
        /\ \A i \in DOMAIN ingested' :
             \/ ingested'[i] = file[t]
             \/ \E j \in DOMAIN ingested : ingested'[i] = ingested[j]
    BY <1>3, <1>4, <2>1, AgainTyped
  <2>7. \A i \in DOMAIN ingested' : submission'[ingested'[i]] = "whole"
    BY <1>1, <1>3, <1>4, <2>6
  <2>8. RunsIn(index.entries)' = ingested' /\ Until(index.entries, clock)'
    BY <1>1, <1>4, <2>1, <2>4 DEF RunsIn, Until
  <2>9. DOMAIN held' = Tools /\ DOMAIN stamp' = Tools
    BY <1>3, <2>1
  <2> QED BY <1>1, <1>3, <2>4, <2>5, <2>6, <2>7, <2>8, <2>9 DEF CalmInv
<1> QED BY <1>1, <1>5, <1>6

LEMMA NextCalm == ArchiveInv /\ CalmInv /\ [BoardNext]_archiveVars => CalmInv'
<1> SUFFICES ASSUME ArchiveInv, CalmInv, [BoardNext]_archiveVars PROVE CalmInv'
  OBVIOUS
<1>1. CASE ArchiveNext /\ UNCHANGED boardVars
  BY <1>1, ToolsApart, CalmKept
<1>2. ASSUME NEW t \in Tools, IngestFails(t) PROVE CalmInv'
  BY <1>2 DEF IngestFails, CalmInv
<1>3. CASE UNCHANGED archiveVars
  <2>1. UNCHANGED boardVars /\ UNCHANGED <<toolAt, file>>
    BY <1>3 DEF archiveVars, toolVars
  <2> QED BY <2>1, CalmKept
<1> QED BY <1>1, <1>2, <1>3, SubmitCalm, StoreCalm, ReadCalm, WriteCalm DEF BoardNext

-----------------------------------------------------------------------------
\* Ingests one after the other that do not fail are all in the index, in the
\* order of their last time, with whole submissions (leaderboard.py:97-139).
THEOREM IndexFollowsIngestsCorrect == BoardSpec => []IndexFollowsIngests
<1>1. BoardSpec => []CalmInv
  BY CalmInit, NextCalm, ArchiveInvariant, PTL DEF BoardSpec
<1>2. CalmInv => IndexFollowsIngests
  <2> SUFFICES ASSUME CalmInv, calm, Ingesting = {}
               PROVE  /\ RunsIn(index.entries) = ingested
                      /\ \A r \in Listed : submission[r] = "whole"
    BY DEF IndexFollowsIngests
  <2>1. \A t \in Tools : toolAt[t] # "indexing"
    BY DEF Ingesting
  <2>2. /\ RunsIn(index.entries) = ingested
        /\ \A i \in DOMAIN ingested : submission[ingested[i]] = "whole"
    BY <2>1 DEF CalmInv
  <2>3. DOMAIN index.entries = DOMAIN ingested
          /\ \A i \in DOMAIN ingested : index.entries[i].run = ingested[i]
    BY <2>2 DEF RunsIn
  <2> QED BY <2>2, <2>3 DEF Listed
<1> QED BY <1>1, <1>2, PTL
=============================================================================
