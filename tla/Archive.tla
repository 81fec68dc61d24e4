-------------------------------- MODULE Archive --------------------------------
(***************************************************************************)
(* The commands that use what SessionStore's commands leave behind:        *)
(* `verify` (cli.py) and `runs migrate --write` (runner/migration.py).     *)
(* They run beside runs and seals, and beside each other, without locks.   *)
(***************************************************************************)
EXTENDS SessionStore

CONSTANTS Tools,   \* the commands of this kind that a user gives, each once
          OldRuns  \* runs an earlier version has left

ASSUME ArchiveAssumption == OldRuns \subseteq Commands

VARIABLES toolAt,    \* where each tool is
          file,      \* the run it works on
          todo,      \* the files it has still to read
          answer,    \* how it has ended
          errors,    \* whether the report of a migration has an error
          legacy,    \* artifacts in the format of an earlier version
          rewritten  \* history: artifacts that a migration has opened

toolVars == <<toolAt, file, todo, answer, errors, legacy, rewritten>>

Move(t, place) == toolAt' = [toolAt EXCEPT ![t] = place]
Ends(t, with) == Move(t, "done") /\ answer' = [answer EXCEPT ![t] = with]
ToolsKeepSession == UNCHANGED <<at, episode, warned, session, pointer, target,
                                sealed, latest, quiet>>

\* An earlier version has left runs and bundles, but no session.
ArchiveInit ==
  /\ episode = [c \in Commands |-> "none"]
  /\ warned = {} /\ session = Torn /\ pointer = [c \in Commands |-> NoSession]
  /\ target = [c \in Commands |-> NoRun] /\ sealed = OldRuns /\ latest = NoSession
  /\ quiet = TRUE
  /\ at = [c \in Commands |-> IF c \in OldRuns THEN "done" ELSE "idle"]
  /\ artifact = [c \in Commands |-> IF c \in OldRuns THEN "whole" ELSE "absent"]
  /\ legacy = OldRuns /\ rewritten = {}
  /\ toolAt = [t \in Tools |-> "idle"] /\ file = [t \in Tools |-> NoRun]
  /\ todo = [t \in Tools |-> {}] /\ answer = [t \in Tools |-> "none"]
  /\ errors = [t \in Tools |-> FALSE]

-----------------------------------------------------------------------------
\* _cmd_verify without arguments: the run of the session,
VerifyResolve(t) ==
  /\ toolAt[t] = "idle"
  /\ IF LatestRunId = NoRun THEN Ends(t, "nothing") /\ UNCHANGED file
     ELSE /\ Move(t, "load")
          /\ file' = [file EXCEPT ![t] = LatestRunId]
          /\ UNCHANGED answer
  /\ UNCHANGED <<errors, todo, legacy, rewritten, artifact>> /\ ToolsKeepSession

\* its artifact, of which only that it is missing is caught,
VerifyLoad(t) ==
  /\ toolAt[t] = "load"
  /\ CASE artifact[file[t]] = "whole" -> Move(t, "bundle") /\ UNCHANGED answer
       [] artifact[file[t]] = "torn" -> Ends(t, "raised")
       [] artifact[file[t]] = "absent" -> Ends(t, "missing")
  /\ UNCHANGED <<errors, file, todo, legacy, rewritten, artifact>>
  /\ ToolsKeepSession

\* and the bundle of the session as it is by then, of whichever run
\* (record_mode.md:72-74); Replay compares the two.
VerifyBundle(t) ==
  /\ toolAt[t] = "bundle"
  /\ Ends(t, "compared")
  /\ UNCHANGED <<errors, file, todo, legacy, rewritten, artifact>> /\ ToolsKeepSession

-----------------------------------------------------------------------------
\* migrate_run_directory lists the files first.
MigrateBegin(t) ==
  /\ toolAt[t] = "idle"
  /\ Move(t, "migrating")
  /\ todo' = [todo EXCEPT ![t] = {c \in Commands : artifact[c] # "absent"}]
  /\ UNCHANGED <<errors, file, answer, legacy, rewritten, artifact>>
  /\ ToolsKeepSession

\* Mutant: a file that does not parse is passed over.
ReportedNone(r) == FALSE

\* migrate_run_file: a file that does not parse is an error of the report.
Reported(r) == artifact[r] # "whole"

MigrateRead(t) ==
  /\ toolAt[t] = "migrating"
  /\ \/ \E r \in todo[t] :
          /\ todo' = [todo EXCEPT ![t] = @ \ {r}]
          /\ errors' = [errors EXCEPT ![t] = @ \/ Reported(r)]
          /\ IF artifact[r] = "whole" /\ r \in legacy
               THEN Move(t, "rewrite") /\ file' = [file EXCEPT ![t] = r]
               ELSE UNCHANGED <<toolAt, file>>
          /\ UNCHANGED answer
     \/ todo[t] = {} /\ Ends(t, "migrated") /\ file' = [file EXCEPT ![t] = NoRun]
        /\ UNCHANGED <<todo, errors>>
  /\ UNCHANGED <<legacy, rewritten, artifact>> /\ ToolsKeepSession

MigrateOpen(t) ==
  /\ toolAt[t] = "rewrite"
  /\ Move(t, "rewriting")
  /\ artifact' = [artifact EXCEPT ![file[t]] = "torn"]
  /\ rewritten' = rewritten \cup {file[t]}
  /\ UNCHANGED <<file, todo, answer, errors, legacy>> /\ ToolsKeepSession

MigrateFill(t) ==
  /\ toolAt[t] = "rewriting"
  /\ Move(t, "migrating")
  /\ artifact' = [artifact EXCEPT ![file[t]] = "whole"]
  /\ legacy' = legacy \ {file[t]}
  /\ UNCHANGED <<file, todo, answer, errors, rewritten>> /\ ToolsKeepSession

\* Either of them raises: the next file.
MigrateFails(t) ==
  /\ toolAt[t] \in {"rewrite", "rewriting"}
  /\ Move(t, "migrating")
  /\ errors' = [errors EXCEPT ![t] = TRUE]
  /\ UNCHANGED <<file, todo, answer, legacy, rewritten, artifact>>
  /\ ToolsKeepSession

ToolDies(t) ==
  /\ toolAt[t] \in {"load", "bundle", "migrating", "rewrite", "rewriting"}
  /\ Ends(t, "died")
  /\ todo' = [todo EXCEPT ![t] = {}] /\ file' = [file EXCEPT ![t] = NoRun]
  /\ UNCHANGED <<errors, legacy, rewritten, artifact>>
  /\ ToolsKeepSession

ToolNext ==
  \E t \in Tools :
    \/ VerifyResolve(t)
    \/ VerifyLoad(t)
    \/ VerifyBundle(t)
    \/ MigrateBegin(t)
    \/ MigrateRead(t)
    \/ MigrateOpen(t)
    \/ MigrateFill(t)
    \/ MigrateFails(t)
    \/ ToolDies(t)

ArchiveNext == (Next /\ UNCHANGED toolVars) \/ ToolNext

-----------------------------------------------------------------------------
\* verify finds the artifact of the run the session names and can read it,
\* unless the user was warned that it was not stored or a migration has had
\* it open for writing (cli.py:149-172, session.py:106-112, migration.py:165).
VerifyFindsItsRun ==
  \A t \in Tools : answer[t] \in {"missing", "raised"} /\ file[t] # NoRun
                     => file[t] \in warned \cup rewritten

\* A migration that reports no error leaves no artifact in an old format,
\* whatever other migrations, runs and readers do beside it
\* (migration.py:174-196).
MigrationIsComplete ==
  \A t \in Tools : answer[t] = "migrated" /\ ~errors[t] => legacy = {}
=============================================================================
