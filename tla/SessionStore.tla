----------------------------- MODULE SessionStore -----------------------------
(***************************************************************************)
(* The files that tracecore commands of one working directory share: the   *)
(* run artifacts under .agent_bench/runs (agent_bench/runner/runlog.py)    *)
(* and the session pointer .agent_bench/session.json (agent_bench/         *)
(* session.py), under `run` and `bundle seal --latest` (agent_bench/       *)
(* cli.py).  Commands run in processes of their own, take no locks and may *)
(* die at any point.  Every file is emptied when it is opened for writing. *)
(*                                                                         *)
(* A command is also the name of the run it makes: run_id is new for each. *)
(***************************************************************************)
CONSTANTS Commands,  \* the commands a user gives, each once
          NoRun      \* None

ASSUME SessionAssumption == NoRun \notin Commands

VARIABLES at,        \* where each command is
          episode,   \* how the run of each command ended
          artifact,  \* its file under .agent_bench/runs
          warned,    \* runs whose persist_run failed, with a warning
          session,   \* session.json: torn, or the pointer it holds
          pointer,   \* the pointer each command is about to save
          target,    \* the run a `bundle seal` has resolved
          sealed,    \* the runs that have a bundle
          latest,    \* history: what the last commands to finish did
          quiet      \* history: never two commands at once, no session
                     \* file that could not be saved, none died

vars == <<at, episode, artifact, warned, session, pointer, target, sealed,
          latest, quiet>>

Runs == Commands \cup {NoRun}
SessionPointer == [run: Runs, success: Runs, bundle: Runs]
NoSession == [run |-> NoRun, success |-> NoRun, bundle |-> NoRun]
File == [whole: BOOLEAN, pointer: SessionPointer]
Torn == [whole |-> FALSE, pointer |-> NoSession]

Places == {"idle", "persist", "persisting", "load", "save", "saving", "done",
           "died"}
Active == {c \in Commands : at[c] \notin {"idle", "done", "died"}}

SessionTypeOK ==
  /\ at \in [Commands -> Places]
  /\ episode \in [Commands -> {"none", "success", "failure"}]
  /\ artifact \in [Commands -> {"absent", "torn", "whole"}]
  /\ warned \subseteq Commands
  /\ session \in File
  /\ pointer \in [Commands -> SessionPointer]
  /\ target \in [Commands -> Runs]
  /\ sealed \subseteq Commands
  /\ latest \in SessionPointer
  /\ quiet \in BOOLEAN

-----------------------------------------------------------------------------
\* load_session: a file that is missing or does not parse is no session.
LoadSession == session.pointer

\* Mutants: the latest success forgotten by a run that fails, or taken from
\* any run.
UpdatedByRunForgetful(c) ==
  [LoadSession EXCEPT !.run = c,
     !.success = IF episode[c] = "success" THEN c ELSE NoRun]
UpdatedByAnyRun(c) == [LoadSession EXCEPT !.run = c, !.success = c]

\* update_after_run and update_after_bundle.
UpdatedByRun(c) ==
  [LoadSession EXCEPT !.run = c,
     !.success = IF episode[c] = "success" THEN c ELSE @]
UpdatedByBundle(c) == [LoadSession EXCEPT !.bundle = target[c]]

\* latest_run_id(prefer_success=True).
LatestRunId ==
  IF LoadSession.success # NoRun THEN LoadSession.success ELSE LoadSession.run

-----------------------------------------------------------------------------
Init ==
  /\ at = [c \in Commands |-> "idle"]
  /\ episode = [c \in Commands |-> "none"]
  /\ artifact = [c \in Commands |-> "absent"]
  /\ warned = {}
  /\ session = Torn
  /\ pointer = [c \in Commands |-> NoSession]
  /\ target = [c \in Commands |-> NoRun]
  /\ sealed = {}
  /\ latest = NoSession
  /\ quiet = TRUE

Go(c, place) == at' = [at EXCEPT ![c] = place]
Begun == quiet' = (quiet /\ Active = {})

\* Mutant: only a run that succeeds is persisted.
RunSuccessPersisted(c, ended) ==
  /\ at[c] = "idle"
  /\ Go(c, IF ended = "success" THEN "persist" ELSE "load")
  /\ episode' = [episode EXCEPT ![c] = ended]
  /\ Begun
  /\ UNCHANGED <<artifact, warned, session, pointer, target, sealed, latest>>

\* _cmd_run, up to the artifact that run() returns.
Run(c, ended) ==
  /\ at[c] = "idle"
  /\ Go(c, "persist")
  /\ episode' = [episode EXCEPT ![c] = ended]
  /\ Begun
  /\ UNCHANGED <<artifact, warned, session, pointer, target, sealed, latest>>

\* persist_run opens the artifact's file and fills it.
OpenArtifact(c) ==
  /\ at[c] = "persist"
  /\ Go(c, "persisting")
  /\ artifact' = [artifact EXCEPT ![c] = "torn"]
  /\ UNCHANGED <<episode, warned, session, pointer, target, sealed, latest,
                 quiet>>

FillArtifact(c) ==
  /\ at[c] = "persisting"
  /\ Go(c, "load")
  /\ artifact' = [artifact EXCEPT ![c] = "whole"]
  /\ UNCHANGED <<episode, warned, session, pointer, target, sealed, latest,
                 quiet>>

\* Either of them raises: _cmd_run warns and goes on.
PersistFails(c) ==
  /\ at[c] \in {"persist", "persisting"}
  /\ Go(c, "load")
  /\ warned' = warned \cup {c}
  /\ UNCHANGED <<episode, artifact, session, pointer, target, sealed, latest,
                 quiet>>

\* _cmd_bundle_seal: resolve the run, load its artifact and write the bundle;
\* or find no run, no file or a torn one.
Seal(c) ==
  /\ at[c] = "idle"
  /\ Begun
  /\ LET r == LatestRunId
     IN  IF r # NoRun /\ artifact[r] = "whole"
           THEN /\ Go(c, "load")
                /\ target' = [target EXCEPT ![c] = r]
                /\ sealed' = sealed \cup {r}
           ELSE Go(c, "done") /\ UNCHANGED <<target, sealed>>
  /\ UNCHANGED <<episode, artifact, warned, session, pointer, latest>>

\* update_after_run, update_after_bundle: load, then open and fill.
Load(c) ==
  /\ at[c] = "load"
  /\ Go(c, "save")
  /\ pointer' = [pointer EXCEPT ![c] = IF target[c] = NoRun
                                         THEN UpdatedByRun(c)
                                         ELSE UpdatedByBundle(c)]
  /\ UNCHANGED <<episode, artifact, warned, session, target, sealed, latest,
                 quiet>>

OpenSession(c) ==
  /\ at[c] = "save"
  /\ Go(c, "saving")
  /\ session' = Torn
  /\ UNCHANGED <<episode, artifact, warned, pointer, target, sealed, latest,
                 quiet>>

\* History: what the last commands to finish did, once this one has.
Concluded(c) ==
  IF target[c] # NoRun
    THEN [latest EXCEPT !.bundle = target[c]]
    ELSE [latest EXCEPT !.run = c,
            !.success = IF episode[c] = "success" THEN c ELSE @]

\* A file that another command has filled since this one emptied it keeps the
\* end of what was there if that was longer.
FillSession(c) ==
  /\ at[c] = "saving"
  /\ Go(c, "done")
  /\ session' \in {[whole |-> TRUE, pointer |-> pointer[c]]} \cup
       (IF session.whole /\ session.pointer # pointer[c] THEN {Torn} ELSE {})
  /\ latest' = Concluded(c)
  /\ UNCHANGED <<episode, artifact, warned, pointer, target, sealed, quiet>>

\* Either of them raises: the command goes on as if it had not.
SaveFails(c) ==
  /\ at[c] \in {"save", "saving"}
  /\ Go(c, "done")
  /\ quiet' = FALSE
  /\ UNCHANGED <<episode, artifact, warned, session, pointer, target, sealed,
                 latest>>

\* A command dies, whatever it was writing left as it is.
Die(c) ==
  /\ c \in Active
  /\ Go(c, "died")
  /\ quiet' = FALSE
  /\ UNCHANGED <<episode, artifact, warned, session, pointer, target, sealed,
                 latest>>

Next ==
  \E c \in Commands :
    \/ \E ended \in {"success", "failure"} : Run(c, ended)
    \/ OpenArtifact(c)
    \/ FillArtifact(c)
    \/ PersistFails(c)
    \/ Seal(c)
    \/ Load(c)
    \/ OpenSession(c)
    \/ FillSession(c)
    \/ SaveFails(c)
    \/ Die(c)

Spec == Init /\ [][Next]_vars

-----------------------------------------------------------------------------
\* What the session points to: the pointer of the file, and those that
\* commands are about to save.
Pointers == {session.pointer} \cup {pointer[c] : c \in Commands}

\* Whatever commands overlap and die, the run that the session calls a
\* success is one (session.py:71-76).
SuccessIsSuccess ==
  \A p \in Pointers : p.success # NoRun => episode[p.success] = "success"

\* A run the session points to has its whole artifact on disk, unless the
\* user was warned that it has not, so `verify` and `bundle seal` find it; a
\* bundle it points to has been written, of a run that is there in full
\* (cli.py:272-295, 450-458; runlog.py:45-49).
Stored == {r \in Commands : artifact[r] = "whole"}
PointersResolve ==
  \A p \in Pointers :
    /\ {p.run, p.success} \subseteq Stored \cup warned \cup {NoRun}
    /\ p.bundle \in (sealed \cap Stored) \cup {NoRun}

\* Commands given one after the other find the last run, the last successful
\* run and the last bundle (README.md:79, CHANGELOG.md:51).
SessionFollowsHistory == quiet /\ Active = {} => session.pointer = latest

\* A command not yet given has run and resolved nothing.
Unstarted ==
  \A c \in Commands : at[c] = "idle" => episode[c] = "none" /\ target[c] = NoRun

SuccessInv == SessionTypeOK /\ Unstarted /\ SuccessIsSuccess

\* What each command has done when it comes to update the session: the
\* strengthening that makes PointersResolve inductive.
StageInv ==
  \A c \in Commands :
    /\ at[c] \in {"idle", "persist", "persisting"} => artifact[c] # "whole"
    /\ at[c] = "load" /\ target[c] = NoRun => c \in Stored \cup warned
    /\ target[c] \in (sealed \cap Stored) \cup {NoRun}

SessionInv == SuccessInv /\ StageInv /\ PointersResolve

\* As long as no two commands overlap, no save fails and none dies, the one
\* command at work finds the history in the session until it empties the file,
\* and what it is about to write is the history with it: the strengthening that
\* makes SessionFollowsHistory inductive.
QuietInv ==
  quiet =>
    /\ \A c, d \in Active : c = d
    /\ (\A c \in Active : at[c] # "saving") => session.pointer = latest
    /\ \A c \in Active : at[c] = "saving" => ~session.whole
    /\ \A c \in Active : at[c] \in {"save", "saving"} => pointer[c] = Concluded(c)

-----------------------------------------------------------------------------
\* README.md:85 "seals from the latest successful run".
SealsOnlySuccess == \A r \in sealed : episode[r] = "success"

\* CHANGELOG.md:51 "records the latest run ID, latest successful run ID": a
\* success recorded is not forgotten when commands overlap.
SuccessIsRemembered ==
  Active = {} /\ latest.success # NoRun => session.pointer.success # NoRun

\* tracecore-spec-v1.0.md:28 "Write the artifact atomically".
ArtifactsAreAtomic == \A c \in Commands : at[c] = "died" => artifact[c] # "torn"
=============================================================================
