------------------------------ MODULE Leaderboard ------------------------------
(***************************************************************************)
(* `leaderboard submit` (agent_bench/leaderboard.py): a submission file    *)
(* per run and one index.json, which every ingest reads, changes and       *)
(* rewrites.  Composed with Archive, whose tools may be ingests as well.   *)
(***************************************************************************)
EXTENDS Archive, Naturals, Sequences, FiniteSets

CONSTANT MaxDeaths  \* bound on the commands that die, or ingests that fail
ASSUME BoardAssumption == MaxDeaths \in Nat

VARIABLES submission,  \* the submission file of each run
          index,       \* index.json: missing, torn, or a list of entries
          held,        \* the entries an ingest is about to write
          stamp,       \* ingested_at of an ingest
          clock,       \* the time
          ingested,    \* history: runs in the order of their last ingest, while calm
          calm         \* history: never two ingests at once, none died or failed

boardVars == <<submission, index, held, stamp, clock, ingested, calm>>
archiveVars == <<vars, toolVars, boardVars>>

Ingesting == {t \in Tools : toolAt[t] \in {"store", "storing", "read", "index",
                                           "indexing"}}

BoardInit ==
  /\ ArchiveInit
  /\ submission = [c \in Commands |-> "absent"]
  /\ index = [state |-> "missing", entries |-> <<>>]
  /\ held = [t \in Tools |-> <<>>] /\ stamp = [t \in Tools |-> 0]
  /\ clock = 0 /\ ingested = <<>> /\ calm = TRUE

IngestKeeps == UNCHANGED <<vars, todo, errors, legacy, rewritten>>

\* An ingest ends; what it held is of no use any more.
Finished(t, with) ==
  /\ Ends(t, with)
  /\ file' = [file EXCEPT ![t] = NoRun] /\ held' = [held EXCEPT ![t] = <<>>]
  /\ stamp' = [stamp EXCEPT ![t] = 0]

\* build_submission_record: a bundle that does not verify, or is not signed,
\* is refused.
Submit(t) ==
  /\ toolAt[t] = "idle"
  /\ \E r \in sealed :
       \/ Ends(t, "refused") /\ UNCHANGED <<file, stamp, clock, calm>>
       \/ /\ Move(t, "store")
          /\ file' = [file EXCEPT ![t] = r]
          /\ clock' = clock + 1
          /\ stamp' = [stamp EXCEPT ![t] = clock + 1]
          /\ calm' = (calm /\ Ingesting = {})
          /\ UNCHANGED answer
  /\ UNCHANGED <<submission, index, held, ingested>> /\ IngestKeeps

\* ingest_bundle writes the submission,
StoreSubmission(t) ==
  /\ \/ toolAt[t] = "store" /\ Move(t, "storing")
        /\ submission' = [submission EXCEPT ![file[t]] = "torn"]
     \/ toolAt[t] = "storing" /\ Move(t, "read")
        /\ submission' = [submission EXCEPT ![file[t]] = "whole"]
  /\ UNCHANGED <<file, answer, index, held, stamp, clock, ingested, calm>>
  /\ IngestKeeps

\* Mutant: the other entries are not kept.
EntriesAlone(t) == <<[run |-> file[t], when |-> stamp[t]]>>

\* What a list has at these places, in its order.
Selected(list, places) ==
  [n \in 1 .. Cardinality(places) |->
     list[CHOOSE i \in places : Cardinality({j \in places : j <= i}) = n]]

\* replaces the entry of its run and sorts by ingested_at,
EntriesWith(t) ==
  LET entries == index.entries
      others == {i \in DOMAIN entries : entries[i].run # file[t]}
      before == {i \in others : entries[i].when < stamp[t]}
      after == {i \in others : entries[i].when > stamp[t]}
  IN Selected(entries, before) \o <<[run |-> file[t], when |-> stamp[t]]>>
       \o Selected(entries, after)

\* The runs in the order of their last ingest, with this one.
Again(run) ==
  Append(Selected(ingested, {i \in DOMAIN ingested : ingested[i] # run}), run)

\* of the index that it has read; one that does not parse raises,
ReadIndex(t) ==
  /\ toolAt[t] = "read"
  /\ IF index.state = "torn"
       THEN Finished(t, "failed") /\ calm' = FALSE
       ELSE /\ Move(t, "index")
            /\ held' = [held EXCEPT ![t] = EntriesWith(t)]
            /\ UNCHANGED <<file, answer, stamp, calm>>
  /\ UNCHANGED <<submission, index, clock, ingested>> /\ IngestKeeps

\* and writes the index.  One that another ingest has filled since this one
\* emptied it keeps the end of what was there if that was longer.
WriteIndex(t) ==
  /\ \/ /\ toolAt[t] = "index" /\ Move(t, "indexing")
        /\ index' = [state |-> "torn", entries |-> <<>>]
        /\ UNCHANGED <<file, answer, held, stamp, ingested>>
     \/ /\ toolAt[t] = "indexing" /\ Finished(t, "ingested")
        /\ index' = IF Len(index.entries) > Len(held[t])
                      THEN [state |-> "torn", entries |-> <<>>]
                      ELSE [state |-> "whole", entries |-> held[t]]
        /\ ingested' = IF calm THEN Again(file[t]) ELSE <<>>
  /\ UNCHANGED <<submission, clock, calm>> /\ IngestKeeps

\* Reading or writing raises, or the process dies.
IngestFails(t) ==
  /\ t \in Ingesting
  /\ Finished(t, "failed")
  /\ calm' = FALSE
  /\ UNCHANGED <<submission, index, clock, ingested>>
  /\ IngestKeeps

Deaths == Cardinality({c \in Commands : at[c] = "died"})
            + Cardinality({t \in Tools : answer[t] \in {"died", "failed"}})

BoardNext ==
  /\ \/ ArchiveNext /\ UNCHANGED boardVars
     \/ \E t \in Tools : \/ Submit(t)
                         \/ StoreSubmission(t)
                         \/ ReadIndex(t)
                         \/ WriteIndex(t)
                         \/ IngestFails(t)
  /\ Deaths' <= MaxDeaths

BoardSpec == BoardInit /\ [][BoardNext]_archiveVars

-----------------------------------------------------------------------------
RunsIn(entries) == [i \in DOMAIN entries |-> entries[i].run]
Listed == {index.entries[i].run : i \in DOMAIN index.entries}

\* Ingests one after the other that do not fail are all in the index, in the
\* order of their last time, with whole submissions (leaderboard.py:97-139).
IndexFollowsIngests ==
  calm /\ Ingesting = {} =>
    /\ RunsIn(index.entries) = ingested
    /\ \A r \in Listed : submission[r] = "whole"
-----------------------------------------------------------------------------
\* The types of what verify and the migrations keep.
ToolTypeOK ==
  /\ toolAt \in [Tools -> {"idle", "load", "bundle", "migrating", "rewrite",
                          "rewriting", "store", "storing", "read", "index",
                          "indexing", "done"}]
  /\ file \in [Tools -> Runs]
  /\ todo \in [Tools -> SUBSET Commands]
  /\ answer \in [Tools -> {"none", "nothing", "missing", "raised", "compared",
                          "migrated", "refused", "failed", "ingested", "died"}]
  /\ errors \in [Tools -> BOOLEAN]
  /\ legacy \subseteq OldRuns /\ rewritten \subseteq OldRuns

\* The runs whose artifact is there, or has been torn by what the user knows of.
Accounted == Stored \cup warned \cup rewritten

\* An artifact is in Stored once its command has come to update the session,
\* and the session and the tools know only such runs: the strengthening that
\* makes VerifyFindsItsRun inductive.
AccountInv ==
  /\ \A c \in Commands :
       /\ at[c] \in {"idle", "persist", "persisting"} => artifact[c] # "whole"
       /\ at[c] = "load" /\ target[c] = NoRun => c \in Accounted
  /\ \A p \in Pointers : {p.run, p.success} \subseteq Accounted \cup {NoRun}
  /\ \A t \in Tools : /\ (toolAt[t] = "load" => file[t] \in Accounted)
                       /\ (toolAt[t] # "done" => answer[t] = "none")

\* A migration still has to open what is left in an old format, as long as
\* its report has no error: the strengthening that makes MigrationIsComplete
\* inductive.
MigrationInv ==
  /\ \A r \in OldRuns : at[r] = "done" /\ artifact[r] # "absent"
  /\ \A t \in Tools :
       /\ toolAt[t] \in {"rewrite", "rewriting"} => file[t] \in OldRuns
       /\ toolAt[t] = "rewriting" => file[t] \in rewritten
       /\ toolAt[t] \in {"migrating", "rewrite", "rewriting"} /\ ~errors[t] =>
            legacy \subseteq todo[t] \cup
              (IF toolAt[t] = "migrating" THEN {} ELSE {file[t]})

ArchiveInv ==
  /\ SuccessInv /\ QuietInv /\ ToolTypeOK /\ AccountInv /\ MigrationInv
  /\ VerifyFindsItsRun /\ MigrationIsComplete

\* The strengthening that makes IndexFollowsIngests inductive.  While ingests
\* take turns, the one at work is later than all entries, and what it holds is
\* the list with its own run last; the index lists the runs except while it is
\* written; the submissions are whole except the one that is written.
Until(entries, time) ==
  \A i \in DOMAIN entries : entries[i].when \in Nat /\ entries[i].when <= time

TurnInv(t) ==
  /\ file[t] \in Commands
  /\ stamp[t] \in 1 .. clock /\ Until(index.entries, stamp[t] - 1)
  /\ toolAt[t] \in {"read", "index", "indexing"} => submission[file[t]] = "whole"
  /\ toolAt[t] \in {"index", "indexing"} =>
       /\ held[t] \in Seq({held[t][i] : i \in DOMAIN held[t]})
       /\ RunsIn(held[t]) = Again(file[t]) /\ Until(held[t], clock)
  /\ toolAt[t] = "indexing" => index.entries = <<>>

CalmInv ==
  calm =>
    /\ clock \in Nat /\ DOMAIN held = Tools /\ DOMAIN stamp = Tools
    /\ submission \in [Commands -> {"absent", "torn", "whole"}]
    /\ ingested \in Seq(Commands)
    /\ \A t, u \in Ingesting : t = u
    /\ \A t \in Ingesting : TurnInv(t)
    /\ (\A t \in Tools : toolAt[t] # "indexing") =>
         /\ index.state # "torn" /\ RunsIn(index.entries) = ingested
         /\ Until(index.entries, clock)
    /\ \A i \in DOMAIN ingested :
         submission[ingested[i]] = "whole" \/ \E t \in Ingesting : file[t] = ingested[i]
=============================================================================
