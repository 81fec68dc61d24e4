----------------------------- MODULE RunLogProofs -----------------------------
(***************************************************************************)
(* Theorems about Migration and RunLog: whatever is missing from an        *)
(* artifact of an earlier version, one migration settles it.               *)
(***************************************************************************)
EXTENDS RunLog, TLAPS

LEMMA ClassifiedTyped ==
  ASSUME NEW termination
  PROVE  /\ Classified(termination) \in FailureTypes
         /\ Classified(termination) \in Texts
         /\ Classified(termination) \notin NoFailure
<1>1. Classified(termination) \in FailureTypes
  BY DEF Classified, FailureTypes
<1>2. QED
  BY <1>1, MigrationAssumption DEF FailureTypes, Reasons, None, Absent, NoFailure

\* The verdict of a success and of a failure, field by field.
LEMMA SuccessVerdict ==
  ASSUME NEW a \in Artifacts, Succeeded(a), NEW v, v = VerdictOf(a)
  PROVE  /\ v \in Artifacts
         /\ v.success = "yes" /\ v.reason = None /\ v.termination # None
         /\ v.failure = IF a.failure = Absent THEN Absent ELSE None
         /\ v.fields = a.fields /\ v.entries = a.entries /\ v.hash = a.hash
<1>1. v = [a EXCEPT !.success = "yes", !.reason = None,
                    !.failure = IF @ = Absent THEN @ ELSE None,
                    !.termination = IF @ = None THEN "success" ELSE @]
  BY DEF VerdictOf
<1>2. QED
  BY <1>1, MigrationAssumption DEF Artifacts, None, Absent, Reasons

LEMMA FailureVerdict ==
  ASSUME NEW a \in Artifacts, ~Succeeded(a), NEW v, v = VerdictOf(a)
  PROVE  /\ v \in Artifacts
         /\ v.success = "no" /\ v.failure \notin NoFailure /\ v.reason # None
         /\ v.termination # None
         /\ Migratable(a) => v.failure \in FailureTypes
         /\ v.fields = a.fields /\ v.entries = a.entries /\ v.hash = a.hash
<1> DEFINE reason == IF a.termination = None THEN "logic_failure" ELSE a.termination
<1>1. v = [a EXCEPT !.success = "no", !.termination = reason,
                    !.failure = IF @ \in NoFailure THEN Classified(reason) ELSE @,
                    !.reason = IF @ = None THEN reason ELSE @]
  BY DEF VerdictOf
<1>2. reason \in Texts /\ reason # None
  BY MigrationAssumption DEF Artifacts, None, Reasons, FailureTypes
<1> HIDE DEF reason
<1>3. /\ Classified(reason) \in FailureTypes
      /\ Classified(reason) \in Texts /\ Classified(reason) \notin NoFailure
  BY ClassifiedTyped
<1>4. QED
  BY <1>1, <1>2, <1>3 DEF Artifacts, Migratable, Absent, NoFailure

\* The verdict of a verdict is that verdict.
LEMMA VerdictFixed ==
  ASSUME NEW v \in Artifacts, v.termination # None,
         \/ v.success = "yes" /\ v.failure \in NoFailure /\ v.reason = None
         \/ v.success = "no" /\ v.failure \notin NoFailure /\ v.reason # None
  PROVE  VerdictOf(v) = v
<1>1. VerdictOf(v) = [v EXCEPT !.success = v.success, !.termination = v.termination,
                               !.failure = v.failure, !.reason = v.reason]
  <2>1. CASE v.success = "yes"
    <3>1. v.failure \in NoFailure /\ v.reason = None
      BY <2>1
    <3>2. VerdictOf(v) = [v EXCEPT !.success = "yes", !.reason = None,
                                   !.failure = IF @ = Absent THEN @ ELSE None,
                                   !.termination = IF @ = None THEN "success" ELSE @]
      BY <2>1 DEF VerdictOf, Succeeded
    <3>3. [v EXCEPT !.success = "yes", !.reason = None,
                    !.failure = IF @ = Absent THEN @ ELSE None,
                    !.termination = IF @ = None THEN "success" ELSE @]
            = [v EXCEPT !.success = v.success, !.termination = v.termination,
                        !.failure = v.failure, !.reason = v.reason]
      BY <2>1, <3>1 DEF Artifacts, NoFailure
    <3>4. QED
      BY <3>2, <3>3
  <2>2. CASE v.success = "no"
    <3>1. v.failure \notin NoFailure /\ v.reason # None
      BY <2>2
    <3>2. QED
      BY <2>2, <3>1 DEF VerdictOf, Succeeded, Artifacts, Absent
  <2>3. QED
    BY <2>1, <2>2
<1>2. [v EXCEPT !.success = v.success, !.termination = v.termination,
                !.failure = v.failure, !.reason = v.reason] = v
  BY DEF Artifacts
<1>3. QED
  BY <1>1, <1>2

\* What a migration leaves, field by field.
LEMMA MigratedFields ==
  ASSUME NEW a \in Artifacts, NEW m, m = Migrated(a)
  PROVE  LET v == VerdictOf(a)
         IN /\ m \in Artifacts
            /\ m.success = v.success /\ m.termination = v.termination
            /\ m.failure = v.failure /\ m.reason = v.reason
            /\ m.fields = a.fields \cup Backfilled /\ m.entries = EntryFields
            /\ m.hash # None /\ (m # a => m.hash = "right")
<1> DEFINE v == VerdictOf(a)
           c == Completed(a)
<1>1. v \in Artifacts /\ v.fields = a.fields /\ v.hash = a.hash
  BY SuccessVerdict, FailureVerdict
<1>2. c = [v EXCEPT !.fields = a.fields \cup Backfilled, !.entries = EntryFields]
  BY <1>1 DEF Completed
<1> HIDE DEF v, c
<1>3. /\ c \in Artifacts
      /\ c.success = v.success /\ c.termination = v.termination
      /\ c.failure = v.failure /\ c.reason = v.reason
      /\ c.fields = a.fields \cup Backfilled /\ c.entries = EntryFields
      /\ c.hash = a.hash
  BY <1>1, <1>2, MigrationAssumption DEF Artifacts
<1>4. CASE c = a /\ a.hash # None
  BY <1>3, <1>4 DEF Migrated, c, v
<1>5. CASE ~(c = a /\ a.hash # None)
  <2>1. m = [c EXCEPT !.hash = "right"]
    BY <1>5 DEF Migrated, c
  <2>2. QED
    BY <1>3, <2>1 DEF Artifacts, None, v
<1>6. QED
  BY <1>4, <1>5

\* A migrated artifact is a fixed point of the migration.
LEMMA MigratedFixed ==
  ASSUME NEW a \in Artifacts
  PROVE  Migrated(Migrated(a)) = Migrated(a)
<1> DEFINE m == Migrated(a)
<1>1. /\ m \in Artifacts /\ m.termination # None
      /\ \/ m.success = "yes" /\ m.failure \in NoFailure /\ m.reason = None
         \/ m.success = "no" /\ m.failure \notin NoFailure /\ m.reason # None
      /\ m.fields = a.fields \cup Backfilled /\ m.entries = EntryFields
      /\ m.hash # None
  BY MigratedFields, SuccessVerdict, FailureVerdict DEF NoFailure
<1> HIDE DEF m
<1>2. VerdictOf(m) = m
  BY <1>1, VerdictFixed
<1>3. m.fields \cup Backfilled = m.fields
  BY <1>1
<1>4. Completed(m) = [m EXCEPT !.fields = m.fields, !.entries = m.entries]
  BY <1>1, <1>2, <1>3 DEF Completed
<1>5. Completed(m) = m
  BY <1>1, <1>4 DEF Artifacts
<1>6. Migrated(m) = m
  BY <1>1, <1>5 DEF Migrated
<1>7. QED
  BY <1>6 DEF m

\* All of it, for an artifact.
LEMMA Settles ==
  ASSUME NEW before \in Artifacts, Migratable(before)
  PROVE  LET after == Migrated(before)
         IN /\ Migrated(after) = after
            /\ after.success = "yes" <=> Succeeded(before)
            /\ after.success = "yes" <=> after.failure \in NoFailure
            /\ after.success = "yes" <=> after.reason = None
            /\ after # before => after.hash = "right"
            /\ RunnerFields \subseteq before.fields =>
                 (SpecCompliant(after) <=>
                    ~(Succeeded(before) /\ before.failure = Absent))
<1> DEFINE after == Migrated(before)
<1>1. Migrated(after) = after
  BY MigratedFixed
<1>2. CASE Succeeded(before)
  BY <1>1, <1>2, MigratedFields, SuccessVerdict
     DEF SpecCompliant, NoFailure, None, Absent, FailureTypes
<1>3. CASE ~Succeeded(before)
  BY <1>1, <1>3, MigratedFields, FailureVerdict
     DEF SpecCompliant, NoFailure, None, Absent, FailureTypes
<1>4. QED
  BY <1>2, <1>3

-----------------------------------------------------------------------------
Runs == [key : Keys, started : Nat, completed : Nat, steps : Nat, body : Artifacts]
LogTypeOK == /\ log \in Seq(Runs) /\ clock \in Nat
             /\ running \subseteq [key : Keys, started : Nat]

LEMMA RunnerArtifactTyped ==
  ASSUME NEW success \in BOOLEAN PROVE RunnerArtifact(success, "steps_exhausted") \in Artifacts
<1>1. /\ Classified("steps_exhausted") \in Texts /\ None \in Texts
      /\ "success" \in Texts /\ "steps_exhausted" \in Texts
  BY MigrationAssumption, ClassifiedTyped DEF Reasons
<1>2. QED
  BY <1>1 DEF RunnerArtifact, Artifacts

LEMMA LogTyped == LogSpec => []LogTypeOK
<1>1. LogInit => LogTypeOK
  <2>1. Legacy \subseteq Seq(Runs)
    BY RunLogAssumption DEF Runs
  <2>2. \A old \in Seq(Runs) : 2 * Len(old) \in Nat
    OBVIOUS
  <2>3. QED
    BY <2>1, <2>2 DEF LogInit, LogTypeOK
<1>2. ASSUME LogTypeOK, [LogNext]_logVars PROVE LogTypeOK'
  <2> USE DEF LogTypeOK
  <2>1. ASSUME NEW key \in Keys, Start(key) PROVE LogTypeOK'
    BY <1>2, <2>1 DEF Start
  <2>2. ASSUME NEW run \in running, Persist(run) PROVE LogTypeOK'
    <3>1. PICK success \in BOOLEAN, steps \in 1 .. MaxSteps :
            log' = Append(log, [key |-> run.key, started |-> run.started,
                           completed |-> clock + 1, steps |-> steps,
                           body |-> RunnerArtifact(success, "steps_exhausted")])
      BY <2>2 DEF Persist
    <3>2. [key |-> run.key, started |-> run.started, completed |-> clock + 1,
           steps |-> steps, body |-> RunnerArtifact(success, "steps_exhausted")] \in Runs
      BY <1>2, <2>2, RunnerArtifactTyped, RunLogAssumption DEF Runs
    <3>3. log' \in Seq(Runs)
      BY <1>2, <3>1, <3>2
    <3>4. QED
      BY <1>2, <2>2, <3>3 DEF Persist
  <2>3. ASSUME NEW i \in DOMAIN log, Migrate(i) PROVE LogTypeOK'
    <3>1. log[i] \in Runs
      BY <1>2, <2>3
    <3>2. [log[i] EXCEPT !.body = Migrated(log[i].body)] \in Runs
      BY <3>1, MigratedFields DEF Runs
    <3>3. RemoveAt(log, i) \in Seq(Runs)
      BY <1>2, <2>3 DEF RemoveAt
    <3>4. log' \in Seq(Runs)
      BY <2>3, <3>2, <3>3 DEF Migrate
    <3>5. QED
      BY <1>2, <2>3, <3>4 DEF Migrate
  <2>4. CASE UNCHANGED logVars
    BY <1>2, <2>4 DEF logVars
  <2>5. QED
    BY <1>2, <2>1, <2>2, <2>3, <2>4 DEF LogNext
<1>3. QED
  BY <1>1, <1>2, PTL DEF LogSpec

\* Every artifact that can be in the log, of whatever version, is settled by a
\* migration (migrate_run_artifact).
THEOREM MigrationSettlesCorrect == LogSpec => []MigrationSettles
<1>1. LogTypeOK => MigrationSettles
  <2> SUFFICES ASSUME LogTypeOK, NEW i \in DOMAIN log, Migratable(log[i].body)
               PROVE  LET before == log[i].body
                          after == Migrated(before)
                      IN /\ Migrated(after) = after
                         /\ after.success = "yes" <=> Succeeded(before)
                         /\ after.success = "yes" <=> after.failure \in NoFailure
                         /\ after.success = "yes" <=> after.reason = None
                         /\ after # before => after.hash = "right"
                         /\ RunnerFields \subseteq before.fields =>
                              (SpecCompliant(after) <=>
                                 ~(Succeeded(before) /\ before.failure = Absent))
    BY DEF MigrationSettles
  <2>1. log[i].body \in Artifacts
    <3>1. log[i] \in Runs
      BY DEF LogTypeOK
    <3>2. QED
      BY <3>1 DEF Runs
  <2>2. QED
    BY <2>1, Settles
<1>2. QED
  BY <1>1, LogTyped, PTL
=============================================================================
