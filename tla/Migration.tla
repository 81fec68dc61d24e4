------------------------------- MODULE Migration -------------------------------
(***************************************************************************)
(* migrate_run_artifact (agent_bench/runner/migration.py) and              *)
(* check_spec_compliance (agent_bench/runner/spec_check.py) as operators   *)
(* on artifacts.  An artifact is its verdict, the set of fields it has,    *)
(* the set of fields its trace entries have, and whether its hash is that  *)
(* of its content.                                                         *)
(***************************************************************************)
EXTENDS FiniteSets

CONSTANTS Backfilled,    \* top-level fields that a migration gives a default
          RunnerFields,  \* what only the runner writes: top-level fields,
                         \* and the observations of the trace
          EntryFields,   \* the other fields of a trace entry
          Texts          \* what the fields of a verdict may say

None == "none"
Absent == "absent"
FailureTypes == {"budget_exhausted", "invalid_action", "sandbox_violation",
                 "logic_failure", "timeout", "non_termination"}

Reasons == FailureTypes \cup {"success", "steps_exhausted", "tool_calls_exhausted",
                              "action_exception", None}

ASSUME MigrationAssumption == Reasons \subseteq Texts

\* What may be in a file: any of it may be missing.  Of the fields that may
\* be null only the key of the failure type is required too.
Artifacts ==
  [success : {"yes", "no", Absent}, termination : Texts,
   failure : Texts \cup {Absent}, reason : Texts, fields : SUBSET (Backfilled \cup RunnerFields),
   entries : SUBSET EntryFields, hash : {"right", "stale", None}]

\* classify_failure: a reason that it does not know is a logic failure.
Classified(termination) ==
  CASE termination \in {"steps_exhausted", "tool_calls_exhausted"} -> "budget_exhausted"
    [] termination \in {"invalid_action", "action_exception"} -> "invalid_action"
    [] termination \in {"timeout", "sandbox_violation", "non_termination"} -> termination
    [] OTHER -> "logic_failure"

\* What the runner writes today.
RunnerArtifact(success, termination) ==
  [success |-> IF success THEN "yes" ELSE "no",
   termination |-> IF success THEN "success" ELSE termination,
   failure |-> IF success THEN None ELSE Classified(termination),
   reason |-> IF success THEN None ELSE termination,
   fields |-> Backfilled \cup RunnerFields,
   entries |-> EntryFields, hash |-> "right"]

\* bool(payload.get("success")), or what the failure type says if it is absent.
NoFailure == {None, Absent}
Succeeded(artifact) ==
  \/ artifact.success = "yes"
  \/ artifact.success = Absent /\ artifact.failure \in NoFailure

\* success, or what the failure type says, decides; a failure gets a type
\* and a reason.  A success loses its failure type, but gets no key for it.
VerdictOf(artifact) ==
  IF Succeeded(artifact)
    THEN [artifact EXCEPT !.success = "yes", !.reason = None,
                          !.failure = IF @ = Absent THEN @ ELSE None,
                          !.termination = IF @ = None THEN "success" ELSE @]
    ELSE LET reason == IF artifact.termination = None THEN "logic_failure"
                                                      ELSE artifact.termination
         IN [artifact EXCEPT
               !.success = "no", !.termination = reason,
               !.failure = IF @ \in NoFailure THEN Classified(reason) ELSE @,
               !.reason = IF @ = None THEN reason ELSE @]

\* A failure of an unknown type raises, and the file is not touched.
Migratable(artifact) ==
  Succeeded(artifact) \/ artifact.failure \in FailureTypes \cup NoFailure

Completed(artifact) ==
  [VerdictOf(artifact) EXCEPT !.fields = @ \cup Backfilled, !.entries = EntryFields]

\* Mutant: the hash is left as it was.
MigratedUnhashed(artifact) == Completed(artifact)

\* The hash is taken anew if anything changed or there was none.
Migrated(artifact) ==
  LET completed == Completed(artifact)
  IN IF completed = artifact /\ artifact.hash # None THEN artifact
     ELSE [completed EXCEPT !.hash = "right"]

\* All that the schema and the checks beside it require; the schema refuses
\* the empty observation that a migration gives an entry.
SpecCompliant(artifact) ==
  /\ Backfilled \cup RunnerFields \subseteq artifact.fields
  /\ artifact.success # Absent /\ artifact.termination # None
  /\ artifact.failure # Absent /\ artifact.failure \in FailureTypes \cup {None}
  /\ artifact.entries = EntryFields
  /\ artifact.hash # None
=============================================================================
