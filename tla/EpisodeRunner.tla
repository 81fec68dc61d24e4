---------------------------- MODULE EpisodeRunner ----------------------------
(***************************************************************************)
(* One episode: the loop of agent_bench/runner/runner.py:run with its      *)
(* Budgets, the per-step IO audit of GuardedEnv, the action trace and the  *)
(* classification of the outcome.  The agent, the task's setup, actions    *)
(* and validator are code the runner calls: each call may answer anything  *)
(* the runner distinguishes, or raise.                                     *)
(*                                                                         *)
(* Two branches of the loop are absent because no state enables them:      *)
(* timed_out() (line 310: Budgets is built without timeout_s, line 268)    *)
(* and tool_calls_remaining < 0 after the call (line 595: the call is made *)
(* only while a tool call remains, line 442).                              *)
(***************************************************************************)
EXTENDS Integers, Sequences, FiniteSets

CONSTANTS StepBudgets,    \* values of default_budget.steps
          ToolBudgets,    \* values of default_budget.tool_calls
          MaxIo,          \* bound: guarded IO operations of one call into the task
          Targets,        \* paths and hosts the task's sandbox allows
          Results,        \* what a task action can return
          ObjectResults,  \* the results that are JSON objects
          NoResult,       \* last_action_result before the first action
          NoArtifact      \* run() has not returned

ASSUME RunnerAssumption ==
  /\ StepBudgets \subseteq Nat
  /\ ToolBudgets \subseteq Nat
  /\ MaxIo \in Nat
  /\ ObjectResults \subseteq Results
  /\ NoResult \notin Results

VARIABLES pc,          \* where run() is
          budgets,     \* the frozen budget of the episode
          stepsLeft,   \* Budgets.steps_remaining
          toolsLeft,   \* Budgets.tool_calls_remaining
          trace,       \* action_trace
          lastResult,  \* last_result
          seen,        \* Environment.seen_paths
          op,          \* the kind of action being executed
          auditStep,   \* GuardedEnv._audit_step, 0 for None
          audit,       \* GuardedEnv._audit_entries
          artifact,    \* the result dict, once returned
          executed,    \* history: task actions started
          touched,     \* history: guarded IO of the call in progress
          performed    \* history: guarded IO of each action that ended

envVars == <<seen, auditStep, audit>>
vars == <<pc, budgets, stepsLeft, toolsLeft, trace, lastResult, seen, op,
          auditStep, audit, artifact, executed, touched, performed>>

FAILURE_TYPES == {"budget_exhausted", "invalid_action", "sandbox_violation",
                  "logic_failure", "timeout", "non_termination"}

Terminations == FAILURE_TYPES \cup
  {"success", "steps_exhausted", "tool_calls_exhausted", "action_exception",
   "custom"}

Statuses == {"ok", "invalid_action", "sandbox_violation", "action_exception"}
Ops == {"list_dir", "other"}
Shapes == {"object", "other"}
NoOp == "none"
NoFailure == "none"

Observation == [step: Nat, last: Results \cup {NoResult},
                seen: SUBSET Targets, steps: Nat, tool_calls: Nat]
Entry == [obs: Observation, shape: Shapes, status: Statuses,
          result: Results \cup {NoResult}, audit: Seq(Targets),
          steps_after: Nat, tools_after: Nat, tool_delta: {0, 1}]
Artifact == [success: BOOLEAN, termination_reason: Terminations,
             failure_type: FAILURE_TYPES \cup {NoFailure},
             steps_used: Nat, tool_calls_used: Nat]

ASSUME ArtifactAssumption == NoArtifact \notin Artifact

TypeOK ==
  /\ pc \in {"setup", "top", "agent", "exec", "validate", "done", "raised"}
  /\ budgets \in [steps: StepBudgets, tool_calls: ToolBudgets]
  /\ stepsLeft \in 0 .. budgets.steps
  /\ toolsLeft \in 0 .. budgets.tool_calls
  /\ trace \in Seq(Entry)
  /\ lastResult \in Results \cup {NoResult}
  /\ seen \in SUBSET Targets
  /\ op \in Ops \cup {NoOp}
  /\ auditStep \in Nat
  /\ audit \in Seq(Targets)
  /\ artifact \in Artifact \cup {NoArtifact}
  /\ executed \in Nat
  /\ touched \in Seq(Targets)
  /\ performed \in Seq(Seq(Targets))

-----------------------------------------------------------------------------
\* classify_failure: the termination-to-failure table, with its fallback.
Classify(termination) ==
  CASE termination \in {"steps_exhausted", "tool_calls_exhausted"} ->
         "budget_exhausted"
    [] termination = "action_exception" -> "invalid_action"
    [] termination \in FAILURE_TYPES \ {"budget_exhausted"} -> termination
    [] OTHER -> "logic_failure"

\* max_steps - budget.steps_remaining + 1, and the observation built with it.
CurrentStep == budgets.steps - stepsLeft + 1

Observe == [step |-> CurrentStep, last |-> lastResult, seen |-> seen,
            steps |-> stepsLeft, tool_calls |-> toolsLeft]

\* Mutants: the budget read after consume_step; last_action_result not kept.
ObservedLate == [step |-> auditStep, last |-> lastResult, seen |-> seen,
                 steps |-> stepsLeft, tool_calls |-> toolsLeft]
ObservedStale == [step |-> auditStep, last |-> NoResult, seen |-> seen,
                  steps |-> stepsLeft + 1, tool_calls |-> toolsLeft]

\* The observation of the step being executed: its step is already consumed.
Observed == [step |-> auditStep, last |-> lastResult, seen |-> seen,
             steps |-> stepsLeft + 1, tool_calls |-> toolsLeft]

\* run() returns an artifact; make_result clears failure_type on success.
Finish(success, termination, failure, steps, tools) ==
  /\ artifact' = [success |-> success, termination_reason |-> termination,
                  failure_type |-> IF success THEN NoFailure ELSE failure,
                  steps_used |-> steps, tool_calls_used |-> tools]
  /\ pc' = "done"

\* Mutant: the number of the current step reported as the steps used.
StepsUsedAsStep == CurrentStep

StepsUsed == budgets.steps - stepsLeft
ToolsUsed == budgets.tool_calls - toolsLeft

-----------------------------------------------------------------------------
Init ==
  /\ pc = "setup"
  /\ budgets \in [steps: StepBudgets, tool_calls: ToolBudgets]
  /\ stepsLeft = budgets.steps
  /\ toolsLeft = budgets.tool_calls
  /\ trace = <<>>
  /\ lastResult = NoResult
  /\ seen = {}
  /\ op = NoOp
  /\ auditStep = 0
  /\ audit = <<>>
  /\ artifact = NoArtifact
  /\ executed = 0
  /\ touched = <<>>
  /\ performed = <<>>

\* Task and agent loaded, environment set up, agent reset.
Setup ==
  /\ pc = "setup"
  /\ pc' = "top"
  /\ touched' = <<>>
  /\ UNCHANGED <<budgets, stepsLeft, toolsLeft, trace, lastResult, op,
                 envVars, artifact, executed, performed>>

\* Anything run() does not catch: an exception of setup, of the agent or of
\* the validator, an unusable list_dir result, SystemExit from an action.
Propagate ==
  /\ pc \in {"setup", "agent", "exec", "validate"}
  /\ pc' = "raised"
  /\ UNCHANGED <<budgets, stepsLeft, toolsLeft, trace, lastResult, op,
                 envVars, artifact, executed, touched,
                 performed>>

StepsExhausted ==
  /\ pc = "top"
  /\ stepsLeft <= 0
  /\ Finish(FALSE, "steps_exhausted", "budget_exhausted",
            budgets.steps, ToolsUsed)
  /\ UNCHANGED <<budgets, stepsLeft, toolsLeft, trace, lastResult, op,
                 envVars, executed, touched,
                 performed>>

BeginStep ==
  /\ pc = "top"
  /\ stepsLeft > 0
  /\ pc' = "agent"
  /\ UNCHANGED <<budgets, stepsLeft, toolsLeft, trace, lastResult, op,
                 envVars, artifact, executed, touched,
                 performed>>

\* observe() or act() raises SandboxViolation: no step is consumed.
AgentViolation ==
  /\ pc = "agent"
  /\ Finish(FALSE, "sandbox_violation", "sandbox_violation",
            StepsUsed, ToolsUsed)
  /\ UNCHANGED <<budgets, stepsLeft, toolsLeft, trace, lastResult, op,
                 envVars, executed, touched,
                 performed>>

\* act() returned something _validate_action refuses: unknown type, missing
\* argument, or not a dict at all ("other").
InvalidAction(shape) ==
  /\ pc = "agent"
  /\ stepsLeft' = stepsLeft - 1
  /\ trace' = Append(trace,
       [obs |-> Observe, shape |-> shape, status |-> "invalid_action",
        result |-> NoResult, audit |-> <<>>, steps_after |-> stepsLeft',
        tools_after |-> toolsLeft, tool_delta |-> 0])
  /\ Finish(FALSE, "invalid_action", "invalid_action",
            StepsUsed + 1, ToolsUsed)
  /\ UNCHANGED <<budgets, toolsLeft, lastResult, op, envVars, executed,
                 touched, performed>>

\* A valid action arrives with no tool call left: the step is consumed and
\* leaves no trace entry.
ToolCallsExhausted ==
  /\ pc = "agent"
  /\ toolsLeft <= 0
  /\ stepsLeft' = stepsLeft - 1
  /\ Finish(FALSE, "tool_calls_exhausted", "budget_exhausted",
            StepsUsed + 1, budgets.tool_calls)
  /\ UNCHANGED <<budgets, toolsLeft, trace, lastResult, op, envVars,
                 executed, touched,
                 performed>>

\* Mutant: the action is called before the tool budget is looked at.
DispatchUnchecked(kind) ==
  /\ pc = "agent"
  /\ stepsLeft' = stepsLeft - 1
  /\ auditStep' = CurrentStep
  /\ audit' = <<>>
  /\ op' = kind
  /\ executed' = executed + 1
  /\ touched' = <<>>
  /\ pc' = "exec"
  /\ UNCHANGED <<budgets, toolsLeft, trace, lastResult, seen, artifact,
                 performed>>

\* consume_step, then guarded_env.begin_step and the call of the action.
Dispatch(kind) ==
  /\ pc = "agent"
  /\ toolsLeft > 0
  /\ stepsLeft' = stepsLeft - 1
  /\ auditStep' = CurrentStep
  /\ audit' = <<>>
  /\ op' = kind
  /\ executed' = executed + 1
  /\ touched' = <<>>
  /\ pc' = "exec"
  /\ UNCHANGED <<budgets, toolsLeft, trace, lastResult, seen, artifact,
                 performed>>

\* An IO operation the guard allows, of setup, of an action or of the validator:
\* only within a step is it recorded.  A denied one raises before _record_audit,
\* and the caller may catch that exception or let it through.
GuardedIo(target) ==
  /\ pc \in {"setup", "exec", "validate"}
  /\ Len(touched) < MaxIo
  /\ audit' = IF auditStep = 0 THEN audit ELSE Append(audit, target)
  /\ touched' = Append(touched, target)
  /\ UNCHANGED <<pc, budgets, stepsLeft, toolsLeft, trace, lastResult, seen,
                 op, auditStep, artifact, executed, performed>>

\* consume_audit hands over the entries and stops the recording.
ConsumeAudit == auditStep' = 0 /\ audit' = <<>>

\* The call of the action is over.
ActionEnds == /\ op' = NoOp /\ ConsumeAudit
              /\ performed' = Append(performed, touched) /\ touched' = <<>>

\* The action returns: the call is charged, a listing widens what is seen,
\* and the entry is appended before the validator looks at the environment.
ActionReturns(result, listed) ==
  /\ pc = "exec"
  /\ listed # {} => op = "list_dir" /\ result \in ObjectResults
  /\ toolsLeft' = toolsLeft - 1
  /\ seen' = seen \cup listed
  /\ trace' = Append(trace,
       [obs |-> Observed, shape |-> "object", status |-> "ok",
        result |-> result, audit |-> audit, steps_after |-> stepsLeft,
        tools_after |-> toolsLeft', tool_delta |-> 1])
  /\ lastResult' = result
  /\ ActionEnds
  /\ pc' = "validate"
  /\ UNCHANGED <<budgets, stepsLeft, artifact, executed>>

\* Mutant: the except branch does not call consume_audit, so that the entry
\* gets the io_audit of the step before.
ActionFailsStale(status, failure) ==
  /\ pc = "exec"
  /\ trace' = Append(trace,
       [obs |-> Observed, shape |-> "object", status |-> status,
        result |-> NoResult,
        audit |-> IF trace = <<>> THEN <<>> ELSE trace[Len(trace)].audit,
        steps_after |-> stepsLeft, tools_after |-> toolsLeft, tool_delta |-> 0])
  /\ Finish(FALSE, status, failure, StepsUsed, ToolsUsed)
  /\ ActionEnds
  /\ UNCHANGED <<budgets, stepsLeft, toolsLeft, lastResult, seen, executed>>

\* The action raises: the entry is appended and the call is not charged.
ActionFails(status, failure) ==
  /\ pc = "exec"
  /\ trace' = Append(trace,
       [obs |-> Observed, shape |-> "object", status |-> status,
        result |-> NoResult, audit |-> audit, steps_after |-> stepsLeft,
        tools_after |-> toolsLeft, tool_delta |-> 0])
  /\ Finish(FALSE, status, failure, StepsUsed, ToolsUsed)
  /\ ActionEnds
  /\ UNCHANGED <<budgets, stepsLeft, toolsLeft, lastResult, seen, executed>>

\* Mutant: a raising action classified as any other failure.
ActionRaisesAsLogic == ActionFails("action_exception", "logic_failure")

ActionViolates == ActionFails("sandbox_violation", "sandbox_violation")
ActionRaises == ActionFails("action_exception", "invalid_action")

-----------------------------------------------------------------------------
ValidatorAccepts ==
  /\ pc = "validate"
  /\ Finish(TRUE, "success", NoFailure, StepsUsed, ToolsUsed)
  /\ UNCHANGED <<budgets, stepsLeft, toolsLeft, trace, lastResult, op,
                 envVars, executed, touched,
                 performed>>

\* _normalize_terminal_validation: the validator's own reason is kept, a
\* missing one is logic_failure; its failure type is kept if canonical.
ValidatorRejects(reason, failure) ==
  LET termination == IF reason = NoFailure THEN "logic_failure" ELSE reason
  IN  /\ pc = "validate"
      /\ Finish(FALSE, termination,
                IF failure \in FAILURE_TYPES THEN failure
                                             ELSE Classify(termination),
                StepsUsed, ToolsUsed)
      /\ UNCHANGED <<budgets, stepsLeft, toolsLeft, trace, lastResult, op,
                     envVars, executed, touched,
                 performed>>

ValidatorContinues ==
  /\ pc = "validate"
  /\ pc' = "top"
  /\ touched' = <<>>
  /\ UNCHANGED <<budgets, stepsLeft, toolsLeft, trace, lastResult, op,
                 envVars, artifact, executed, performed>>

Next ==
  \/ Setup
  \/ Propagate
  \/ StepsExhausted
  \/ BeginStep
  \/ AgentViolation
  \/ \E shape \in Shapes : InvalidAction(shape)
  \/ ToolCallsExhausted
  \/ \E kind \in Ops : Dispatch(kind)
  \/ \E target \in Targets : GuardedIo(target)
  \/ \E result \in Results, listed \in SUBSET Targets :
       ActionReturns(result, listed)
  \/ ActionViolates
  \/ ActionRaises
  \/ ValidatorAccepts
  \/ \E reason \in Terminations \cup {NoFailure},
        failure \in FAILURE_TYPES \cup {NoFailure} :
       ValidatorRejects(reason, failure)
  \/ ValidatorContinues

Safety == Init /\ [][Next]_vars

(***************************************************************************)
(* Fairness: the interpreter runs the loop, and the code it calls returns  *)
(* or raises.  A hanging agent or validator hangs run(); bounding that is  *)
(* the business of run_isolated.                                           *)
(***************************************************************************)
Spec == Safety /\ WF_vars(Next)

-----------------------------------------------------------------------------
ToolEntries == {i \in DOMAIN trace : trace[i].tool_delta = 1}

\* The usage an artifact reports is the usage its trace shows: every charged
\* call has its entry, and steps_used exceeds the entries by at most the one
\* step that met an empty tool budget (runner.py:442-463).
UsageMatchesTrace ==
  artifact # NoArtifact =>
    /\ artifact.tool_calls_used = Cardinality(ToolEntries)
    /\ \/ artifact.steps_used = Len(trace)
       \/ /\ artifact.steps_used = Len(trace) + 1
          /\ artifact.termination_reason = "tool_calls_exhausted"
          /\ artifact.tool_calls_used = budgets.tool_calls

\* A reader can replay the budget from the trace alone: entry i is step i,
\* each entry starts from what the one before left, and leaves what its
\* delta says (runner.py:357-367, 396-411, 561-582).
TraceReplaysBudget ==
  \A i \in DOMAIN trace :
    /\ trace[i].obs.step = i
    /\ trace[i].obs.steps = budgets.steps - (i - 1)
    /\ trace[i].steps_after = trace[i].obs.steps - 1
    /\ trace[i].tools_after = trace[i].obs.tool_calls - trace[i].tool_delta
    /\ trace[i].obs.tool_calls =
         IF i = 1 THEN budgets.tool_calls ELSE trace[i - 1].tools_after

\* What the agent saw before step i is what step i - 1 returned, and what it
\* has seen of the file system only grows (runner.py:357-367, 563-593).
ObservationsChain ==
  \A i \in DOMAIN trace :
    /\ i = 1 => trace[i].obs.last = NoResult /\ trace[i].obs.seen = {}
    /\ i > 1 => /\ trace[i].obs.last = trace[i - 1].result
                /\ trace[i - 1].obs.seen \subseteq trace[i].obs.seen

\* No action starts once either budget is zero (tracecore-spec-v1.0.md 7.2),
\* and every action started but one is charged: only the last can have been
\* aborted by its exception.
EffectsWithinBudget ==
  /\ executed <= budgets.tool_calls
  /\ executed <= budgets.steps
  /\ executed - Cardinality(ToolEntries) \in {0, 1}

\* An entry that is not a charged call ends the episode as a failure with the
\* failure type of its status; a success ends with a charged call.
LastEntryExplainsVerdict ==
  /\ \A i \in DOMAIN trace :
       trace[i].status # "ok" =>
         /\ i = Len(trace)
         /\ artifact # NoArtifact
         /\ ~artifact.success
         /\ artifact.failure_type = Classify(trace[i].status)
  /\ artifact # NoArtifact =>
       /\ artifact.success <=> artifact.failure_type = NoFailure
       /\ artifact.success => trace # <<>> /\ trace[Len(trace)].status = "ok"

\* An entry reports exactly the guarded IO that its own action has done: none is
\* lost when the action fails, and none of setup, of the validator or of another
\* action gets in, though they use the same buffer (environment.py:141-154;
\* runner.py:258, 469-517, 618).
AuditIsExact ==
  /\ \A i \in DOMAIN trace :
       trace[i].audit = IF i \in DOMAIN performed THEN performed[i] ELSE <<>>
  /\ auditStep = 0 => audit = <<>>

\* What makes it inductive: only an invalid action ends without having run.
AuditInv ==
  /\ AuditIsExact
  /\ pc \notin {"exec", "raised"} => auditStep = 0
  /\ pc = "exec" => audit = touched
  /\ Len(performed) <= Len(trace)
  /\ pc # "done" => Len(performed) = Len(trace)

\* The inductive invariant behind the theorems of EpisodeRunnerProofs.  While
\* the loop runs, every entry is a charged call, so both budgets are what the
\* length of the trace leaves of them; an entry that is not a charged call can
\* only be the last one of a finished episode.
Charged ==
  IF trace # <<>> /\ trace[Len(trace)].status # "ok" THEN Len(trace) - 1
                                                      ELSE Len(trace)

LoopGuards ==
  /\ pc = "agent" => stepsLeft > 0
  /\ pc = "exec" => toolsLeft > 0
  /\ pc = "done" => artifact \in Artifact

EntriesInv ==
  \A i \in DOMAIN trace :
    /\ trace[i].status = "ok" <=> trace[i].tool_delta = 1
    /\ trace[i].status # "ok" => i = Len(trace) /\ pc = "done"

BudgetInv ==
  /\ toolsLeft = budgets.tool_calls - Charged
  /\ executed \in Charged .. budgets.tool_calls
  /\ executed <= Charged + 1
  /\ executed <= budgets.steps
  /\ pc \in {"setup", "top", "agent", "validate"} =>
       stepsLeft = budgets.steps - Len(trace) /\ executed = Len(trace)
  /\ pc = "setup" => trace = <<>>
  /\ pc = "exec" => /\ stepsLeft = budgets.steps - Len(trace) - 1
                    /\ auditStep = Len(trace) + 1
                    /\ executed = Len(trace) + 1

ChainInv ==
  pc # "done" =>
    /\ trace = <<>> => lastResult = NoResult /\ seen = {}
    /\ trace # <<>> => /\ lastResult = trace[Len(trace)].result
                       /\ trace[Len(trace)].obs.seen \subseteq seen
                       /\ toolsLeft = trace[Len(trace)].tools_after

VerdictInv ==
  /\ artifact # NoArtifact <=> pc = "done"
  /\ pc = "done" =>
       /\ artifact.tool_calls_used = Charged
       /\ \/ artifact.steps_used = Len(trace)
          \/ /\ artifact.steps_used = Len(trace) + 1
             /\ artifact.termination_reason = "tool_calls_exhausted"
             /\ artifact.tool_calls_used = budgets.tool_calls

\* What makes LastEntryExplainsVerdict inductive: the validator is asked after
\* a charged call only, and success is its verdict alone.
VerdictFollowsEntry ==
  /\ pc = "validate" => trace # <<>>
  /\ pc = "done" =>
       /\ artifact.success <=> artifact.failure_type = NoFailure
       /\ artifact.success => trace # <<>>
       /\ trace # <<>> /\ trace[Len(trace)].status # "ok" =>
            /\ ~artifact.success
            /\ artifact.failure_type = Classify(trace[Len(trace)].status)

InductiveInv ==
  /\ LoopGuards
  /\ EntriesInv
  /\ BudgetInv
  /\ ChainInv
  /\ TraceReplaysBudget
  /\ ObservationsChain
  /\ VerdictInv

\* Why every episode ends once the foreign code returns: what is left of it,
\* counted in steps of this module. A round of the loop takes no more than
\* RoundLength steps (the action and the validator do MaxIo accesses at most
\* each) and has consumed a step of the budget before it comes back to the head
\* of the loop.
RoundLength == 2 * MaxIo + 4

IoLeft == MaxIo - Len(touched)

Remaining ==
  CASE pc = "setup" -> stepsLeft * RoundLength + 2 + IoLeft
    [] pc = "top" -> stepsLeft * RoundLength + 1
    [] pc = "agent" -> stepsLeft * RoundLength
    [] pc = "exec" -> stepsLeft * RoundLength + 3 + MaxIo + IoLeft
    [] pc = "validate" -> stepsLeft * RoundLength + 2 + IoLeft
    [] OTHER -> 0

IoBounded == Len(touched) <= MaxIo

Shrinks == Remaining \in Nat /\ Remaining' \in 0 .. Remaining - 1

\* Every step of run() leaves strictly fewer to come: no path through the loop
\* comes back to its head without having consumed a step of the budget.
EpisodeShrinks == [][Shrinks]_vars

\* The runner keeps the promise of BoundedEpisode.
Phase == CASE pc = "done" -> "done" [] pc = "raised" -> "aborted"
           [] OTHER -> "running"

Episode == INSTANCE BoundedEpisode
  WITH Limits <- ToolBudgets, Verdicts <- Artifact, NoVerdict <- NoArtifact,
       limit <- budgets.tool_calls, acts <- executed, phase <- Phase,
       verdict <- artifact

ImplementsEpisode == Episode!EpisodeSpec
ImplementsEpisodeSafety == Episode!EpisodeSafety

-----------------------------------------------------------------------------
\* docs/specs/contract_spec.md:54-62 requires a non-empty action_trace of
\* every artifact.
ArtifactTraceNonEmpty == artifact # NoArtifact => trace # <<>>

\* tracecore-spec-v1.0.md:59 and spec/artifact-schema-v1.0.json: every artifact
\* validates, so "action" is an object in every entry, and "last_action_result"
\* an object or null.
ArtifactFollowsSchema ==
  artifact # NoArtifact =>
    \A i \in DOMAIN trace :
      /\ trace[i].shape = "object"
      /\ trace[i].obs.last \in ObjectResults \cup {NoResult}

\* docs/specs/core.md:113 "Every episode must emit a machine-readable
\* artifact".
EpisodeEmitsArtifact == pc = "raised" => artifact # NoArtifact

\* agent_bench/spec/compliance-checklist-v0.1.md:21: action_trace has an entry
\* for every step.
EveryStepHasEntry ==
  artifact # NoArtifact => Len(trace) = artifact.steps_used
=============================================================================
