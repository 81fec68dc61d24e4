------------------------- MODULE EpisodeRunnerProofs -------------------------
(***************************************************************************)
(* Theorems about EpisodeRunner, for every budget, sandbox and result set. *)
(***************************************************************************)
EXTENDS EpisodeRunner, FiniteSetTheorems, TLAPS

-----------------------------------------------------------------------------
\* An artifact with canonical fields and natural usage is an Artifact.
LEMMA FinishTyped ==
  ASSUME NEW success \in BOOLEAN, NEW termination \in Terminations,
         NEW failure \in FAILURE_TYPES \cup {NoFailure}, NEW steps \in Nat,
         NEW tools \in Nat, Finish(success, termination, failure, steps, tools)
  PROVE  artifact' \in Artifact /\ pc' = "done"
  BY DEF Finish, Artifact, NoFailure

\* The budget already spent is a natural number.
LEMMA UsedTyped ==
  ASSUME TypeOK
  PROVE  /\ budgets.steps \in Nat /\ budgets.tool_calls \in Nat
         /\ StepsUsed \in Nat /\ ToolsUsed \in Nat
<1>1. budgets.steps \in Nat /\ budgets.tool_calls \in Nat
  BY RunnerAssumption DEF TypeOK
<1>2. stepsLeft \in 0 .. budgets.steps /\ toolsLeft \in 0 .. budgets.tool_calls
  BY DEF TypeOK
<1>3. QED
  BY <1>1, <1>2 DEF StepsUsed, ToolsUsed

\* Both ways of building an observation are well formed.
LEMMA ObservationTyped ==
  ASSUME TypeOK
  PROVE  Observe \in Observation /\ Observed \in Observation
<1>1. budgets.steps \in Nat /\ stepsLeft \in Nat /\ toolsLeft \in Nat
  BY UsedTyped DEF TypeOK
<1>2. CurrentStep \in Nat
  BY UsedTyped DEF TypeOK, CurrentStep
<1>3. QED
  BY <1>1, <1>2 DEF TypeOK, Observe, Observed, Observation

\* classify_failure answers with a canonical failure type.
LEMMA ClassifyTyped ==
  ASSUME NEW termination \in Terminations
  PROVE  Classify(termination) \in FAILURE_TYPES
  BY DEF Classify, FAILURE_TYPES, Terminations

-----------------------------------------------------------------------------
LEMMA TypeInit == Init => TypeOK /\ LoopGuards
  BY RunnerAssumption DEF Init, TypeOK, LoopGuards, Ops, NoOp

LEMMA TypeNext ==
  TypeOK /\ LoopGuards /\ [Next]_vars => TypeOK' /\ LoopGuards'
<1> SUFFICES ASSUME TypeOK, LoopGuards, [Next]_vars
             PROVE  TypeOK' /\ LoopGuards'
  OBVIOUS
<1> USE DEF TypeOK, LoopGuards, envVars
<1>a. budgets.steps \in Nat /\ budgets.tool_calls \in Nat
  BY UsedTyped
<1>b. Observe \in Observation /\ Observed \in Observation
  BY ObservationTyped
<1>c. /\ StepsUsed \in Nat /\ StepsUsed + 1 \in Nat
      /\ ToolsUsed \in Nat
  BY UsedTyped
<1>1. CASE UNCHANGED vars
  BY <1>1 DEF vars
<1>2. CASE Setup
  BY <1>2 DEF Setup
<1>3. CASE Propagate
  BY <1>3 DEF Propagate
<1>4. CASE StepsExhausted
  <2>1. artifact' \in Artifact /\ pc' = "done"
    BY <1>4, <1>a, <1>c, FinishTyped
       DEF StepsExhausted, Terminations, FAILURE_TYPES
  <2>2. QED
    BY <1>4, <2>1 DEF StepsExhausted
<1>5. CASE BeginStep
  BY <1>5 DEF BeginStep
<1>6. CASE AgentViolation
  <2>1. artifact' \in Artifact /\ pc' = "done"
    BY <1>6, <1>c, FinishTyped
       DEF AgentViolation, Terminations, FAILURE_TYPES
  <2>2. QED
    BY <1>6, <2>1 DEF AgentViolation
<1>7. ASSUME NEW shape \in Shapes, InvalidAction(shape)
      PROVE  TypeOK' /\ LoopGuards'
  <2>1. artifact' \in Artifact /\ pc' = "done"
    BY <1>7, <1>c, FinishTyped
       DEF InvalidAction, Terminations, FAILURE_TYPES
  <2>2. stepsLeft' \in 0 .. budgets.steps
    BY <1>7, <1>a DEF InvalidAction
  <2>3. trace' \in Seq(Entry)
    <3>1. [obs |-> Observe, shape |-> shape, status |-> "invalid_action",
           result |-> NoResult, audit |-> <<>>, steps_after |-> stepsLeft',
           tools_after |-> toolsLeft', tool_delta |-> 0] \in Entry
      BY <1>7, <1>a, <1>b, <2>2 DEF InvalidAction, Entry, Statuses
    <3>2. QED
      BY <1>7, <3>1 DEF InvalidAction
  <2>4. QED
    BY <1>7, <2>1, <2>2, <2>3 DEF InvalidAction
<1>8. CASE ToolCallsExhausted
  <2>1. artifact' \in Artifact /\ pc' = "done"
    BY <1>8, <1>a, <1>c, FinishTyped
       DEF ToolCallsExhausted, Terminations, FAILURE_TYPES
  <2>2. QED
    BY <1>8, <1>a, <2>1 DEF ToolCallsExhausted
<1>9. ASSUME NEW kind \in Ops, Dispatch(kind)
      PROVE  TypeOK' /\ LoopGuards'
  BY <1>9, <1>a DEF Dispatch, CurrentStep
<1>10. ASSUME NEW target \in Targets, GuardedIo(target)
       PROVE  TypeOK' /\ LoopGuards'
  BY <1>10 DEF GuardedIo
<1>11. ASSUME NEW result \in Results, NEW listed \in SUBSET Targets,
              ActionReturns(result, listed)
       PROVE  TypeOK' /\ LoopGuards'
  <2>1. toolsLeft' \in 0 .. budgets.tool_calls
    BY <1>11, <1>a DEF ActionReturns
  <2>2. trace' \in Seq(Entry)
    <3>1. [obs |-> Observed, shape |-> "object", status |-> "ok",
           result |-> result, audit |-> audit, steps_after |-> stepsLeft,
           tools_after |-> toolsLeft', tool_delta |-> 1] \in Entry
      BY <1>11, <1>a, <1>b, <2>1 DEF Entry, Statuses, Shapes
    <3>2. QED
      BY <1>11, <3>1 DEF ActionReturns
  <2>3. QED
    BY <1>11, <2>1, <2>2 DEF ActionReturns, ActionEnds, ConsumeAudit
<1>12. ASSUME NEW status \in {"sandbox_violation", "action_exception"},
              NEW failure \in FAILURE_TYPES, ActionFails(status, failure)
       PROVE  TypeOK' /\ LoopGuards'
  <2>1. artifact' \in Artifact /\ pc' = "done"
    BY <1>12, <1>c, FinishTyped DEF ActionFails, Terminations, FAILURE_TYPES
  <2>2. trace' \in Seq(Entry)
    <3>1. [obs |-> Observed, shape |-> "object", status |-> status,
           result |-> NoResult, audit |-> audit, steps_after |-> stepsLeft,
           tools_after |-> toolsLeft, tool_delta |-> 0] \in Entry
      BY <1>a, <1>b DEF Entry, Statuses, Shapes
    <3>2. QED
      BY <1>12, <3>1 DEF ActionFails
  <2>3. QED
    BY <1>12, <2>1, <2>2 DEF ActionFails, ActionEnds, ConsumeAudit
<1>13. CASE ActionViolates
  BY <1>12, <1>13 DEF ActionViolates, FAILURE_TYPES
<1>14. CASE ActionRaises
  BY <1>12, <1>14 DEF ActionRaises, FAILURE_TYPES
<1>15. CASE ValidatorAccepts
  <2>1. artifact' \in Artifact /\ pc' = "done"
    BY <1>15, <1>c, FinishTyped DEF ValidatorAccepts, Terminations
  <2>2. QED
    BY <1>15, <2>1 DEF ValidatorAccepts
<1>16. ASSUME NEW reason \in Terminations \cup {NoFailure},
              NEW failure \in FAILURE_TYPES \cup {NoFailure},
              ValidatorRejects(reason, failure)
       PROVE  TypeOK' /\ LoopGuards'
  <2> DEFINE termination == IF reason = NoFailure THEN "logic_failure"
                                                  ELSE reason
             type == IF failure \in FAILURE_TYPES THEN failure
                                                  ELSE Classify(termination)
  <2>1. termination \in Terminations
    BY DEF Terminations, FAILURE_TYPES
  <2>2. type \in FAILURE_TYPES
    BY <2>1, ClassifyTyped
  <2>3. Finish(FALSE, termination, type, StepsUsed, ToolsUsed)
    BY <1>16 DEF ValidatorRejects
  <2>4. artifact' \in Artifact /\ pc' = "done"
    BY <1>c, <2>1, <2>2, <2>3, FinishTyped
  <2>5. QED
    BY <1>16, <2>4 DEF ValidatorRejects
<1>17. CASE ValidatorContinues
  BY <1>17 DEF ValidatorContinues
<1>18. QED
  BY <1>1, <1>2, <1>3, <1>4, <1>5, <1>6, <1>7, <1>8, <1>9, <1>10, <1>11,
     <1>13, <1>14, <1>15, <1>16, <1>17 DEF Next

\* Type correctness of the episode loop: no budget is ever overdrawn, every
\* trace entry is well formed and every artifact is canonical.
THEOREM TypeCorrect == Safety => []TypeOK
<1>1. TypeOK /\ LoopGuards /\ [Next]_vars => (TypeOK /\ LoopGuards)'
  BY TypeNext
<1>2. Init => TypeOK /\ LoopGuards
  BY TypeInit
<1>3. QED
  BY <1>1, <1>2, PTL DEF Safety

-----------------------------------------------------------------------------
\* What Append does to a trace, entry by entry.
LEMMA AppendEntry ==
  ASSUME NEW S, NEW t \in Seq(S), NEW e \in S
  PROVE  /\ Append(t, e) \in Seq(S)
         /\ Len(Append(t, e)) = Len(t) + 1
         /\ DOMAIN Append(t, e) = DOMAIN t \cup {Len(t) + 1}
         /\ DOMAIN t = 1 .. Len(t)
         /\ \A i \in 1 .. Len(t) : Append(t, e)[i] = t[i]
         /\ Append(t, e)[Len(t) + 1] = e
  OBVIOUS

\* Subtracting what is left of a budget yields what was spent.
LEMMA SpentArithmetic ==
  ASSUME NEW total \in Nat, NEW spent \in Nat
  PROVE  total - (total - spent) = spent
  OBVIOUS

LEMMA InvInit == Init => InductiveInv
<1> SUFFICES ASSUME Init PROVE InductiveInv
  OBVIOUS
<1>1. /\ trace = <<>> /\ Len(trace) = 0 /\ DOMAIN trace = {} /\ Charged = 0
      /\ budgets.steps \in Nat /\ budgets.tool_calls \in Nat
  BY RunnerAssumption DEF Init, Charged
<1>2. LoopGuards /\ EntriesInv /\ TraceReplaysBudget /\ ObservationsChain
  BY <1>1 DEF Init, LoopGuards, EntriesInv, TraceReplaysBudget,
     ObservationsChain
<1>3. BudgetInv /\ ChainInv
  BY <1>1 DEF Init, BudgetInv, ChainInv
<1>4. VerdictInv
  BY DEF Init, VerdictInv
<1>5. QED
  BY <1>2, <1>3, <1>4 DEF InductiveInv

\* Steps that leave the trace, the budgets and the observed state alone: only
\* the guards of the new pc and the verdict can be disturbed.
LEMMA InvNoAppend ==
  ASSUME TypeOK, InductiveInv, LoopGuards',
         UNCHANGED <<budgets, toolsLeft, trace, lastResult, seen>>,
         BudgetInv', VerdictInv', pc' # "done" => pc # "done",
         pc = "done" => pc' = "done"
  PROVE  InductiveInv'
<1>1. EntriesInv' /\ TraceReplaysBudget' /\ ObservationsChain'
  BY DEF InductiveInv, EntriesInv, TraceReplaysBudget, ObservationsChain
<1>2. ChainInv'
  BY DEF InductiveInv, ChainInv
<1>3. QED
  BY <1>1, <1>2 DEF InductiveInv

\* Steps that append an entry which starts from the loop's current budget and
\* observation, and which ends the episode unless it is a charged call.
LEMMA InvAppend ==
  ASSUME TypeOK, InductiveInv, LoopGuards', NEW e \in Entry,
         trace' = Append(trace, e), budgets' = budgets, pc # "done",
         e.obs.step = Len(trace) + 1,
         e.obs.steps = budgets.steps - Len(trace),
         e.obs.tool_calls = toolsLeft,
         e.obs.last = lastResult, e.obs.seen = seen,
         e.steps_after = e.obs.steps - 1,
         e.tools_after = e.obs.tool_calls - e.tool_delta,
         e.status = "ok" <=> e.tool_delta = 1,
         e.status # "ok" => pc' = "done",
         BudgetInv', ChainInv', VerdictInv'
  PROVE  InductiveInv'
<1>1. trace \in Seq(Entry) /\ Len(trace) \in Nat
  BY DEF TypeOK
<1>2. /\ Len(trace') = Len(trace) + 1
      /\ DOMAIN trace' = DOMAIN trace \cup {Len(trace) + 1}
      /\ DOMAIN trace = 1 .. Len(trace)
      /\ \A i \in 1 .. Len(trace) : trace'[i] = trace[i]
      /\ trace'[Len(trace) + 1] = e
  BY <1>1, AppendEntry
<1>3. EntriesInv'
  BY <1>1, <1>2 DEF InductiveInv, EntriesInv
<1>4. TraceReplaysBudget'
  <2>1. SUFFICES ASSUME NEW i \in 1 .. Len(trace) + 1
        PROVE  /\ trace'[i].obs.step = i
               /\ trace'[i].obs.steps = budgets.steps - (i - 1)
               /\ trace'[i].steps_after = trace'[i].obs.steps - 1
               /\ trace'[i].tools_after =
                    trace'[i].obs.tool_calls - trace'[i].tool_delta
               /\ trace'[i].obs.tool_calls =
                    IF i = 1 THEN budgets.tool_calls
                             ELSE trace'[i - 1].tools_after
    BY <1>1, <1>2 DEF TraceReplaysBudget
  <2>2. CASE i \in 1 .. Len(trace)
    <3>1. trace'[i] = trace[i] /\ (i # 1 => trace'[i - 1] = trace[i - 1])
      BY <1>1, <1>2, <2>2
    <3>2. QED
      BY <1>2, <2>2, <3>1 DEF InductiveInv, TraceReplaysBudget
  <2>3. CASE i = Len(trace) + 1
    <3>1. trace = <<>> => i = 1 /\ toolsLeft = budgets.tool_calls
      <4>1. trace = <<>> => Len(trace) = 0 /\ Charged = 0
        BY DEF Charged
      <4>2. QED
        BY <2>3, <4>1, UsedTyped DEF InductiveInv, BudgetInv
    <3>2. trace # <<>> => /\ i # 1 /\ trace'[i - 1] = trace[Len(trace)]
                          /\ toolsLeft = trace[Len(trace)].tools_after
      <4>1. trace # <<>> => Len(trace) \in 1 .. Len(trace)
        BY <1>1
      <4>2. i - 1 = Len(trace)
        BY <1>1, <2>3
      <4>3. QED
        BY <1>2, <2>3, <4>1, <4>2 DEF InductiveInv, ChainInv
    <3>3. /\ trace'[i] = e
          /\ e.obs.tool_calls = IF i = 1 THEN budgets.tool_calls
                                         ELSE trace'[i - 1].tools_after
      BY <1>2, <2>3, <3>1, <3>2
    <3>4. i = Len(trace) + 1 /\ i - 1 = Len(trace)
      BY <1>1, <2>3
    <3>5. QED
      BY <3>3, <3>4
  <2>4. QED
    BY <1>1, <2>2, <2>3
<1>5. ObservationsChain'
  <2>1. SUFFICES ASSUME NEW i \in 1 .. Len(trace) + 1
        PROVE  /\ i = 1 => /\ trace'[i].obs.last = NoResult
                           /\ trace'[i].obs.seen = {}
               /\ i > 1 => /\ trace'[i].obs.last = trace'[i - 1].result
                           /\ trace'[i - 1].obs.seen
                                \subseteq trace'[i].obs.seen
    BY <1>1, <1>2 DEF ObservationsChain
  <2>2. CASE i \in 1 .. Len(trace)
    <3>1. trace'[i] = trace[i] /\ (i # 1 => trace'[i - 1] = trace[i - 1])
      BY <1>1, <1>2, <2>2
    <3>2. QED
      BY <1>2, <2>2, <3>1 DEF InductiveInv, ObservationsChain
  <2>3. CASE i = Len(trace) + 1
    <3>1. trace = <<>> => i = 1 /\ lastResult = NoResult /\ seen = {}
      <4>1. trace = <<>> => Len(trace) = 0
        OBVIOUS
      <4>2. QED
        BY <2>3, <4>1 DEF InductiveInv, ChainInv
    <3>2. trace # <<>> =>
            /\ i # 1 /\ trace'[i - 1] = trace[Len(trace)]
            /\ lastResult = trace[Len(trace)].result
            /\ trace[Len(trace)].obs.seen \subseteq seen
      <4>1. trace # <<>> => Len(trace) \in 1 .. Len(trace)
        BY <1>1
      <4>2. i - 1 = Len(trace)
        BY <1>1, <2>3
      <4>3. QED
        BY <1>2, <2>3, <4>1, <4>2 DEF InductiveInv, ChainInv
    <3>3. trace'[i] = e
      BY <1>2, <2>3
    <3>4. i = 1 => trace = <<>>
      BY <1>1, <2>3
    <3>5. QED
      BY <3>1, <3>2, <3>3, <3>4
  <2>4. QED
    BY <1>1, <2>2, <2>3
<1>6. QED
  BY <1>3, <1>4, <1>5 DEF InductiveInv

LEMMA InvNext ==
  ASSUME TypeOK, LoopGuards, InductiveInv, Next, TypeOK', LoopGuards'
  PROVE  InductiveInv'
<1>a. /\ budgets.steps \in Nat /\ budgets.tool_calls \in Nat
      /\ stepsLeft \in Nat /\ toolsLeft \in Nat
      /\ Len(trace) \in Nat /\ Charged \in Nat /\ executed \in Nat
  <2>1. Len(trace) \in Nat /\ (trace # <<>> => Len(trace) > 0)
    BY DEF TypeOK
  <2>2. QED
    BY <2>1, UsedTyped DEF TypeOK, Charged
<1>b. pc # "done" => Charged = Len(trace)
  <2>1. trace # <<>> => Len(trace) \in DOMAIN trace
    BY DEF TypeOK
  <2>2. QED
    BY <2>1 DEF InductiveInv, EntriesInv, Charged
<1>c. trace' = trace => Charged' = Charged
  BY DEF Charged
<1>d. pc' = "done" => artifact' # NoArtifact
  BY ArtifactAssumption DEF LoopGuards
<1> USE <1>a, <1>b, <1>c
<1>2. CASE Setup
  BY <1>2, InvNoAppend
     DEF Setup, envVars, InductiveInv, BudgetInv, VerdictInv
<1>3. CASE Propagate
  BY <1>3, InvNoAppend
     DEF Propagate, envVars, InductiveInv, BudgetInv, VerdictInv
<1>5. CASE BeginStep
  BY <1>5, InvNoAppend
     DEF BeginStep, envVars, InductiveInv, BudgetInv, VerdictInv
<1>9. ASSUME NEW kind \in Ops, Dispatch(kind) PROVE InductiveInv'
  BY <1>9, InvNoAppend
     DEF Dispatch, CurrentStep, LoopGuards, InductiveInv, BudgetInv, VerdictInv
<1>10. ASSUME NEW target \in Targets, GuardedIo(target) PROVE InductiveInv'
  BY <1>10, InvNoAppend DEF GuardedIo, InductiveInv, BudgetInv, VerdictInv
<1>4. CASE StepsExhausted
  <2>1. stepsLeft = 0 /\ pc = "top"
    BY <1>4 DEF StepsExhausted
  <2>2. VerdictInv'
    BY <1>4, <1>d, <2>1
       DEF StepsExhausted, Finish, ToolsUsed, InductiveInv, BudgetInv, VerdictInv
  <2>3. QED
    BY <1>4, <1>d, <2>1, <2>2, InvNoAppend
       DEF StepsExhausted, Finish, envVars, InductiveInv, BudgetInv
<1>6. CASE AgentViolation
  <2>1. VerdictInv'
    BY <1>6, <1>d DEF AgentViolation, Finish, StepsUsed, ToolsUsed, InductiveInv,
       BudgetInv, VerdictInv
  <2>2. QED
    BY <1>6, <1>d, <2>1, InvNoAppend
       DEF AgentViolation, Finish, envVars, InductiveInv, BudgetInv
<1>8. CASE ToolCallsExhausted
  <2>1. VerdictInv'
    BY <1>8, <1>d DEF ToolCallsExhausted, Finish, StepsUsed, InductiveInv,
       BudgetInv, VerdictInv
  <2>2. QED
    BY <1>8, <1>d, <2>1, InvNoAppend
       DEF ToolCallsExhausted, Finish, envVars, InductiveInv, BudgetInv
<1>15. CASE ValidatorAccepts
  <2>1. VerdictInv'
    BY <1>15, <1>d DEF ValidatorAccepts, Finish, StepsUsed, ToolsUsed, InductiveInv,
       BudgetInv, VerdictInv
  <2>2. QED
    BY <1>15, <1>d, <2>1, InvNoAppend
       DEF ValidatorAccepts, Finish, envVars, InductiveInv, BudgetInv
<1>16. ASSUME NEW reason \in Terminations \cup {NoFailure},
              NEW failure \in FAILURE_TYPES \cup {NoFailure},
              ValidatorRejects(reason, failure)
       PROVE  InductiveInv'
  <2>1. PICK termination, type :
          Finish(FALSE, termination, type, StepsUsed, ToolsUsed)
    BY <1>16 DEF ValidatorRejects
  <2>2. VerdictInv'
    BY <1>16, <1>d, <2>1 DEF ValidatorRejects, Finish, StepsUsed, ToolsUsed,
       InductiveInv, BudgetInv, VerdictInv
  <2>3. QED
    BY <1>16, <1>d, <2>1, <2>2, InvNoAppend
       DEF ValidatorRejects, Finish, envVars, InductiveInv, BudgetInv
<1>e. Len(trace) \in Nat /\ trace \in Seq(Entry)
  BY DEF TypeOK
<1>7. ASSUME NEW shape \in Shapes, InvalidAction(shape) PROVE InductiveInv'
  <2> DEFINE e == [obs |-> Observe, shape |-> shape,
                   status |-> "invalid_action", result |-> NoResult,
                   audit |-> <<>>, steps_after |-> stepsLeft',
                   tools_after |-> toolsLeft', tool_delta |-> 0]
  <2>1. pc = "agent" /\ pc' = "done" /\ stepsLeft = budgets.steps - Len(trace)
        /\ trace' = Append(trace, e) /\ budgets' = budgets
        /\ toolsLeft' = toolsLeft /\ stepsLeft' = stepsLeft - 1
        /\ executed' = executed /\ executed = Len(trace)
    BY <1>7 DEF InvalidAction, Finish, InductiveInv, BudgetInv
  <2>2. e \in Entry
    <3>1. e = trace'[Len(trace')]
      BY <1>e, <2>1
    <3>2. Len(trace') \in DOMAIN trace'
      BY <1>e, <2>1
    <3>3. QED
      BY <3>1, <3>2 DEF TypeOK
  <2>3. Charged' = Len(trace) /\ Len(trace') = Len(trace) + 1 /\ trace' # <<>>
    BY <1>e, <2>1, <2>2, AppendEntry DEF Charged
  <2>4. BudgetInv' /\ ChainInv'
    BY <2>1, <2>3 DEF InductiveInv, BudgetInv, ChainInv
  <2>a. artifact'.steps_used = Len(trace') /\ artifact'.tool_calls_used = Charged'
    <3>1. StepsUsed + 1 = Len(trace) + 1 /\ ToolsUsed = Len(trace)
      <4>1. /\ stepsLeft = budgets.steps - Len(trace)
            /\ toolsLeft = budgets.tool_calls - Len(trace)
        BY <2>1 DEF InductiveInv, BudgetInv
      <4>2. StepsUsed = Len(trace) /\ ToolsUsed = Len(trace)
        BY <4>1, SpentArithmetic DEF StepsUsed, ToolsUsed
      <4>3. QED
        BY <4>2
    <3>2. /\ artifact'.steps_used = StepsUsed + 1
          /\ artifact'.tool_calls_used = ToolsUsed
      <4>1. Finish(FALSE, "invalid_action", "invalid_action",
                   StepsUsed + 1, ToolsUsed)
        BY <1>7 DEF InvalidAction
      <4>2. QED
        BY <4>1 DEF Finish
    <3>3. QED
      BY <2>3, <3>1, <3>2
  <2>5. VerdictInv'
    BY <1>d, <2>1, <2>a DEF VerdictInv
  <2>6. /\ e.obs.step = Len(trace) + 1
        /\ e.obs.steps = stepsLeft /\ e.obs.tool_calls = toolsLeft
        /\ e.obs.last = lastResult /\ e.obs.seen = seen
    BY <2>1 DEF Observe, CurrentStep
  <2>7. QED
    BY <2>1, <2>2, <2>4, <2>5, <2>6, InvAppend, SMTT(40)
<1>11. ASSUME NEW result \in Results, NEW listed \in SUBSET Targets,
              ActionReturns(result, listed)
       PROVE  InductiveInv'
  <2> DEFINE e == [obs |-> Observed, shape |-> "object", status |-> "ok",
                   result |-> result, audit |-> audit,
                   steps_after |-> stepsLeft, tools_after |-> toolsLeft',
                   tool_delta |-> 1]
  <2>1. /\ pc = "exec" /\ pc' = "validate"
        /\ stepsLeft = budgets.steps - Len(trace) - 1
        /\ auditStep = Len(trace) + 1 /\ executed = Len(trace) + 1
        /\ trace' = Append(trace, e) /\ budgets' = budgets
        /\ toolsLeft' = toolsLeft - 1 /\ stepsLeft' = stepsLeft
        /\ executed' = executed /\ lastResult' = result
        /\ seen' = seen \cup listed /\ artifact' = artifact
    BY <1>11 DEF ActionReturns, InductiveInv, BudgetInv
  <2>2. e \in Entry
    <3>1. e = trace'[Len(trace')]
      BY <1>e, <2>1
    <3>2. Len(trace') \in DOMAIN trace'
      BY <1>e, <2>1
    <3>3. QED
      BY <3>1, <3>2 DEF TypeOK
  <2>3. /\ Charged' = Len(trace) + 1 /\ Len(trace') = Len(trace) + 1
        /\ trace' # <<>> /\ trace'[Len(trace')] = e
    BY <1>e, <2>1, <2>2, AppendEntry DEF Charged
  <2>4. /\ e.obs.step = Len(trace) + 1
        /\ e.obs.steps = stepsLeft + 1 /\ e.obs.tool_calls = toolsLeft
        /\ e.obs.last = lastResult /\ e.obs.seen = seen
    BY <2>1 DEF Observed
  <2>8. /\ e.result = result /\ e.tools_after = toolsLeft'
        /\ e.obs.steps = budgets.steps - Len(trace)
        /\ e.steps_after = e.obs.steps - 1
        /\ e.tools_after = e.obs.tool_calls - e.tool_delta
        /\ e.status = "ok" /\ e.tool_delta = 1
    <3>1. /\ e.steps_after = stepsLeft /\ e.tools_after = toolsLeft'
          /\ e.status = "ok" /\ e.tool_delta = 1 /\ e.result = result
      OBVIOUS
    <3>2. stepsLeft \in Nat /\ toolsLeft \in Nat /\ Len(trace) \in Nat
          /\ budgets.steps \in Nat
      BY <2>1, UsedTyped DEF TypeOK
    <3> HIDE DEF e
    <3>3. QED
      BY <2>1, <2>4, <3>1, <3>2
  <2> HIDE DEF e
  <2>5. BudgetInv'
    <3>1. Charged = Len(trace) /\ toolsLeft = budgets.tool_calls - Len(trace)
      BY <2>1 DEF InductiveInv, BudgetInv
    <3>2. executed <= budgets.tool_calls /\ executed <= budgets.steps
      BY DEF InductiveInv, BudgetInv
    <3>3. toolsLeft' = budgets'.tool_calls - Charged'
      BY <2>1, <2>3, <3>1
    <3>4. /\ executed' \in Charged' .. budgets'.tool_calls
          /\ executed' <= Charged' + 1 /\ executed' <= budgets'.steps
          /\ stepsLeft' = budgets'.steps - Len(trace') /\ executed' = Len(trace')
      BY <2>1, <2>3, <3>2
    <3>5. QED
      BY <2>1, <3>3, <3>4 DEF BudgetInv
  <2>6. ChainInv'
    BY <2>1, <2>3, <2>4, <2>8 DEF ChainInv
  <2>7. VerdictInv'
    BY <2>1 DEF InductiveInv, VerdictInv
  <2>9. QED
    BY <2>1, <2>2, <2>4, <2>5, <2>6, <2>7, <2>8, InvAppend, SMTT(40)
<1>12. ASSUME NEW status \in {"sandbox_violation", "action_exception"},
              NEW failure, ActionFails(status, failure)
       PROVE  InductiveInv'
  <2> DEFINE e == [obs |-> Observed, shape |-> "object", status |-> status,
                   result |-> NoResult, audit |-> audit,
                   steps_after |-> stepsLeft, tools_after |-> toolsLeft,
                   tool_delta |-> 0]
  <2>1. /\ pc = "exec" /\ pc' = "done"
        /\ stepsLeft = budgets.steps - Len(trace) - 1
        /\ auditStep = Len(trace) + 1 /\ executed = Len(trace) + 1
        /\ trace' = Append(trace, e) /\ budgets' = budgets
        /\ toolsLeft' = toolsLeft /\ stepsLeft' = stepsLeft
        /\ executed' = executed
    BY <1>12 DEF ActionFails, Finish, InductiveInv, BudgetInv
  <2>2. e \in Entry
    <3>1. e = trace'[Len(trace')]
      BY <1>e, <2>1
    <3>2. Len(trace') \in DOMAIN trace'
      BY <1>e, <2>1
    <3>3. QED
      BY <3>1, <3>2 DEF TypeOK
  <2>3. Charged' = Len(trace) /\ Len(trace') = Len(trace) + 1 /\ trace' # <<>>
    BY <1>e, <2>1, <2>2, AppendEntry DEF Charged
  <2>4. BudgetInv' /\ ChainInv'
    BY <2>1, <2>3 DEF InductiveInv, BudgetInv, ChainInv
  <2>5. VerdictInv'
    BY <1>12, <1>d, <2>1, <2>3 DEF ActionFails, Finish, StepsUsed, ToolsUsed,
       InductiveInv, BudgetInv, VerdictInv
  <2>6. /\ e.obs.step = Len(trace) + 1
        /\ e.obs.steps = stepsLeft + 1 /\ e.obs.tool_calls = toolsLeft
        /\ e.obs.last = lastResult /\ e.obs.seen = seen
    BY <2>1 DEF Observed
  <2>7. /\ e.obs.steps = budgets.steps - Len(trace)
        /\ e.steps_after = e.obs.steps - 1
        /\ e.tools_after = e.obs.tool_calls - e.tool_delta
        /\ e.status # "ok" /\ e.tool_delta = 0
    <3>1. /\ e.steps_after = stepsLeft /\ e.tools_after = toolsLeft
          /\ e.status # "ok" /\ e.tool_delta = 0
      OBVIOUS
    <3> HIDE DEF e
    <3>2. QED
      BY <2>1, <2>6, <3>1
  <2> HIDE DEF e
  <2>8. QED
    BY <2>1, <2>2, <2>4, <2>5, <2>6, <2>7, InvAppend, SMTT(40)
<1>13. CASE ActionViolates
  BY <1>12, <1>13 DEF ActionViolates
<1>14. CASE ActionRaises
  BY <1>12, <1>14 DEF ActionRaises
<1>17. CASE ValidatorContinues
  BY <1>17, InvNoAppend
     DEF ValidatorContinues, envVars, InductiveInv, BudgetInv, VerdictInv
<1>18. QED
  BY <1>2, <1>3, <1>4, <1>5, <1>6, <1>7, <1>8, <1>9, <1>10, <1>11, <1>13,
     <1>14, <1>15, <1>16, <1>17 DEF Next

LEMMA InvCorrect == Safety => [](TypeOK /\ LoopGuards /\ InductiveInv)
<1>1. Init => TypeOK /\ LoopGuards /\ InductiveInv
  BY TypeInit, InvInit
<1>2. ASSUME TypeOK /\ LoopGuards /\ InductiveInv, [Next]_vars
      PROVE  (TypeOK /\ LoopGuards /\ InductiveInv)'
  <2>1. TypeOK' /\ LoopGuards'
    BY <1>2, TypeNext
  <2>2. CASE Next
    BY <1>2, <2>1, <2>2, InvNext
  <2>3. CASE UNCHANGED vars
    <3>1. InductiveInv'
      BY <1>2, <2>3 DEF vars, InductiveInv, LoopGuards, EntriesInv, BudgetInv,
         ChainInv, TraceReplaysBudget, ObservationsChain, VerdictInv, Charged
    <3>2. QED
      BY <2>1, <3>1
  <2>4. QED
    BY <1>2, <2>2, <2>3
<1>3. QED
  BY <1>1, <1>2, PTL DEF Safety

-----------------------------------------------------------------------------
\* The charged calls of a trace are its first Charged entries.
LEMMA ToolEntriesAreCharged ==
  ASSUME TypeOK, InductiveInv
  PROVE  Cardinality(ToolEntries) = Charged
<1>1. /\ Len(trace) \in Nat /\ DOMAIN trace = 1 .. Len(trace)
      /\ trace # <<>> => Len(trace) \in DOMAIN trace
      /\ trace = <<>> => Len(trace) = 0
  BY DEF TypeOK
<1>2. ToolEntries = 1 .. Charged /\ Charged \in Nat
  <2>1. CASE trace # <<>> /\ trace[Len(trace)].status # "ok"
    BY <1>1, <2>1 DEF InductiveInv, EntriesInv, ToolEntries, Charged
  <2>2. CASE ~(trace # <<>> /\ trace[Len(trace)].status # "ok")
    BY <1>1, <2>2 DEF InductiveInv, EntriesInv, ToolEntries, Charged
  <2>3. QED
    BY <2>1, <2>2
<1>3. Cardinality(1 .. Charged) = Charged
  BY <1>2, FS_Interval
<1>4. QED
  BY <1>2, <1>3

\* A trace alone determines the budget of every step of the episode that
\* produced it (runner.py:357-367, 396-411, 561-582).
THEOREM TraceReplaysBudgetCorrect == Safety => []TraceReplaysBudget
  BY InvCorrect, PTL DEF InductiveInv

\* Each observation shows the result of the step before it and never forgets
\* a path already seen (runner.py:357-367, 563-593).
THEOREM ObservationsChainCorrect == Safety => []ObservationsChain
  BY InvCorrect, PTL DEF InductiveInv

\* The usage an artifact reports is the usage its trace shows, whatever ended
\* the episode (runner.py:206-244 and every return of the loop).
THEOREM UsageMatchesTraceCorrect == Safety => []UsageMatchesTrace
<1>1. TypeOK /\ LoopGuards /\ InductiveInv => UsageMatchesTrace
  BY ToolEntriesAreCharged DEF InductiveInv, VerdictInv, UsageMatchesTrace
<1>2. QED
  BY <1>1, InvCorrect, PTL

\* No task action starts beyond the tool budget, and at most the last one
\* started stays uncharged (runner.py:442, 465-561).
THEOREM EffectsWithinBudgetCorrect == Safety => []EffectsWithinBudget
<1>1. TypeOK /\ LoopGuards /\ InductiveInv => EffectsWithinBudget
  <2> SUFFICES ASSUME TypeOK, InductiveInv PROVE EffectsWithinBudget
    OBVIOUS
  <2>1. Cardinality(ToolEntries) = Charged
    BY ToolEntriesAreCharged
  <2>2. Charged \in Int /\ budgets.tool_calls \in Nat
    BY UsedTyped DEF TypeOK, Charged
  <2>3. QED
    BY <2>1, <2>2 DEF InductiveInv, BudgetInv, EffectsWithinBudget
<1>2. QED
  BY <1>1, InvCorrect, PTL

-----------------------------------------------------------------------------
\* The verdict that Finish writes says of success and failure the same.
LEMMA FinishAgrees ==
  ASSUME NEW success \in BOOLEAN, NEW termination, NEW failure, NEW steps,
         NEW tools, failure = NoFailure => success,
         Finish(success, termination, failure, steps, tools)
  PROVE  /\ pc' = "done" /\ artifact'.success = success
         /\ artifact'.success <=> artifact'.failure_type = NoFailure
         /\ ~success => artifact'.failure_type = failure
BY DEF Finish

\* A verdict passed while every entry is a charged call is explained by them.
LEMMA ExplainedWithoutEntry ==
  ASSUME TypeOK, InductiveInv, NEW success \in BOOLEAN, NEW termination,
         NEW failure, NEW steps, NEW tools, failure = NoFailure => success,
         Finish(success, termination, failure, steps, tools),
         pc # "done", trace' = trace, success => trace # <<>>
  PROVE  VerdictFollowsEntry'
<1>1. trace # <<>> => trace[Len(trace)].status = "ok"
  <2>1. trace # <<>> => Len(trace) \in DOMAIN trace
    BY DEF TypeOK
  <2>2. QED
    BY <2>1 DEF InductiveInv, EntriesInv
<1>2. /\ pc' = "done" /\ artifact'.success = success
      /\ artifact'.success <=> artifact'.failure_type = NoFailure
  BY FinishAgrees
<1>3. QED
  BY <1>1, <1>2 DEF VerdictFollowsEntry

\* A failure whose entry is appended with it is explained by that entry.
LEMMA ExplainedByEntry ==
  ASSUME TypeOK, NEW entry, trace' = Append(trace, entry), entry.status # "ok",
         NEW termination, NEW steps, NEW tools,
         Finish(FALSE, termination, Classify(entry.status), steps, tools),
         Classify(entry.status) # NoFailure
  PROVE  VerdictFollowsEntry'
<1>a. trace \in Seq(Entry)
  BY DEF TypeOK
<1>1. trace' # <<>> /\ trace'[Len(trace')] = entry
  BY <1>a
<1>2. /\ pc' = "done" /\ artifact'.success = FALSE
      /\ artifact'.success <=> artifact'.failure_type = NoFailure
      /\ artifact'.failure_type = Classify(entry.status)
  BY DEF Finish
<1>3. QED
  BY <1>1, <1>2 DEF VerdictFollowsEntry

LEMMA ExplainedNext ==
  ASSUME TypeOK, InductiveInv, VerdictFollowsEntry, [Next]_vars
  PROVE  VerdictFollowsEntry'
<1> USE DEF FAILURE_TYPES, NoFailure
<1>1. CASE UNCHANGED vars
  BY <1>1 DEF vars, VerdictFollowsEntry
<1>2. CASE \/ Setup \/ Propagate \/ BeginStep \/ ValidatorContinues
           \/ \E kind \in Ops : Dispatch(kind)
           \/ \E target \in Targets : GuardedIo(target)
  BY <1>2 DEF Setup, Propagate, BeginStep, ValidatorContinues, Dispatch,
     GuardedIo, VerdictFollowsEntry
<1>3. CASE StepsExhausted
  <2>1. /\ Finish(FALSE, "steps_exhausted", "budget_exhausted", budgets.steps, ToolsUsed)
        /\ pc # "done" /\ trace' = trace /\ "budget_exhausted" # NoFailure
    BY <1>3 DEF StepsExhausted
  <2>2. QED
    BY <2>1, ExplainedWithoutEntry, Zenon
<1>4. CASE AgentViolation
  <2>1. /\ Finish(FALSE, "sandbox_violation", "sandbox_violation", StepsUsed, ToolsUsed)
        /\ pc # "done" /\ trace' = trace /\ "sandbox_violation" # NoFailure
    BY <1>4 DEF AgentViolation
  <2>2. QED
    BY <2>1, ExplainedWithoutEntry, Zenon
<1>5. CASE ToolCallsExhausted
  <2>1. /\ Finish(FALSE, "tool_calls_exhausted", "budget_exhausted",
                  StepsUsed + 1, budgets.tool_calls)
        /\ pc # "done" /\ trace' = trace /\ "budget_exhausted" # NoFailure
    BY <1>5 DEF ToolCallsExhausted
  <2>2. QED
    BY <2>1, ExplainedWithoutEntry, Zenon
<1>6. CASE ValidatorAccepts
  <2>1. /\ Finish(TRUE, "success", NoFailure, StepsUsed, ToolsUsed)
        /\ pc # "done" /\ trace' = trace /\ trace # <<>>
    BY <1>6 DEF ValidatorAccepts, VerdictFollowsEntry
  <2>2. QED
    BY <2>1, ExplainedWithoutEntry, Zenon
<1>7. ASSUME NEW reason \in Terminations \cup {NoFailure},
             NEW failure \in FAILURE_TYPES \cup {NoFailure},
             ValidatorRejects(reason, failure)
      PROVE  VerdictFollowsEntry'
  <2> DEFINE termination == IF reason = NoFailure THEN "logic_failure"
                                                  ELSE reason
             type == IF failure \in FAILURE_TYPES THEN failure
                                                  ELSE Classify(termination)
  <2>1. termination \in Terminations
    BY DEF Terminations
  <2>2. type \in FAILURE_TYPES
    BY <2>1, ClassifyTyped
  <2>3. /\ Finish(FALSE, termination, type, StepsUsed, ToolsUsed)
        /\ pc = "validate" /\ trace' = trace
    BY <1>7 DEF ValidatorRejects
  <2>4. type # NoFailure
    BY <2>2
  <2> HIDE DEF type, termination
  <2>5. pc # "done"
    BY <2>3
  <2>6. QED
    BY <2>3, <2>4, <2>5, ExplainedWithoutEntry, Zenon
<1>8. ASSUME NEW shape \in Shapes, InvalidAction(shape)
      PROVE  VerdictFollowsEntry'
  <2> DEFINE entry == [obs |-> Observe, shape |-> shape,
                       status |-> "invalid_action", result |-> NoResult,
                       audit |-> <<>>, steps_after |-> stepsLeft',
                       tools_after |-> toolsLeft, tool_delta |-> 0]
  <2>1. /\ trace' = Append(trace, entry) /\ entry.status = "invalid_action"
        /\ Finish(FALSE, "invalid_action", "invalid_action", StepsUsed + 1, ToolsUsed)
    BY <1>8 DEF InvalidAction
  <2> HIDE DEF entry
  <2>2. Classify("invalid_action") = "invalid_action" /\ "invalid_action" # NoFailure /\ "invalid_action" # "ok"
    BY DEF Classify
  <2>3. QED
    BY <2>1, <2>2, ExplainedByEntry
<1>9. ASSUME NEW result \in Results, NEW listed \in SUBSET Targets,
             ActionReturns(result, listed)
      PROVE  VerdictFollowsEntry'
  <2>1. trace \in Seq(Entry)
    BY DEF TypeOK
  <2>2. QED
    BY <1>9, <2>1 DEF ActionReturns, VerdictFollowsEntry
<1>10. CASE ActionViolates
  <2> DEFINE entry == [obs |-> Observed, shape |-> "object",
                       status |-> "sandbox_violation", result |-> NoResult,
                       audit |-> audit, steps_after |-> stepsLeft,
                       tools_after |-> toolsLeft, tool_delta |-> 0]
  <2>1. /\ trace' = Append(trace, entry) /\ entry.status = "sandbox_violation"
        /\ Finish(FALSE, "sandbox_violation", "sandbox_violation", StepsUsed, ToolsUsed)
    BY <1>10 DEF ActionViolates, ActionFails
  <2> HIDE DEF entry
  <2>2. Classify("sandbox_violation") = "sandbox_violation" /\ "sandbox_violation" # NoFailure /\ "sandbox_violation" # "ok"
    BY DEF Classify
  <2>3. QED
    BY <2>1, <2>2, ExplainedByEntry
<1>11. CASE ActionRaises
  <2> DEFINE entry == [obs |-> Observed, shape |-> "object",
                       status |-> "action_exception", result |-> NoResult,
                       audit |-> audit, steps_after |-> stepsLeft,
                       tools_after |-> toolsLeft, tool_delta |-> 0]
  <2>1. /\ trace' = Append(trace, entry) /\ entry.status = "action_exception"
        /\ Finish(FALSE, "action_exception", "invalid_action", StepsUsed, ToolsUsed)
    BY <1>11 DEF ActionRaises, ActionFails
  <2> HIDE DEF entry
  <2>2. Classify("action_exception") = "invalid_action" /\ "invalid_action" # NoFailure /\ "action_exception" # "ok"
    BY DEF Classify
  <2>3. QED
    BY <2>1, <2>2, ExplainedByEntry
<1>12. QED
  BY <1>1, <1>2, <1>3, <1>4, <1>5, <1>6, <1>7, <1>8, <1>9, <1>10, <1>11 DEF Next

\* The last entry of a trace and the verdict agree: an entry that is not a
\* charged call is the last one and names the failure, and success follows a
\* charged call (runner.py:396-440, 472-559, 618-669).
THEOREM LastEntryExplainsVerdictCorrect == Safety => []LastEntryExplainsVerdict
<1>1. Init => VerdictFollowsEntry
  BY DEF Init, VerdictFollowsEntry
<1>2. ASSUME TypeOK, LoopGuards, InductiveInv, VerdictFollowsEntry
      PROVE  LastEntryExplainsVerdict
  <2>1. artifact # NoArtifact <=> pc = "done"
    BY <1>2 DEF InductiveInv, VerdictInv
  <2>2. DOMAIN trace = 1 .. Len(trace) /\ Len(trace) \in Nat
    BY <1>2 DEF TypeOK
  <2>3. ASSUME NEW i \in DOMAIN trace, trace[i].status # "ok"
        PROVE  /\ i = Len(trace) /\ artifact # NoArtifact /\ ~artifact.success
               /\ artifact.failure_type = Classify(trace[i].status)
    <3>1. i = Len(trace) /\ pc = "done" /\ trace # <<>>
      BY <1>2, <2>3 DEF InductiveInv, EntriesInv
    <3>2. QED
      BY <1>2, <2>1, <2>3, <3>1 DEF VerdictFollowsEntry
  <2>4. ASSUME artifact # NoArtifact
        PROVE  /\ artifact.success <=> artifact.failure_type = NoFailure
               /\ artifact.success =>
                    trace # <<>> /\ trace[Len(trace)].status = "ok"
    BY <1>2, <2>1, <2>4 DEF VerdictFollowsEntry
  <2>5. QED
    BY <2>3, <2>4 DEF LastEntryExplainsVerdict
<1>3. QED
  BY <1>1, <1>2, ExplainedNext, InvCorrect, PTL DEF Safety

\* An entry that an action leaves reports what the action has done, and the
\* entries before it keep what they report.
LEMMA AuditAppended ==
  ASSUME TypeOK, AuditInv, pc = "exec", NEW e \in Entry, e.audit = audit,
         trace' = Append(trace, e), ActionEnds
  PROVE  /\ AuditIsExact'
         /\ Len(performed') = Len(trace') /\ auditStep' = 0
<1> USE DEF AuditInv
<1>1. /\ trace \in Seq(Entry) /\ performed \in Seq(Seq(Targets))
      /\ touched \in Seq(Targets) /\ Len(performed) = Len(trace) /\ audit = touched
  BY DEF TypeOK
<1>2. performed' = Append(performed, touched) /\ auditStep' = 0 /\ audit' = <<>>
  BY DEF ActionEnds, ConsumeAudit
<1>3. /\ Len(trace') = Len(trace) + 1
      /\ DOMAIN trace' = DOMAIN trace \cup {Len(trace) + 1}
      /\ DOMAIN trace = 1 .. Len(trace) /\ trace'[Len(trace) + 1] = e
      /\ \A i \in 1 .. Len(trace) : trace'[i] = trace[i]
  BY <1>1, AppendEntry
<1>4. /\ Len(performed') = Len(performed) + 1
      /\ DOMAIN performed' = DOMAIN performed \cup {Len(performed) + 1}
      /\ DOMAIN performed = 1 .. Len(performed)
      /\ performed'[Len(performed) + 1] = touched
      /\ \A i \in 1 .. Len(performed) : performed'[i] = performed[i]
  BY <1>1, <1>2, AppendEntry
<1>5. \A i \in DOMAIN trace' :
        trace'[i].audit = IF i \in DOMAIN performed' THEN performed'[i] ELSE <<>>
  BY <1>1, <1>3, <1>4 DEF AuditIsExact
<1>6. QED
  BY <1>1, <1>2, <1>3, <1>4, <1>5 DEF AuditIsExact

\* An entry without an action reports nothing.
LEMMA AuditOfRefused ==
  ASSUME TypeOK, AuditInv, pc = "agent", NEW e \in Entry, e.audit = <<>>,
         trace' = Append(trace, e), UNCHANGED <<performed, auditStep, audit>>
  PROVE  AuditIsExact' /\ Len(performed') <= Len(trace')
<1> USE DEF AuditInv
<1>1. /\ trace \in Seq(Entry) /\ performed \in Seq(Seq(Targets))
      /\ Len(performed) = Len(trace) /\ Len(trace) \in Nat
  BY DEF TypeOK
<1>2. /\ Len(trace') = Len(trace) + 1
      /\ DOMAIN trace' = DOMAIN trace \cup {Len(trace) + 1}
      /\ DOMAIN trace = 1 .. Len(trace) /\ trace'[Len(trace) + 1] = e
      /\ \A i \in 1 .. Len(trace) : trace'[i] = trace[i]
  BY <1>1, AppendEntry
<1>3. DOMAIN performed = 1 .. Len(trace)
  BY <1>1
<1>4. \A i \in DOMAIN trace' :
        trace'[i].audit = IF i \in DOMAIN performed' THEN performed'[i] ELSE <<>>
  BY <1>1, <1>2, <1>3 DEF AuditIsExact
<1>5. QED
  BY <1>1, <1>2, <1>4 DEF AuditIsExact

LEMMA AuditNext ==
  ASSUME TypeOK, InductiveInv, AuditInv, [Next]_vars, TypeOK'
  PROVE  AuditInv'
<1> USE DEF AuditInv, AuditIsExact
<1>e. trace \in Seq(Entry) /\ Len(trace) \in Nat
  BY DEF TypeOK
<1>1. CASE UNCHANGED vars
  BY <1>1 DEF vars
<1>2. CASE \E kind \in Ops : Dispatch(kind)
  <2>1. CurrentStep # 0
    <3>1. budgets.steps \in Nat /\ stepsLeft \in 0 .. budgets.steps
      BY UsedTyped DEF TypeOK
    <3>2. QED
      BY <3>1 DEF CurrentStep
  <2>2. QED
    BY <1>2, <2>1 DEF Dispatch
<1>3. CASE \E target \in Targets : GuardedIo(target)
  <2>1. pc = "exec" => auditStep # 0
    BY <1>e DEF InductiveInv, BudgetInv
  <2>2. QED
    BY <1>3, <2>1 DEF GuardedIo
<1>4. ASSUME NEW result \in Results, NEW listed \in SUBSET Targets,
             ActionReturns(result, listed)
      PROVE  AuditInv'
  <2> DEFINE e == [obs |-> Observed, shape |-> "object", status |-> "ok",
                   result |-> result, audit |-> audit,
                   steps_after |-> stepsLeft, tools_after |-> toolsLeft',
                   tool_delta |-> 1]
  <2>1. trace' = Append(trace, e) /\ pc = "exec" /\ pc' = "validate" /\ ActionEnds
    BY <1>4 DEF ActionReturns
  <2>2. e \in Entry
    <3>1. e = trace'[Len(trace')] /\ Len(trace') \in DOMAIN trace'
      BY <1>e, <2>1
    <3>2. QED
      BY <3>1 DEF TypeOK
  <2>3. e.audit = audit
    OBVIOUS
  <2> HIDE DEF e
  <2>4. AuditIsExact' /\ Len(performed') = Len(trace') /\ auditStep' = 0
    BY <2>1, <2>2, <2>3, AuditAppended
  <2>5. Len(trace') \in Nat
    BY DEF TypeOK
  <2>6. QED
    BY <2>1, <2>4, <2>5
<1>5. ASSUME NEW status, NEW failure, ActionFails(status, failure)
      PROVE  AuditInv'
  <2> DEFINE e == [obs |-> Observed, shape |-> "object", status |-> status,
                   result |-> NoResult, audit |-> audit,
                   steps_after |-> stepsLeft, tools_after |-> toolsLeft,
                   tool_delta |-> 0]
  <2>1. trace' = Append(trace, e) /\ pc = "exec" /\ pc' = "done" /\ ActionEnds
    BY <1>5 DEF ActionFails, Finish
  <2>2. e \in Entry
    <3>1. e = trace'[Len(trace')] /\ Len(trace') \in DOMAIN trace'
      BY <1>e, <2>1
    <3>2. QED
      BY <3>1 DEF TypeOK
  <2>3. e.audit = audit
    OBVIOUS
  <2> HIDE DEF e
  <2>4. AuditIsExact' /\ Len(performed') = Len(trace') /\ auditStep' = 0
    BY <2>1, <2>2, <2>3, AuditAppended
  <2>5. Len(trace') \in Nat
    BY DEF TypeOK
  <2>6. QED
    BY <2>1, <2>4, <2>5
<1>6. ASSUME NEW shape \in Shapes, InvalidAction(shape)
      PROVE  AuditInv'
  <2> DEFINE e == [obs |-> Observe, shape |-> shape,
                   status |-> "invalid_action", result |-> NoResult,
                   audit |-> <<>>, steps_after |-> stepsLeft',
                   tools_after |-> toolsLeft, tool_delta |-> 0]
  <2>1. /\ trace' = Append(trace, e) /\ pc = "agent" /\ pc' = "done"
        /\ UNCHANGED <<performed, auditStep, audit>>
    BY <1>6 DEF InvalidAction, Finish, envVars
  <2>2. e \in Entry
    <3>1. e = trace'[Len(trace')] /\ Len(trace') \in DOMAIN trace'
      BY <1>e, <2>1
    <3>2. QED
      BY <3>1 DEF TypeOK
  <2>3. e.audit = <<>>
    OBVIOUS
  <2> HIDE DEF e
  <2>4. AuditIsExact' /\ Len(performed') <= Len(trace')
    BY <2>1, <2>2, <2>3, AuditOfRefused
  <2>5. QED
    BY <2>1, <2>4
<1>7. CASE \/ Setup \/ Propagate \/ StepsExhausted \/ BeginStep
           \/ AgentViolation \/ ToolCallsExhausted \/ ValidatorAccepts
           \/ ValidatorContinues
           \/ \E reason \in Terminations \cup {NoFailure},
                 failure \in FAILURE_TYPES \cup {NoFailure} :
                ValidatorRejects(reason, failure)
  <2>1. /\ UNCHANGED <<trace, performed, auditStep, audit>>
        /\ pc' # "exec" /\ (pc' = "raised" \/ pc # "exec") /\ pc # "done"
    BY <1>7 DEF Setup, Propagate, StepsExhausted, BeginStep, AgentViolation,
       ToolCallsExhausted, ValidatorAccepts, ValidatorContinues,
       ValidatorRejects, Finish, envVars
  <2>2. pc = "raised" => pc' = "raised"
    BY <1>7 DEF Setup, Propagate, StepsExhausted, BeginStep, AgentViolation,
       ToolCallsExhausted, ValidatorAccepts, ValidatorContinues, ValidatorRejects
  <2>3. QED
    BY <2>1, <2>2
<1>8. QED
  BY <1>1, <1>2, <1>3, <1>4, <1>5, <1>6, <1>7 DEF Next, ActionViolates, ActionRaises

\* An entry reports the guarded IO of its own action and no other, though setup
\* and the validator use the same guard (environment.py:141-154; runner.py:258,
\* 469-517, 618).
THEOREM AuditIsExactCorrect == Safety => []AuditIsExact
<1>1. Init => AuditInv
  BY DEF Init, AuditInv, AuditIsExact
<1>2. AuditInv => AuditIsExact
  BY DEF AuditInv
<1>3. QED
  BY <1>1, <1>2, AuditNext, InvCorrect, PTL DEF Safety

-----------------------------------------------------------------------------
\* The episode loop implements the bounded episode: it never starts more
\* actions than the task's budget, and returns or raises exactly once.
THEOREM EpisodeRefinement == Safety => ImplementsEpisodeSafety
<1>1. Init => Episode!EpisodeInit
  BY DEF Init, Episode!EpisodeInit, Phase
<1>2. ASSUME TypeOK, LoopGuards, InductiveInv, TypeOK', LoopGuards',
             InductiveInv', [Next]_vars
      PROVE  [Episode!EpisodeNext]_(Episode!episodeVars)
  <2> USE DEF Phase
  <2>1. CASE UNCHANGED vars
    BY <1>2, <2>1 DEF vars, Episode!episodeVars
  <2>2. CASE Setup \/ BeginStep \/ ValidatorContinues
    BY <2>2 DEF Setup, BeginStep, ValidatorContinues, Episode!episodeVars
  <2>3. CASE \/ \E target \in Targets : GuardedIo(target)
             \/ \E result \in Results, listed \in SUBSET Targets :
                  ActionReturns(result, listed)
    BY <2>3 DEF GuardedIo, ActionReturns, Episode!episodeVars
  <2>4. CASE Propagate
    BY <2>4 DEF Propagate, Episode!EpisodeNext, Episode!Abort
  <2>5. ASSUME NEW kind \in Ops, Dispatch(kind) PROVE Episode!Act
    BY <1>2, <2>5, UsedTyped DEF Dispatch, TypeOK, InductiveInv, BudgetInv,
       Episode!Act
  <2>6. CASE pc \notin {"done", "raised"} /\ pc' = "done"
             /\ UNCHANGED <<budgets, executed>>
    BY <1>2, <2>6 DEF LoopGuards, Episode!EpisodeNext, Episode!Conclude
  <2>7. QED
    BY <1>2, <2>1, <2>2, <2>3, <2>4, <2>5, <2>6
       DEF Next, Episode!EpisodeNext, StepsExhausted, AgentViolation,
           InvalidAction, ToolCallsExhausted, ActionViolates, ActionRaises,
           ActionFails, ValidatorAccepts, ValidatorRejects, Finish
<1>3. QED
  BY <1>1, <1>2, InvCorrect, PTL DEF Safety, ImplementsEpisodeSafety,
     Episode!EpisodeSafety

-----------------------------------------------------------------------------
\* A step of the budget is worth a round of the loop.
LEMMA RoundsLeft ==
  ASSUME NEW n \in Nat
  PROVE  /\ RoundLength \in Nat /\ MaxIo \in Nat /\ RoundLength = 2 * MaxIo + 4
         /\ n * RoundLength \in Nat
         /\ n > 0 => n * RoundLength = (n - 1) * RoundLength + RoundLength
<1>1. RoundLength \in Nat /\ MaxIo \in Nat /\ RoundLength = 2 * MaxIo + 4
  BY RunnerAssumption DEF RoundLength
<1> DEFINE k == RoundLength
<1> HIDE DEF k
<1>2. ASSUME k \in Nat
      PROVE  n * k \in Nat /\ (n > 0 => n * k = (n - 1) * k + k)
  BY <1>2
<1>3. QED
  BY <1>1, <1>2 DEF k

\* An action that is dispatched has consumed its step: a round is ahead of it.
LEMMA RoundStarts ==
  ASSUME NEW later \in Nat, NEW io \in Nat, NEW now, NEW next,
         now = later + 2 * io + 4, next = later + 3 + 2 * io
  PROVE  now \in Nat /\ next \in 0 .. now - 1
OBVIOUS

\* The validator has less ahead of it than the action before it.
LEMMA RoundGoesOn ==
  ASSUME NEW later \in Nat, NEW io \in Nat, NEW spare \in Nat, NEW fresh \in 0 .. io,
         NEW now, NEW next, now = later + 3 + io + spare, next = later + 2 + fresh
  PROVE  now \in Nat /\ next \in 0 .. now - 1
OBVIOUS

LEMMA IoBoundedNext ==
  ASSUME TypeOK, IoBounded, [Next]_vars
  PROVE  IoBounded'
<1>1. CASE \E target \in Targets : GuardedIo(target)
  BY <1>1, RunnerAssumption DEF TypeOK, IoBounded, GuardedIo
<1>2. CASE touched' = <<>>
  <2>1. Len(touched') = 0
    BY <1>2
  <2>2. QED
    BY <2>1, RunnerAssumption DEF IoBounded
<1>3. CASE touched' = touched
  BY <1>3 DEF IoBounded
<1>4. QED
  BY <1>1, <1>2, <1>3 DEF Next, Setup, Propagate, StepsExhausted, BeginStep,
     AgentViolation, InvalidAction, ToolCallsExhausted, Dispatch, ActionReturns,
     ActionViolates, ActionRaises, ActionFails, ActionEnds, ValidatorAccepts,
     ValidatorRejects, ValidatorContinues, vars

\* What is left, place by place.
LEMMA RemainingIs ==
  /\ pc = "setup" => Remaining = stepsLeft * RoundLength + 2 + IoLeft
  /\ pc = "top" => Remaining = stepsLeft * RoundLength + 1
  /\ pc = "agent" => Remaining = stepsLeft * RoundLength
  /\ pc = "exec" => Remaining = stepsLeft * RoundLength + 3 + MaxIo + IoLeft
  /\ pc = "validate" => Remaining = stepsLeft * RoundLength + 2 + IoLeft
  /\ pc \in {"done", "raised"} => Remaining = 0
BY DEF Remaining

\* Every step of run() leaves fewer to come: whatever the agent, the task and the
\* validator answer, an episode takes at most steps * RoundLength + MaxIo + 2 of them,
\* and then run() has returned or raised.
THEOREM EpisodeShrinksCorrect == Safety => EpisodeShrinks
<1>1. Init => IoBounded
  <2>1. Init => Len(touched) = 0
    BY DEF Init
  <2>2. QED
    BY <2>1, RunnerAssumption DEF IoBounded
<1>2. ASSUME TypeOK, LoopGuards, TypeOK', IoBounded, IoBounded', Next
      PROVE  Remaining \in Nat /\ Remaining' \in 0 .. Remaining - 1
  <2> DEFINE left == stepsLeft * RoundLength
  <2>1. /\ stepsLeft \in Nat /\ stepsLeft' \in Nat
        /\ Len(touched) \in Nat /\ Len(touched') \in Nat
    BY <1>2, RunnerAssumption DEF TypeOK
  <2>2. /\ MaxIo \in Nat /\ RoundLength = 2 * MaxIo + 4 /\ left \in Nat /\ left' \in Nat
        /\ stepsLeft > 0 => left = (stepsLeft - 1) * RoundLength + RoundLength
    BY <2>1, RoundsLeft
  <2>3. stepsLeft' = stepsLeft => left' = left
    OBVIOUS
  <2>4. stepsLeft' = stepsLeft - 1 /\ stepsLeft > 0 => left = left' + 2 * MaxIo + 4
    BY <2>2
  <2>5. /\ pc = "setup" => Remaining = left + 2 + IoLeft
        /\ pc = "top" => Remaining = left + 1
        /\ pc = "agent" => Remaining = left
        /\ pc = "exec" => Remaining = left + 3 + MaxIo + IoLeft
        /\ pc = "validate" => Remaining = left + 2 + IoLeft
    BY RemainingIs
  <2>6. /\ pc' = "setup" => Remaining' = left' + 2 + IoLeft'
        /\ pc' = "top" => Remaining' = left' + 1
        /\ pc' = "agent" => Remaining' = left'
        /\ pc' = "exec" => Remaining' = left' + 3 + MaxIo + IoLeft'
        /\ pc' = "validate" => Remaining' = left' + 2 + IoLeft'
        /\ pc' \in {"done", "raised"} => Remaining' = 0
    BY DEF Remaining
  <2> HIDE DEF left
  <2>a. IoLeft \in Nat /\ IoLeft' \in Nat /\ IoLeft <= MaxIo /\ IoLeft' <= MaxIo
    BY <1>2, <2>1, <2>2 DEF IoLeft, IoBounded
  <2>7. CASE Setup \/ BeginStep \/ ValidatorContinues
    BY <2>2, <2>3, <2>5, <2>6, <2>7, <2>a DEF Setup, BeginStep, ValidatorContinues
  <2>8. ASSUME NEW kind \in Ops, Dispatch(kind)
        PROVE  Remaining \in Nat /\ Remaining' \in 0 .. Remaining - 1
    <3>1. pc = "agent" /\ pc' = "exec" /\ stepsLeft' = stepsLeft - 1 /\ touched' = <<>>
      BY <2>8 DEF Dispatch
    <3>2. Len(touched') = 0
      BY <3>1
    <3>3. stepsLeft > 0
      BY <1>2, <3>1 DEF LoopGuards
    <3>4. Remaining = left /\ left = left' + 2 * MaxIo + 4
      BY <2>4, <2>5, <3>1, <3>3
    <3>5. IoLeft' = MaxIo
      BY <2>2, <3>2 DEF IoLeft
    <3>6. Remaining' = left' + 3 + 2 * MaxIo
      BY <2>2, <2>6, <3>1, <3>5
    <3>7. left' \in Nat /\ MaxIo \in Nat
      BY <2>2
    <3>8. QED
      BY <3>4, <3>6, <3>7, RoundStarts
  <2>9. ASSUME NEW target \in Targets, GuardedIo(target)
        PROVE  Remaining \in Nat /\ Remaining' \in 0 .. Remaining - 1
    <3>1. /\ pc \in {"setup", "exec", "validate"} /\ pc' = pc /\ stepsLeft' = stepsLeft
          /\ touched' = Append(touched, target)
      BY <2>9 DEF GuardedIo
    <3>2. Len(touched') = Len(touched) + 1
      BY <1>2, <3>1 DEF TypeOK
    <3>3. IoLeft' = IoLeft - 1
      BY <2>1, <2>2, <3>2 DEF IoLeft
    <3>4. QED
      BY <2>2, <2>3, <2>5, <2>6, <2>a, <3>1, <3>3
  <2>10. ASSUME NEW result \in Results, NEW listed \in SUBSET Targets,
                ActionReturns(result, listed)
         PROVE  Remaining \in Nat /\ Remaining' \in 0 .. Remaining - 1
    <3>1. /\ pc = "exec" /\ pc' = "validate" /\ stepsLeft' = stepsLeft
      BY <2>10 DEF ActionReturns
    <3>2. Remaining = left + 3 + MaxIo + IoLeft /\ Remaining' = left + 2 + IoLeft'
      BY <2>3, <2>5, <2>6, <3>1
    <3>3. IoLeft \in Nat /\ IoLeft' \in 0 .. MaxIo /\ MaxIo \in Nat /\ left \in Nat
      BY <2>2, <2>a
    <3>4. QED
      BY <3>2, <3>3, RoundGoesOn
  <2>11. CASE pc \in {"setup", "top", "agent", "exec", "validate"}
              /\ pc' \in {"done", "raised"}
    <3>1. Remaining' = 0
      BY <2>6, <2>11
    <3>2. pc = "agent" => left > 0
      BY <1>2, <2>1, <2>2, RoundsLeft DEF LoopGuards
    <3>3. Remaining \in Nat /\ Remaining > 0
      BY <2>2, <2>5, <2>11, <2>a, <3>2
    <3>4. QED
      BY <3>1, <3>3
  <2>12. QED
    BY <1>2, <2>7, <2>8, <2>9, <2>10, <2>11 DEF Next, Propagate, StepsExhausted,
       AgentViolation, InvalidAction, ToolCallsExhausted, ActionViolates, ActionRaises,
       ActionFails, ValidatorAccepts, ValidatorRejects, Finish
<1>3. TypeOK /\ IoBounded /\ [Next]_vars => IoBounded'
  BY IoBoundedNext
<1>4. TypeOK /\ LoopGuards /\ TypeOK' /\ IoBounded /\ IoBounded' /\ [Next]_vars =>
        [Shrinks]_vars
  BY <1>2 DEF Shrinks
<1>5. QED
  BY <1>1, <1>3, <1>4, InvCorrect, PTL DEF Safety, EpisodeShrinks
=============================================================================
