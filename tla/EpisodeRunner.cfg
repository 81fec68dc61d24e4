\* Every combination of small budgets, two sandbox targets: what the artifact
\* says, and that the loop implements BoundedEpisode, its end included.
CONSTANTS
  StepBudgets = {0, 1, 3}
  ToolBudgets = {0, 1, 2}
  MaxIo = 2
  Targets = {path1, path2}
  Results = {object1}
  ObjectResults = {object1}
  NoResult = NoResult
  NoArtifact = NoArtifact
SPECIFICATION Spec
CHECK_DEADLOCK FALSE
INVARIANTS
  UsageMatchesTrace
  TraceReplaysBudget
  ObservationsChain
  EffectsWithinBudget
  LastEntryExplainsVerdict
  AuditIsExact
PROPERTY
  ImplementsEpisode
