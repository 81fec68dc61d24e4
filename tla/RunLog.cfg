\* Up to three runs of two tasks, up to two of them of an earlier version.
CONSTANTS
  Keys <- MCKeys
  Legacy <- MCLegacy
  MaxRuns = 3
  MaxSteps = 2
  Backfilled = {"budgets"}
  RunnerFields = {"run_id"}
  EntryFields = {"io_audit"}
  Texts = {"none", "success", "steps_exhausted", "tool_calls_exhausted",
           "action_exception", "budget_exhausted", "invalid_action",
           "sandbox_violation", "logic_failure", "timeout", "non_termination",
           "crash", "why"}
SPECIFICATION LogSpec
CHECK_DEADLOCK FALSE
INVARIANTS
  MttrMeasuresIncidents
  ReportsAgree
  MigrationSettles
PROPERTY
  RewritingKeepsStatistics
