\* The auditor's task under an agent that may take any action: what it must have
\* read before its answer is accepted.
CONSTANTS
  ToolCalls = 11
  MaxPages = 1
  FreeCalls = 4
SPECIFICATION RunsSpec
CHECK_DEADLOCK FALSE
INVARIANT
  AuditTakesBothFiles
