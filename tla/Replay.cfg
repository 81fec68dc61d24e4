\* Two runs of up to two steps and two IO, under five declarations.
CONSTANTS
  Sandboxes <- MCSandboxes
  Paths <- MCPaths
  Requests <- MCRequests
  Calls <- MCCalls
  Ends <- MCEnds
  MaxSteps = 2
  MaxIo = 2
  NoAudit = NoAudit
SPECIFICATION ReplaySpec
CHECK_DEADLOCK FALSE
INVARIANTS
  AcceptedRunsVerify
  ModesAgree
  RepetitionIsAccepted
  DiffAgreesWithRecord
