\* Every task under any agent and under the reference agents; the longest
\* solution takes ten actions, and a stream has at most six pages.  Six
\* actions of the free agent suffice to read and deliver the runbook's checksum.
CONSTANTS
  ToolCalls = 11
  MaxPages = 6
  FreeCalls = 6
SPECIFICATION RunsSpec
CHECK_DEADLOCK FALSE
INVARIANTS
  NoShortcut
  FirstAnswerIsRight
PROPERTY
  PairingsSolve
