\* The four tasks under any agent and under the agents of agents/, with the
\* tool calls the longest of these needs.
CONSTANTS
  ToolCalls = 9
  MaxNow = 6
  NoId = NoId
SPECIFICATION AgentsSpec
CHECK_DEADLOCK FALSE
INVARIANTS
  SuccessIsEarned
  ConfirmedInTime
PROPERTY
  ReferenceSucceeds
