\* Two commands and one run of an earlier version, under two tools.
CONSTANTS
  Commands = {c1, c2, old}
  OldRuns = {old}
  NoRun = NoRun
  Tools = {t1, t2}
  MaxDeaths = 1
SPECIFICATION BoardSpec
SYMMETRY Symmetry
CHECK_DEADLOCK FALSE
INVARIANTS
  SuccessIsSuccess
  SessionFollowsHistory
  VerifyFindsItsRun
  MigrationIsComplete
  IndexFollowsIngests
