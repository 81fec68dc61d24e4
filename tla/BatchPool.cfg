\* One job with a timeout and two without, on two workers, strict, under
\* fairness.
CONSTANTS
  Calls = {job1, job2, job3}
  Timed = {job1}
  Workers = {worker1, worker2}
  Strict = TRUE
  NoCall = NoCall
SPECIFICATION PoolSpec
CHECK_DEADLOCK FALSE
INVARIANTS
  EveryJobReportedOnce
  ReportMatchesEpisode
  PoolIsBounded
PROPERTY
  BatchEnds
