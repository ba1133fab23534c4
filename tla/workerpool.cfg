CONSTANTS
  Tasks = {k1, k2}
  Starts = {s1, s2}
  Stops = {t1}
  MinWorkers = 1
  MaxWorkers = 2
  QueueSize = 1
  NoTask = NoTask
SPECIFICATION FairSpec
INVARIANTS
  TypeOK
  TaskKept
  QuietAfterStop
PROPERTIES
  StopReturns
  AcceptedRuns
\* A pool nobody starts, that was stopped or that locked itself out, rests.
CHECK_DEADLOCK FALSE
