CONSTANTS
  Tasks = {k1, k2}
  Starts = {s1}
  Stops = {t1}
  MinWorkers = 1
  MaxWorkers = 2
  QueueSize = 1
  NoTask = NoTask
SPECIFICATION FairSpec
PROPERTY StopEnds
\* A pool nobody starts, that was stopped or that locked itself out, rests.
CHECK_DEADLOCK FALSE
