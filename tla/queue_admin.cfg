CONSTANTS
  m1 = m1  m2 = m2  m3 = m3
  Messages = {m1, m2}
  Producers = {p1, p2}
  Workers = {w1, w2}
  Priority <- MCPriority
  MaxSize = 1
  MaxRetries = 1
  BatchSize = 1
  Expirable = {m2}
  Delayable = {m1}
  Overdueable = {m1}
  AdminOps = {"purge", "delete", "deleteMessage", "cleanIdle"}
  NoMsg = NoMsg
  Cleaner = Cleaner
  Free = Free
SPECIFICATION Spec
INVARIANTS
  TypeOK
  NothingLost
  OnePlace
  StatsMatch
  ExclusiveUntilReclaimed
SYMMETRY Symmetry
\* Delete and a panicking scan stop the queue for good.
CHECK_DEADLOCK FALSE
