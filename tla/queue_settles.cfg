CONSTANTS
  m1 = m1  m2 = m2  m3 = m3
  Messages = {m1, m2, m3}
  Producers = {p1, p2}
  Workers = {w1, w2}
  Priority <- MCPriority
  MaxSize = 1
  MaxRetries = 1
  BatchSize = 2
  Expirable = {}
  Delayable = {m3}
  Overdueable = {m1}
  AdminOps = {}
  NoMsg = NoMsg
  Cleaner = Cleaner
  Free = Free
SPECIFICATION FairSpec
INVARIANTS
  PriorityOrder
  FifoAmongFresh
  DeliveryBound
  CapacityOvershoot
PROPERTIES
  ImplementsAtLeastOnce
  AllSettle
