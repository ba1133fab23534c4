CONSTANTS
  e1 = e1
  e2 = e2
  e3 = e3
  e4 = e4
  Events = {e1, e2, e3, e4}
  Subs = {s1}
  c1 = c1
  Clients = {c1}
  ClientOf <- MCClientOf
  Capacity = 1
  MaxHistory = 3
  NoEvent = NoEvent
SPECIFICATION FairSpec
INVARIANTS
  NeverSendsOnClosed
  HistoryCoversOverflow
PROPERTY ChannelDrains
ACTION_CONSTRAINT InOrder
\* A poll of the closed channel stops the process.
CHECK_DEADLOCK FALSE
