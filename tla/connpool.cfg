CONSTANTS
  Users = {u1, u2}
  Starts = {s1, s2}
  Closes = {x1}
  Conns = {k1, k2}
  MinSize = 1
  MaxSize = 1
SPECIFICATION FairSpec
INVARIANT OneOwner
PROPERTY CloseReturns
\* The process may have panicked, and a pool nobody uses rests.
CHECK_DEADLOCK FALSE
