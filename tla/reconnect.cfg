CONSTANTS
  Loops = {l1, l2}
  Conns = {k1, k2}
  Starts = {s1}
  Stops = {p1}
  Triggers = {t1}
  Resets = {r1}
  MaxAttempts = 2
  ResetOnSuccess = TRUE
  Timers = {x1, x2, x3}
  NoConn = NoConn
  NoTimer = NoTimer
SPECIFICATION FairSpec
INVARIANTS
  NoStrayConnection
  FlagHasLoop
ACTION_CONSTRAINT OneComplication
PROPERTY ReconnectSettles
\* A manager that is stopped, or has nothing left to do, rests.
CHECK_DEADLOCK FALSE
