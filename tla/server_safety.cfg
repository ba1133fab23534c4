CONSTANTS
  Starts = {s1, s2}
  Stops = {t1}
  Conns = {c1, c2}
  MaxConnections = 1
  Talkers = {}
  ReadTimeout = TRUE
  NoListener = NoListener
  NoConn = NoConn
SPECIFICATION Spec
INVARIANTS
  TypeOK
  ConnectionLimit
  ActiveMatches
  QuietAfterStop
SYMMETRY Symmetry
CONSTRAINT NoHeartbeat
\* A server nobody starts, or that was stopped, rests.
CHECK_DEADLOCK FALSE
