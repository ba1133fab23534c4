CONSTANTS
  Starts = {s1, s2}
  Stops = {t1}
  Conns = {c1}
  MaxConnections = 1
  Talkers = {c1}
  ReadTimeout = FALSE
  NoListener = NoListener
  NoConn = NoConn
SPECIFICATION FairSpec
PROPERTIES
  
  IdleCloses
ACTION_CONSTRAINT OneComplication
\* A server nobody starts, or that was stopped, rests.
CHECK_DEADLOCK FALSE
