CONSTANTS
  Calls = {c1, c2}
  Closers = {x1}
  Conns = {k1, k2}
  retryCount = 1
  NoConn = NoConn
  NoCall = NoCall
SYMMETRY Symmetry
SPECIFICATION RPCSpec
INVARIANT OwnReply
\* A call waits for ever for a server that does not answer.
CHECK_DEADLOCK FALSE
