CONSTANTS
  Callers = {c1, c2}
  Admin = {a1, a2, a3}
  Resets = {a1}
  Opens = {a2}
  MaxCalls = 5
  MinRequests = 2
  FailureThreshold = 2
  HalfOpenMax = 4
  SuccessThreshold = 2
  RatioNum = 2
  RatioDen = 3
SPECIFICATION Spec
INVARIANTS
  FailureReopens
  TripsOnFailures
PROPERTY ClosesWithinTrials
\* The calls are bounded.
CHECK_DEADLOCK FALSE
