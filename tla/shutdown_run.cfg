CONSTANTS
  n1 = n1
  MaxHooks = 2
  Named = {n1, n2}
  NameOf <- MCNameOf
  Direct = {}
  MaxSignals = 2
  MayStop = TRUE
  MayForce = TRUE

SPECIFICATION FairSpec

INVARIANTS
  TypeOK
  SequentialOrder
  NoHookLeftOut
  ForcedBySecondSignal
PROPERTIES
  HookOnce
  SignalExits
ACTION_CONSTRAINT OneComplication

\* The process may have exited, or the application may never do anything.
CHECK_DEADLOCK FALSE
