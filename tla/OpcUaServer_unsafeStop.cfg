SPECIFICATION Spec
CONSTANTS
  HandlerOnOwnThread = FALSE
  MaxSignals = 1
INVARIANTS
  StopIsSafe
CHECK_DEADLOCK FALSE
