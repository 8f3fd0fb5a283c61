SPECIFICATION Spec
CONSTANTS
  HandlerOnOwnThread = FALSE
  MaxSignals = 1
PROPERTIES
  HandlerReturns
CHECK_DEADLOCK FALSE
