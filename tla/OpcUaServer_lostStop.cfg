SPECIFICATION Spec
CONSTANTS
  HandlerOnOwnThread = FALSE
  MaxSignals = 1
PROPERTIES
  StopHonoured
CHECK_DEADLOCK FALSE
