SPECIFICATION Spec
CONSTANTS
  HandlerOnOwnThread = TRUE
  MaxSignals = 2
PROPERTIES
  HandlerReturns
  StopEndsService
  KeepsPromiseFairly
