SPECIFICATION Spec
CONSTANTS
  HandlerOnOwnThread = FALSE
  MaxSignals = 3
INVARIANTS
  TypeOK
  ServerDeletedBeforeLogger
  RunningClearedBeforeExit
  ExitZeroOnlyAfterStop
  FaultOnlyAfterInterrupt
  OnlyHandlerWaitsInVain
PROPERTIES
  KeepsPromise
CHECK_DEADLOCK FALSE
