SPECIFICATION ProgramSpec
CONSTANTS
  null = null
  s1 = s1
  s2 = s2
  Sessions = {s1, s2}
  h1 = h1
  Handlers = {h1}
  k1 = k1
  k2 = k2
  Callbacks = {k1, k2}
  ReconnectPeriod = 1
  MayDisconnect = TRUE
  MaxConnects = 1
  MaxBreaks = 2
INVARIANTS
  SessionThere
  TransferEnabled
  ClosedSessionIsReplaced
PROPERTIES
  NoWorkingSessionReplaced
  ReconnectEndsInUse
  Reconnects
CHECK_DEADLOCK FALSE
