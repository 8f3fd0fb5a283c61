SPECIFICATION Spec
CONSTANTS
  null = null
  s1 = s1
  s2 = s2
  s3 = s3
  Sessions = {s1, s2, s3}
  h1 = h1
  h2 = h2
  Handlers = {h1, h2}
  k1 = k1
  k2 = k2
  Callbacks = {k1, k2}
  ReconnectPeriod = 1
  MayDisconnect = TRUE
  MaxConnects = 2
  MaxBreaks = 2
INVARIANTS
  TypeOK
  OneReconnect
  CompletionFindsItsHandler
  CallFindsItsSession
CHECK_DEADLOCK FALSE
SYMMETRY Symmetry
