SPECIFICATION Spec
CONSTANTS
  null = null
  r1 = r1
  r2 = r2
  c1 = c1
  c2 = c2
  ua = ua
  Adapters = {ua}
  ImplOf <- Sdk
  Roots = {r1, r2}
  Consoles = {c1, c2}
  Registrable <- Nested
  Slots = 2
  Threads = {"main"}
  Levels = {3, 5}
  UaLevels = {"INFO", "UNKNOWN"}
INVARIANTS
  TypeOK
  FanOutComplete
  EnabledMeansWritten
  MutexReleased
PROPERTIES
  CallsEnd
