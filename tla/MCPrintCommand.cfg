SPECIFICATION Spec
CONSTANTS
  MaxOpens = 3
  Closers = {k1, k2}
  Closer = k1
CHECK_DEADLOCK FALSE
INVARIANTS
  CommandTypeOK
  SerialCloseIsTold
  OpenHasItsPort
  StraysHaveACause
  ExitTellsOutcome
  NothingHeldAfterPrint
PROPERTIES
  CommandEnds
