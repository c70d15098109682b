SPECIFICATION SysSpec
CONSTANTS
  Jobs = {j1}
  Queries = {q1, q2}
  Caller = caller
  ImageLen <- MCEmptyImage
  PrinterFrames <- MCPrinterFrames
  MaxWire = 3
  MaxPending = 2
  MaxChunk = 100
  ProtocolLevel = 101
  Copies = 1
  JobId = 12231
  Keeps = 2
  MaxToHost = 2
  ReuseAfterFailure = FALSE
  BeatsWhenQuiet = TRUE
  MayTearDown = TRUE
INVARIANTS
  RegisteredWhileRunning
PROPERTIES
  QueriesSettleWithoutTimer
