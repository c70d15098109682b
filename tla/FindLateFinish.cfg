INIT SysInit
NEXT SysNext
CONSTANTS
  Jobs = {j1, j2}
  Queries = {}
  Caller = caller
  ImageLen <- MCImageLen
  PrinterFrames <- MCPrinterFrames
  MaxWire = 3
  MaxPending = 2
  MaxChunk = 100
  ProtocolLevel = 101
  Copies = 1
  JobId = 12231
  Keeps = 3
  MaxToHost = 2
  ReuseAfterFailure = TRUE
  BeatsWhenQuiet = FALSE
  MayTearDown = FALSE
INVARIANTS
  FinishedMeansPrinted
