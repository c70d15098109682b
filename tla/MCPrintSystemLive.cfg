SPECIFICATION SysSpec
CONSTANTS
  Jobs = {j1}
  Queries = {}
  Caller = caller
  ImageLen <- MCImageLen
  PrinterFrames <- MCPrinterFrames
  MaxWire = 3
  MaxPending = 2
  MaxChunk = 100
  ProtocolLevel = 101
  Copies = 1
  JobId = 12231
  Keeps = 2
  MaxToHost = 2
  ReuseAfterFailure = FALSE
  BeatsWhenQuiet = FALSE
  MayTearDown = TRUE
PROPERTIES
  JobsSettleWithoutTimer
