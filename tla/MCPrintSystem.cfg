INIT SysInit
NEXT SysNext
SYMMETRY JobSymmetry
CONSTANTS
  Jobs = {j1, j2}
  Queries = {}
  Caller = caller
  ImageLen <- MCImageLen
  PrinterFrames <- MCPrinterFrames
  MaxWire = 3
  MaxPending = 2
  MaxChunk = 2
  ProtocolLevel = 0
  Copies = 300
  JobId = 12231
  Keeps = 1
  MaxToHost = 2
  ReuseAfterFailure = FALSE
  BeatsWhenQuiet = FALSE
  MayTearDown = FALSE
INVARIANTS
  SysTypeOK
  ResolvedMeansPrinted
  PrinterNeverConfused
  HeartbeatsAreEchoed
  ProgressCoversReceipt
  ConversationInv
