SPECIFICATION Spec
SYMMETRY JobSymmetry
CONSTANTS
  Jobs = {j1, j2}
  Queries = {}
  Caller = caller
  ImageLen <- MCImageLen
  PrinterFrames <- MCPrinterFrames
  MaxWire = 2
  MaxPending = 3
  MaxChunk = 100
  ProtocolLevel = 0
  Copies = 300
  JobId = 12231
INVARIANTS
  TypeOK
  RegisteredWhileRunning
  ResolvedOnlyIfFinished
  FaultIsTheOutcome
  ClosedChannelRunsNoJob
  EndJobOnlyAfterFinished
  SlicesInsideImage
PROPERTIES
  SettledJobsAreSilent
  JobOutcomeSpec
