SPECIFICATION CodecSpec
CONSTANTS
  Frames <- MCFrames
  SignBit = 4
  MaxSent = 3
  Base = 6
  Lengths <- MCLengths
  ChunkSizes <- MCChunkSizes
  Arguments <- MCArguments
CHECK_DEADLOCK FALSE
INVARIANTS
  FramesArriveIntact
  NothingIsHeldBack
  FramesReadBack
  BrokenFramesAreRefused
  TransferIsWhole
