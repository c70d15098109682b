SPECIFICATION Spec
SYMMETRY CloserSymmetry
CONSTANTS
  MaxOpens = 3
  Closers = {k1, k2}
  MaxStallRetries = 1
CHECK_DEADLOCK FALSE
INVARIANTS
  UsbTypeOK
  CloseIsTold
  WritesReachTheirHost
  ClosedHoldsNothing
