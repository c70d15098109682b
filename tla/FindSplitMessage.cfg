SPECIFICATION Spec
CONSTANTS
  Writes = {w1}
  Opens = {}
  Length <- MCLength
  LegacyMaxPayload = 2
  DeviceMaxPayload = 1
  MaxStreams = 1
  MaxWire = 2
  MaxToHost = 2
CHECK_DEADLOCK FALSE
INVARIANTS
  BodyFollowsItsHeader
