SPECIFICATION MCSpec
CONSTANTS
  StreamLength = 4
  Modulus = 16
  Isn = 13
  MaxPayload = 2
  Capacity = 3
  InitialRTO = 2
  MaxRTO = 4
  Windows = {0, 2, 5}
  Ticks = {1, 3}
  MaxRetries = 2
  Byte <- MCByte
  Stream <- MCStream
INVARIANTS
  FlightIsContiguous
  SegmentsAreTrue
  OutstandingIsTimed
PROPERTIES
  WindowRespected
  NoSilentStall
