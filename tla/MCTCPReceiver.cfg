SPECIFICATION MCSpec
CONSTANTS
  StreamLength = 5
  Modulus = 16
  Isn = 14
  MaxWindow = 2
  Capacity = 3
  MaxPending = 4
  MaxRead = 8
  SynPayloads = {0, 1}
  Byte <- MCByte
  Stream <- MCStream
INVARIANTS
  DeliversStream
  AckIsTruthful
PROPERTIES
  NothingRetreats
