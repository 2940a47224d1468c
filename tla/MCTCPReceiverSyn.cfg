SPECIFICATION MCSpec
CONSTANTS
  StreamLength = 4
  Modulus = 16
  Isn = 14
  MaxWindow = 2
  Capacity = 2
  MaxPending = 4
  MaxRead = 7
  SynPayloads = {4}
  Byte <- MCByte
  Stream <- MCStream
INVARIANTS
  DeliversStream
