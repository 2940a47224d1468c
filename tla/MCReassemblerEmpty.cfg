SPECIFICATION MCSpec
CONSTANTS
  StreamLength = 4
  Capacity = 3
  MaxPending = 4
  Byte <- MCByte
  Stream <- MCStream
INVARIANTS
  NothingLost
