SPECIFICATION FairSpec
CONSTANTS
  StreamLength = 6
  Capacity = 4
  MaxPending = 8
  Byte <- MCByte
  Stream <- MCStream
INVARIANTS
  OutputIsStream
  StoredAreTrue
  LoopsAgree
  PlainPromisesKept
PROPERTIES
  EventuallyComplete
