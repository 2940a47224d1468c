SPECIFICATION FairSpec
CONSTANTS
  Modulus = 16
  MaxWindow = 15
  MaxPayload = 1
  OutStream <- MCOut
  InStream <- MCIn
  Isns <- MCIsns
  Byte <- MCByte
  OutBytes = 1
  InBytes = 2
  SendCapacity = 1
  RecvCapacity = 2
  OwnerRoom = 1
  ResetAnytime = FALSE
INVARIANTS
  NeverKilled
  CleanMeansComplete
PROPERTIES
  EachWayIsAPipe
  EventuallyJoined
CHECK_DEADLOCK FALSE
