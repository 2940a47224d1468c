SPECIFICATION FairSpec
CONSTANTS
  Modulus = 16
  MaxWindow = 15
  MaxPayload = 1
  Client = client
  Server = server
  Streams <- MCStreams
  Isns <- MCIsns
  Byte <- MCByte
  ClientBytes = 3
  ServerBytes = 1
  SendCapacity = 2
  RecvCapacity = 1
  NetCapacity = 3
  MaxFaults = 1
INVARIANTS
  AcknowledgedIsReceived
  NoSpuriousError
  InactiveMeansDone
  SenderWithinWindow
PROPERTIES
  EachWayIsAPipe
  EventuallyDone
CHECK_DEADLOCK FALSE
