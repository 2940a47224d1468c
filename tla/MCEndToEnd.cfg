SPECIFICATION MCSpec
CONSTANTS
  Broadcast = bcast
  AddressBits = 4
  RequestTTL = 1
  CacheTTL = 3
  Parses <- HeaderParses
  Programs <- MCPrograms
  Other <- MCOther
  HostIP <- MCHostIP
  NextHop <- MCNextHop
  Interfaces <- MCInterfaces
  Tables <- MCTables
  Strays <- MCStrays
  Client = "client"
  ClientPort = 7
  ServerPort = 4
  InitialTTL = 4
  MaxSaid = 4
  MaxWaits = 4
  MaxFaults = 2
INVARIANTS
  RightlyHeard
  OneConversation
  AtMostOneCopy
PROPERTIES
  EventuallyHeard
  EventuallyQuiet
CHECK_DEADLOCK FALSE
