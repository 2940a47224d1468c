SPECIFICATION MCSpec
CONSTANTS
  Broadcast = bcast
  CacheTTL = 2
  RequestTTL = 1
  OurMAC = us
  OurIP = here
  Neighbours = {p, q}
  MACs = {m1, m2}
  Ticks = {1, 2}
  MaxTime = 4
  MaxGiven = 2
  Parses <- MCParses
INVARIANTS
  WaitingIsJustified
  SentWhereHeard
  InOrderOnce
PROPERTIES
  RequestsApart
  DroppedOnlyLate
CHECK_DEADLOCK FALSE
