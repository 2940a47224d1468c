SPECIFICATION MCSpec
CONSTANTS
  Byte <- MCByte
  Input <- MCInput
  BufferSize = 2
  OutboundBytes = 3
  InboundBytes = 3
  MaxExtra = 1
INVARIANTS
  NeverThrows
  ExitMeansCopied
PROPERTIES
  CopiesEachWay
  EventuallyExits
CHECK_DEADLOCK FALSE
