SPECIFICATION MCSpec
CONSTANTS
  Byte = {a, b}
  Capacity = 3
  MaxChunk = 4
  MaxWritten = 6
INVARIANTS
  FIFO
  Accounting
PROPERTIES
  ImplementsPipe
