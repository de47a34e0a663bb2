SPECIFICATION PipeSpec
CONSTANTS
  p1 = p1
  p2 = p2
  p3 = p3
  Idle = idle
  Threads = {p1, p2, p3, idle}
  BootOrder <- MCBootOrder
  Priority <- MCPriority
  NULL = NULL
  bufsize = 3
  Bytes = {b1, b2}
  MaxCount = 4
INVARIANTS SleeperHoldsLock BlocksOnLastByte
PROPERTIES ImplementsFifo
