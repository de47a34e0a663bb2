SPECIFICATION FairSpec
CONSTANTS
  main = main
  p1 = p1
  p2 = p2
  Idle = idle
  Threads = {main, p1, idle}
  Kernel = {main}
  BootOrder <- MCBootOrder
  Priority <- MCPriority
  NULL = NULL
  hd0 = hd0
  hd1 = hd1
  Devices = {hd0, hd1}
  max_lba = 1
  Transfers <- MCTransfers
  SecsMax = 1
  TimeLimit = 3
   
PROPERTIES SleepEnds
CHECK_DEADLOCK FALSE
