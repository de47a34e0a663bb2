SPECIFICATION FairSpec
CONSTANTS
  main = main
  init = init
  shell = shell
  Idle = idle
  Threads = {main, init, shell, idle}
  KThreads = {main}
  LockIds = {l1}
  BootOrder <- MCBootOrder
  Priority <- MCPriority
  MaxRepeat = 1
  NULL = NULL
PROPERTIES WaiterIsWoken ReadyRuns
