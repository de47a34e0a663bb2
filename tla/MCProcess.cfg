SPECIFICATION FairSpec
CONSTANTS
  init = init
  shell = shell
  main = main
  Idle = idle
  p1 = p1
  p2 = p2
  Threads = {init, shell, main, idle, p1, p2}
  BootOrder <- MCBootOrder
  Priority <- MCPriority
  NULL = NULL
  MaxPid = 6
  KPages = 19
  btmp_bytes_len = 3
  PG_SIZE = 2
  PathLens = {5}
CHECK_DEADLOCK FALSE
INVARIANTS PanicOnlyInFork ThreadTable NoLostExit PagesOwned
PROPERTIES ShellReaps
