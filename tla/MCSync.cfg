SPECIFICATION Spec
CONSTANTS
  main = main
  init = init
  shell = shell
  Idle = idle
  Threads = {main, init, shell, idle}
  KThreads = {main, shell}
  LockIds = {l1, l2}
  BootOrder <- MCBootOrder
  Priority <- MCNoSlices
  MaxRepeat = 2
  NULL = NULL
INVARIANTS NoPanic MutualExclusion OneList HolderOK NoLostWakeup
PROPERTIES ImplementsMutex
