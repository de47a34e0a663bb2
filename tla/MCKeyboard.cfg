SPECIFICATION KeyboardSpec
CONSTANTS
  shell = shell
  prog = prog
  Idle = idle
  Threads = {shell, prog, idle}
  BootOrder <- MCBootOrder
  Priority <- MCPriority
  NULL = NULL
  bufsize = 3
  Bytes <- MCBytes
  Keys = {"ctrl_l", "ctrl_r", "up", "l"}
  MaxCount = 2
INVARIANTS HandlerSound
PROPERTIES ImplementsFifo
