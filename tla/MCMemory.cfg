SPECIFICATION Spec
CONSTANTS
  Procs = {i, c}
  init = i
  KPages = 7
  UFrames = 4
  UPages = 3
  PagesPerTable = 2
  PG_SIZE = 16
  ArenaSize = 4
  BlockSizes <- MCBlockSizes
  NULL = NULL
  ByteBits = 8
  InodeSize = 5
  KSizes = {5,20}
  USizes = {5,20}
  KMax = 1
  UMax = 2
INVARIANTS PanicOnlyWhenFull KernelPagesUnique  UserFramesOwned
CHECK_DEADLOCK FALSE
