SPECIFICATION Spec
CONSTANTS
  MAX_FILES_PER_PART = 3
  BlockBitLen = 6
  BITS_PER_SECTOR = 4
  ByteBits = 2
  NDirect = 2
  NIndirect = 2
  BLOCK_SIZE = 2
  EntriesPerSec = 3
  Uint8 = 256
  MAX_FILE_OPEN = 5
  MAX_FILES_OPEN_PER_PROC = 5
  Uint32 = 64
  NULL = NULL
  Paths <- MCPaths
  FilePaths <- MCFilePaths
  DirPaths <- MCDirPaths
  OpenPaths <- MCOpenPaths
  Counts = {3, 4}
  Offsets <- MCOffsets
  MaxOpens = 8
INVARIANTS PanicOnlyAtLimits     
 
CHECK_DEADLOCK FALSE
