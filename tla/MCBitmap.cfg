SPECIFICATION FairSpec
CONSTANTS
  btmp_bytes_len = 2
  ByteBits = 3
  MaxCnt = 4
INVARIANTS RunsOwned
PROPERTIES FirstFit ScanEnds
CHECK_DEADLOCK FALSE
