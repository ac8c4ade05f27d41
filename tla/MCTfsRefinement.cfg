SPECIFICATION RecordedSpec
CONSTANTS
  a = a
  b = b
  x = x
  y = y
  Names <- MCNames
  LongNames <- MCLongNames
  BadPaths <- MCBadPaths
  NoName = "none"
  Bytes <- MCBytes
  Garbage = garbage
  NoFile = nofile
  Closed = closed
  INODE_TABLE_SIZE = 3
  DATA_BLOCKS = 3
  MAX_OPEN_FILES = 2
  BLOCK_SIZE = 2
  MAX_DIR_ENTRIES = 2
  SIZE_MOD = 64
  Buffers <- MCBuffers
  ReadLens <- MCReadLens
  MAX_OFFSET = 2
VIEW vars
SYMMETRY NameSymmetry
INVARIANTS HandlesLive NoLostBlock NeverPanics
PROPERTIES ImplementsFileStore ReadsStopAtEnd
CHECK_DEADLOCK FALSE

