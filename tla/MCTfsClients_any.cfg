SPECIFICATION Spec
CONSTANTS
  a = a
  b = b
  x = x
  Names <- MCNames
  LongNames <- MCLongNames
  BadPaths <- MCBadPaths
  NoName = "none"
  Bytes <- MCOneByte
  Garbage = garbage
  INODE_TABLE_SIZE = 3
  DATA_BLOCKS = 3
  MAX_OPEN_FILES = 2
  BLOCK_SIZE = 1
  MAX_DIR_ENTRIES = 2
  SIZE_MOD = 64
  Buffers <- MCOneByteBuffers
  ReadLens <- MCReadLens
  MAX_OFFSET = 1
SYMMETRY NameSymmetry
INVARIANTS TypeOK DirectoryConsistent BlocksExclusive 
CHECK_DEADLOCK FALSE
