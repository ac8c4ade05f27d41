SPECIFICATION LinksSpec
CONSTANTS
  f = f
  g = g
  x = x
  Names <- MCNames
  LongNames = {}
  BadPaths <- MCBadPaths
  NoName <- MCNoName
  Bytes <- MCBytes
  Garbage = zero
  INODE_TABLE_SIZE = 3
  DATA_BLOCKS = 3
  MAX_OPEN_FILES = 1
  BLOCK_SIZE = 2
  MAX_DIR_ENTRIES = 2
  SIZE_MOD = 64
  OpenModes <- MCModes
  Buffers <- MCBuffers
  ReadLens <- MCReadLens
  ExternalFiles <- MCExternalFiles
  COPY_BUFFER = 2
  MAX_OFFSET = 2
VIEW LinksView
INVARIANTS LinksTypeOK LinkCountExact LinkBlocksExclusive LostBlockHasCause LinkPanicHasCause
PROPERTIES LinksKeepTarget 
CHECK_DEADLOCK FALSE
