SPECIFICATION PoliteSpec
CONSTANTS
  a = a
  b = b
  Names <- MCOneBox
  LongNames = {}
  BadPaths = {}
  NoName = none
  Bytes <- MCOneBox
  Garbage = garbage
  INODE_TABLE_SIZE = 2
  DATA_BLOCKS = 2
  MAX_OPEN_FILES = 2
  BLOCK_SIZE = 2
  MAX_DIR_ENTRIES = 2
  SIZE_MOD = 64
  MaxSessions = 2
  MESSAGE_SIZE = 2
  Requests <- MCAllRequests
  ArgsLost = FALSE
CHECK_DEADLOCK FALSE
 
PROPERTIES  RemovalEndsSubscription
