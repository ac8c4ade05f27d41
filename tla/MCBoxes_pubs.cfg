SPECIFICATION PoliteSpec
CONSTANTS
  a = a
  b = b
  Names <- MCTwoBoxes
  LongNames = {}
  BadPaths = {}
  NoName = none
  Bytes <- MCTwoBoxes
  Garbage = garbage
  INODE_TABLE_SIZE = 3
  DATA_BLOCKS = 3
  MAX_OPEN_FILES = 3
  BLOCK_SIZE = 2
  MAX_DIR_ENTRIES = 2
  SIZE_MOD = 64
  MaxSessions = 2
  MESSAGE_SIZE = 2
  Requests <- MCNoSubscribers
  ArgsLost = FALSE
CHECK_DEADLOCK FALSE
SYMMETRY BoxSymmetry
 
PROPERTIES ProbeIsExact CreatesNewBox 
VIEW LiveState
