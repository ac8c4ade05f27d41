SPECIFICATION TestSpec
CONSTANTS
  t1 = t1
  t2 = t2
  f1 = f1
  f2 = f2
  l1 = l1
  l2 = l2
  Threads <- MCThreads
  Names <- MCNames
  OpenModes <- MCModes
  Existing <- MCNone
  File <- MCSharedFile
  Link <- MCSharedLink
  NoName = none
  Garbage = garbage
  Nobody = nobody
  INODE_TABLE_SIZE = 5
  DATA_BLOCKS = 4
  MAX_OPEN_FILES = 2
  MAX_DIR_ENTRIES = 4
  MAX_CALLS = 10
INVARIANTS ReadsBack
CHECK_DEADLOCK FALSE
