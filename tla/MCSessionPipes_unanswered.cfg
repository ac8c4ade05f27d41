SPECIFICATION Spec
CONSTANTS
  p = p
  s = s
  m = m
  n = n
  l = l
  reg = reg
  Register = reg
  Clients <- OnlyP
  Pubs <- OnlyP
  Subs = {}
  Creators = {}
  Removers = {}
  Listers = {}
  Interruptible = {}
  MaxSessions = 1
  MaxStored = 1
  MaxUnstored = 2
  BoxAtStart = TRUE
  StoredAtStart = 0
  OverrunKills = FALSE
CHECK_DEADLOCK FALSE
PROPERTIES ClientAnswered
