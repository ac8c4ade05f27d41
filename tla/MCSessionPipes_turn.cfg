SPECIFICATION InTurnSpec
CONSTANTS
  p = p
  s = s
  m = m
  n = n
  l = l
  reg = reg
  Register = reg
  Clients <- MNLAndP
  Pubs <- OnlyP
  Subs = {}
  Creators <- OnlyM
  Removers <- OnlyN
  Listers <- OnlyL
  Interruptible = {}
  MaxSessions = 1
  MaxStored = 1
  MaxUnstored = 2
  BoxAtStart = FALSE
  StoredAtStart = 0
  OverrunKills = TRUE
CHECK_DEADLOCK FALSE
PROPERTIES ManagerAnswered MainComesBack
