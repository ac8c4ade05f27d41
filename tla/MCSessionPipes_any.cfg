SPECIFICATION InterruptedSpec
CONSTANTS
  p = p
  s = s
  m = m
  n = n
  l = l
  reg = reg
  Register = reg
  Clients <- SPAndM
  Pubs <- OnlyP
  Subs <- OnlyS
  Creators = {}
  Removers <- OnlyM
  Listers = {}
  Interruptible <- OnlyP
  MaxSessions = 1
  MaxStored = 2
  MaxUnstored = 2
  BoxAtStart = TRUE
  StoredAtStart = 1
  OverrunKills = FALSE
CHECK_DEADLOCK FALSE
INVARIANTS TypeOK AcceptedWasGranted RejectedWasRefused 
