CONSTANTS
  Clients = {c1}
  CidentLen = 6
  Radix = 3
  ipFirst = 27
  ipLast = 28
  PendingTime = 1
  MaxLease = 1
  MaxBindings = 3
  MaxTime = 3
SPECIFICATION Spec
INVARIANTS
  TypeOK
  ExpiredWasOverdue
PROPERTIES
  UpkeepSparesLeases
  UpkeepReclaims
