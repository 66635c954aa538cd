CONSTANTS
  Prefix <- VendorPrefix
  Clients = {c1, c2}
  Hlens = {6,4}
  Xids = {1}
  ipFirst = 10
  ipLast = 12
  MaxLease = 1
  None = none
  MaxTime = 1
  MaxLives = 2
SPECIFICATION Spec
SYMMETRY ClientSymmetry
INVARIANTS
  TypeOK
  NewestFirst
  NextIsFree
  OneClientPerAddress
  NewestIsYoungest
PROPERTIES
  AckServesNewest
  OthersKeepBindings
  ImplementsLedger
