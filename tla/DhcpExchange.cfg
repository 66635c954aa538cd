CONSTANTS
  Prefix <- OwnPrefix
  Clients = {c1, c2}
  Hlens = {6}
  Xids = {1, 2}
  ipFirst = 10
  ipLast = 12
  MaxLease = 1
  None = none
  MaxTime = 0
  MaxLives = 1
  MaxTransactions = 2
SPECIFICATION FairExchange
INVARIANTS
  ExchangeTypeOK
  HeldIsBound
  NoTwoHolders
PROPERTIES
  RequestIsConfirmed
  DiscoverIsServed
