CONSTANTS
  Prefix <- OwnPrefix
  Clients = {c1, c2}
  Hlens = {6}
  Xids = {1, 2}
  ipFirst = 10
  ipLast = 12
  MaxLease = 1
  None = none
  MaxTime = 0
  MaxLives = 2
  MaxTransactions = 2
SPECIFICATION RestartExchange
INVARIANT
  NoTwoHolders
