CONSTANTS
  Main = main
  Workers = {w1, w2}
  Nobody = nobody
  QueueSize = 3
  MaxDatagrams = 5
SPECIFICATION FairSpec
INVARIANTS
  TypeOK
  InArrivalOrder
  TakenOnce
  NoLostWakeup
PROPERTIES
  EveryTaskHandled
  ImplementsChannel
