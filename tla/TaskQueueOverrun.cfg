CONSTANTS
  Main = main
  Workers = {w1}
  Nobody = nobody
  QueueSize = 2
  MaxDatagrams = 4
SPECIFICATION FairSpec
PROPERTIES
  EveryDatagramProcessed
