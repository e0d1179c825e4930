SPECIFICATION FairSpec
CONSTANTS
  t1 = t1
  t2 = t2
  w1 = w1
  w2 = w2
  NoTask = NoTask
  Tasks = {t1, t2}
  Workers = {w1, w2}
  Producers = {p1, p2}
  TopLevel = 1
  Priority <- MCPriority
  MaxRetries <- MCMaxRetries
  AdminOps = {}
  Faults = {"break"}
  MaxAdmin = 0
  MaxStops = 0
PROPERTY EveryTaskIsTaken
CHECK_DEADLOCK FALSE
