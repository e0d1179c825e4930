SPECIFICATION Spec
CONSTANTS
  t1 = t1
  t2 = t2
  w1 = w1
  w2 = w2
  NoTask = NoTask
  Tasks = {t1, t2}
  Workers = {w1, w2}
  Producers = {p1}
  TopLevel = 1
  Priority <- MCPriority
  MaxRetries <- MCMaxRetries
  AdminOps = {"cancel", "clear"}
  Faults = {"break", "drop", "stop", "expire"}
  MaxAdmin = 1
  MaxStops = 1
SYMMETRY MCWorkersAlike
INVARIANT TypeOK
INVARIANT NoDoubleExecution
INVARIANT WorkIsCounted
INVARIANT CompletedIsBacked
INVARIANT NothingVanishes
PROPERTY AtMostOnce
CHECK_DEADLOCK FALSE
