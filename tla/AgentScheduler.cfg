SPECIFICATION FairSpec
CONSTANTS
  Requests = {r1, r2}
  WorkerCount = 1
  Suppliers = 2
  MaxStarts = 2
  MaxQueued = 2
INVARIANT TypeOK
INVARIANT OneScheduler
INVARIANT StoppedMeansStopped
PROPERTY PauseHolds
PROPERTY CyclesGoOn
