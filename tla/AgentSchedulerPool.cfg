SPECIFICATION Spec
CONSTANTS
  Requests = {r1, r2}
  WorkerCount = 1
  Suppliers = 1
  MaxStarts = 2
  MaxQueued = 1
INVARIANT PoolAsConfigured
