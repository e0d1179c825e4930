SPECIFICATION FairSpec
CONSTANTS
  Events = {e1, e2, e3}
  Instances = {i1, i2}
  Batch = 2
  Corrupt = {e3}
  Faults = {"crash", "error"}
  MaxFaults = 2
INVARIANT TypeOK
INVARIANT InStreamOrder
INVARIANT AckedIsDelivered
PROPERTY EveryEventArrives
CHECK_DEADLOCK FALSE
