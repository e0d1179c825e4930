SPECIFICATION FairSpec
CONSTANTS
  Events = {e1, e2, e3}
  Instances = {i1, i2}
  Batch = 2
  Corrupt = {}
  Faults = {"crash"}
  MaxFaults = 1
PROPERTY AtLeastOnce
CHECK_DEADLOCK FALSE
