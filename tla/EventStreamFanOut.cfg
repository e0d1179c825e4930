SPECIFICATION FairSpec
CONSTANTS
  Events = {e1, e2, e3}
  Instances = {i1, i2}
  Batch = 2
  Corrupt = {}
  Faults = {}
  MaxFaults = 0
PROPERTY FanOut
CHECK_DEADLOCK FALSE
