SPECIFICATION Spec
CONSTANTS
  Callers = {c1, c2, c3}
  Limit = 2
  LastMonth = 2
  Faults = {"redis", "cancel"}
  MaxLookups = 4
INVARIANT TypeOK
INVARIANT WithinLimit
INVARIANT NothingUncounted
INVARIANT KeysExpire
CHECK_DEADLOCK FALSE
