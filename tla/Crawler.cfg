SPECIFICATION FairSpec
CONSTANTS
  NoFetch = NoFetch
  NoPage = NoPage
  Fetches = {f1, f2}
  Pages = {p1, p2, p3, p4}
  MaxSize = 2
  MaxRetries = 1
  MaxClears = 1
INVARIANT TypeOK
INVARIANT PoolBounded
INVARIANT OneOwner
INVARIANT NobodyWaitsInVain
PROPERTY EveryFetchEnds
CHECK_DEADLOCK FALSE
