SPECIFICATION FairSpec
CONSTANTS
  Req = {1, 2, 3}
  Loads <- MCLoads
  PageSize = 2
  NPages = 6
  Reserved = 1
  Clip = 10
  MaxRunning = 2
  PreAlloc = 2
  Aborts = {1}
INVARIANTS PoolExact NeverFull
PROPERTY EventuallyAnswered
