SPECIFICATION FairSpec
CONSTANTS
  Req = {1, 2, 3}
  Loads <- StuckLoads
  PageSize = 1
  NPages = 15
  Reserved = 4
  Clip = 10
  MaxRunning = 2
  PreAlloc = 2
  Aborts = {}
PROPERTY EventuallyAnswered
