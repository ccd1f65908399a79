SPECIFICATION FairSpec
CONSTANTS
  Req = {1, 3}
  NoReq = 0
  Text <- Texts
  PromptLen <- Prompts
  MaxNew <- FullNews
  StopLen <- Stops
  NumPages = 5
  PageSize = 2
  Block = 3
  ChunkSize = 8
  MaxPrefillTokens = 8
  MaxRunning = 3
  RetractSteps = 1
  ClipMaxNew = 8
  Abortable = {}
  PauseModes = {}
  PageAssignments <- MCPageAssignments
PROPERTIES EventuallyAnswered
