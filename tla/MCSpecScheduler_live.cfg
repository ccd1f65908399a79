SPECIFICATION FairSpec
CONSTANTS
  Req = {1, 2, 3}
  NoReq = 0
  Text <- Texts
  PromptLen <- UnevenPrompts
  MaxNew <- Short
  StopLen <- Short
  NumPages = 17
  PageSize = 1
  Block = 9
  ChunkSize = 4
  MaxPrefillTokens = 12
  MaxRunning = 3
  RetractSteps = 1
  ClipMaxNew = 1
  Abortable = {2}
  PauseModes = {"in_place"}
  PageAssignments <- MCPageAssignments
INVARIANTS PrefixClosed OneChunkedReq
PROPERTIES FirstComeFirstServed EventuallyAnswered
