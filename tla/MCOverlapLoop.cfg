SPECIFICATION FairSpec
CONSTANTS
  Req = {1, 2, 3}
  NoReq = 0
  PromptLen <- Prompts
  MaxNew <- News
  Draft = 2
  PageSize = 2
  NumPages = 6
  ChunkSize = 2
  MaxRunning = 2
  Abortable = {2}
  PauseModes = {"in_place", "retract"}
  SyncPrefill = TRUE
  Grammar = {2}
INVARIANTS CommittedLags ResultsApplied WritesAllocated PoolExact
PROPERTIES EventuallyAnswered
