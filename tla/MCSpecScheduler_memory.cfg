SPECIFICATION Spec
CONSTANTS
  Req = {1, 2, 3}
  NoReq = 0
  Text <- Texts
  PromptLen <- Prompts
  MaxNew <- News
  StopLen <- Stops
  NumPages = 6
  PageSize = 2
  Block = 5
  ChunkSize = 4
  MaxPrefillTokens = 8
  MaxRunning = 3
  RetractSteps = 1
  ClipMaxNew = 1
  Abortable = {1}
  PauseModes = {"retract"}
  PageAssignments <- MCPageAssignments
INVARIANTS BatchesExact PageOwnership ProtectedIsCached CachedKVCorrect CommittedKVCorrect NeverOOM SpecAligned
PROPERTIES MemSpec
