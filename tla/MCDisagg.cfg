SPECIFICATION FairSpec
CHECK_DEADLOCK FALSE
CONSTANTS
  Req = {1, 2}
  PSlots = 1
  DSlots = 1
  MaxEnsure = 2
  Scenarios <- MCScenarios
INVARIANTS Ownership PollSafe AnsweredOnce TransfersIntact
PROPERTY Answers
