SPECIFICATION WorkerSpec
CONSTANTS
  Reqs = {1, 2}
  Tiers <- DefaultTiers
  Initials = {1, 5, 9}
  ContextLen = 8
  Warmup = 1
  Interval = 2
  DownHyst <- Down
  UpHyst = 0
  Req = {1, 2, 3}
  NoReq = 0
  MaxRunning = 2
  NumChunks = 4
INVARIANTS StagesAgree ResolvesOwnToken
PROPERTY Adapts
