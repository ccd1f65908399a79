SPECIFICATION Spec
CONSTANTS
  NumPages = 4
  PageSize = 2
  NumRows = 2
  MaxLen = 5
  MaxExtend = 3
  NeedSort = TRUE
  Backends = {"cuda", "npu"}
INVARIANTS PageConservation RowLayout NoSpuriousNone DraftBlockPrivate
