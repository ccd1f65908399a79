SPECIFICATION Spec
CONSTANTS
  NumPages = 4
  PageSize = 2
  NumRows = 2
  MaxLen = 5
  MaxExtend = 3
  NeedSort = FALSE
  Backends = {"npu"}
INVARIANT DecodeGatherInRange
