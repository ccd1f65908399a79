SPECIFICATION Spec
CONSTANTS
  Req = {1, 2}
  Text <- Texts
  NumPages = 4
  PageSize = 2
  Allocs <- MCAllocs
INVARIANTS LockRefExact SizesExact EvictComplete EventsMirrorCache
PROPERTIES ImplementsMemory
