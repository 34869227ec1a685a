\* Every size of a word of five bits, six frames that others use too.
SPECIFICATION Spec
CONSTANTS
  Platforms = {"minios", "posix"}
  Requests <- Sizes
  Frames = 6
  PageSize = 2
  ULONG = 32
  MapFailed = MapFailed
INVARIANTS AppHasItsPages PagesHoldRequest
CHECK_DEADLOCK FALSE
