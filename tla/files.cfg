\* Both tests, on Linux and on guests, with and without two children.
SPECIFICATION FairSpec
CONSTANTS
  Tests = {"simple", "server"}
  Platforms = {"posix", "unikraft"}
  r = r
  a = a
  b = b
  Root = r
  Kin <- Pair
  Size = 4
  WordSize = 2
  MaxRequests = 2
  NONE = NONE
  OLD = OLD
  HOLE = HOLE
INVARIANTS TypeOK LastWriterLeavesAll IdleHoldsNothing NothingOverwritten
PROPERTIES RequestsEnd
CHECK_DEADLOCK FALSE
