\* Every TCP application, with and without -f: two clients at a time.
SPECIFICATION FairSpec
CONSTANTS
  Apps = {"counter", "server_tcp", "measure_fork", "memory_overhead", "children", "files"}
  r = r
  k = k
  s = s
  a = a
  b = b
  Procs <- Trio
  Root = r
  Kin <- Family
  Conns <- Pair
  NONE = NONE
  MayFail = TRUE
INVARIANTS NoDescriptorLeaks
PROPERTIES ImplementsSerialService EveryConnectionEnds
CHECK_DEADLOCK FALSE
