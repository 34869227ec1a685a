\* A fork() that fails is reported as success.
SPECIFICATION Spec
CONSTANTS
  Platform = "posix"
  Scenarios <- FailingCalls
  ChildrenNum = 2
  Procs <- Trio
  Root = r
  r = r
  c1 = c1
  c2 = c2
  c3 = c3
  DomIds <- AnId
  NONE = NONE
SYMMETRY MembersSymmetry
INVARIANTS SuccessMeansFullFamily
CHECK_DEADLOCK FALSE
