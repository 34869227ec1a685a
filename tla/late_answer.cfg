\* A late answer passes for the answer to the next report.
SPECIFICATION Spec
CONSTANTS
  Platform = "posix"
  Scenarios <- LateAnswers
  ChildrenNum = 2
  Procs <- Trio
  Root = r
  r = r
  c1 = c1
  c2 = c2
  c3 = c3
  DomIds <- AnId
  NONE = NONE
SYMMETRY MembersSymmetry
INVARIANTS AckedMeansReceived
CHECK_DEADLOCK FALSE
