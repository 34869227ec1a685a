\* Linux, --send-time --fork --children 3: the third child binds to the collector's port.
SPECIFICATION Spec
CONSTANTS
  Platform = "posix"
  Scenarios <- Untroubled
  ChildrenNum = 3
  Procs <- Quartet
  Root = r
  r = r
  c1 = c1
  c2 = c2
  c3 = c3
  DomIds <- AnId
  NONE = NONE
SYMMETRY MembersSymmetry
INVARIANTS NobodyFails
CHECK_DEADLOCK FALSE
