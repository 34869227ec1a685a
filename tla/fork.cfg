\* Linux, with and without -t and -f, two children, a process slot to spare;
\* families that only lose datagrams, or only get empty answers, among them.
SPECIFICATION Spec
CONSTANTS
  Platform = "posix"
  Scenarios <- OnLinux
  ChildrenNum = 2
  Procs <- Quartet
  Root = r
  r = r
  c1 = c1
  c2 = c2
  c3 = c3
  DomIds <- AnId
  NONE = NONE
SYMMETRY MembersSymmetry
INVARIANTS TypeOK ReportersHaveDistinctPorts AckGoesHome FirstAckIsTrue IndexNamesPort ChildKnowsItself NobodyFails TimelyAcksAreTrue
CHECK_DEADLOCK FALSE
