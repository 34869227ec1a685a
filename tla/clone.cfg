\* Mini-OS, every command line, two children: ids with gaps, below and above
\* the parent's; the abstract family and its progress.
SPECIFICATION FairSpec
CONSTANTS
  Platform = "minios"
  Scenarios <- OnMiniOS
  ChildrenNum = 2
  Procs <- Trio
  Root = r
  r = r
  c1 = c1
  c2 = c2
  c3 = c3
  DomIds <- FewIds
  NONE = NONE
INVARIANTS ReportersHaveDistinctPorts AckGoesHome FirstAckIsTrue ChildKnowsItself
PROPERTIES ImplementsFamily EveryoneSettles
CHECK_DEADLOCK FALSE
