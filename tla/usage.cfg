\* Linux: the short forms of the usage text are refused, or take an argument.
SPECIFICATION Spec
CONSTANTS
  CommandLines <- LinuxLines
  MAX_ARGV_NUM = 4
  MaxWrites = 0
  MayFail = FALSE
INVARIANTS UsageHolds
CHECK_DEADLOCK FALSE
