\* Every line of up to two options, arguments good and bad, on each platform.
SPECIFICATION FairSpec
CONSTANTS
  CommandLines <- AllLines
  MAX_ARGV_NUM = 4
  MaxWrites = 3
  MayFail = TRUE
INVARIANTS GuestTypeOK TokensAreWords PrologueAssumptionsHold ProperLinesStart TriggeredByOperator
PROPERTIES BootEnds TriggerIsHeard
CHECK_DEADLOCK FALSE
