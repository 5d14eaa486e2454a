CONSTANTS
  None = None
  BadSymbol = BadSymbol
  Symbols <- MCSymbols
  Runs = {"first", "second"}
  EventKinds = {"trade"}
  RuntimeSnapshots <- MCRuntimeSnapshots
  Limits <- MCLimits
  TimelinePointLimit = 1
  TimelineAnomalyLimit = 1
  DefaultAnomalyLimit = 1
  MaxAnomalyLimit = 2
  DegradedAfter = 0
  UnhealthyAfter = 1
  Delays = {0, 1}
  MaxCount = 2
  MaxTime = 3
  Budgets <- MCBudgets

SPECIFICATION Spec
PROPERTIES SnapshotsAddUp VerdictIsSound 
CHECK_DEADLOCK FALSE
