\* Four events over two symbols; a window of two time units.
SPECIFICATION Spec
CONSTANTS
  RetainedDepthLevels = 1
  MaxUpdateId = 3
  WindowSize = 2
  Symbols = {btc, eth}
  Events <- MCEvents
  MaxEvents = 4
SYMMETRY SymbolSymmetry
INVARIANTS
  NewestIsShown
  SignalsCoverLastMinute
  FreshnessIsReal
CHECK_DEADLOCK FALSE
