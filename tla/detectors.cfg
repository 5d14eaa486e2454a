\* Two symbols; a cooldown of two seconds of two ticks; a clock that may step back.
SPECIFICATION Spec
CONSTANTS
  Symbols = {btc, eth}
  Settings <- MCSettings
  TicksPerSecond = 2
  CooldownSecs = 2
  MarketStates <- MCMarketStates
  Clock = {0, 3, 4}
  MaxEvaluations = 3
SYMMETRY SymbolSymmetry
INVARIANTS
  GapsReportedOnce
  StuckExactly
  CooldownSpacing
  BurstExactly
CHECK_DEADLOCK FALSE
