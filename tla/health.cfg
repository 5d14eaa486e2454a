\* Two symbols; two penalties use up the base score, as the endpoint's limit of
\* 100 anomalies does, and the limits cut at the third anomaly.
SPECIFICATION Spec
CONSTANTS
  None = None
  Symbols = {btc, eth}
  BaseScore = 4
  InfoPenalty = 1
  WarningPenalty = 2
  CriticalPenalty = 3
  StalePenalty = 2
  Window = 1
  HealthyMin = 3
  DegradedMin = 2
  StaleAfter = 1
  Delays = {0, 1}
  HealthLimit = 2
  DashboardLimit = 2
  MaxTime = 3
  MaxEvents = 2
  MaxErrors = 1
SYMMETRY Symmetry
PROPERTIES
  ScoreIsExact
  PenaltiesFitState
  StaleIsReal
