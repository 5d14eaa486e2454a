\* A replay or a live run: three lines or messages about two symbols, a channel
\* of two, two reconnect attempts, the second at the longest delay.
SPECIFICATION FairSpec
CONSTANTS
  Sources = {"Replay", "Live"}
  Symbols = {"BTCUSDT", "ETHUSDT"}
  Contents <- MCContents
  Capacity = 2
  MinBackoff = 2
  MaxBackoff = 3
  MaxInput = 3
  MaxReconnects = 2
  MaxAnomalies = 1
INVARIANTS
  NothingLostOrReordered
  RowsOrCounted
  CacheLagIsCounted
  LiveOutlivesFaults
PROPERTIES
  RunEnds
CHECK_DEADLOCK FALSE
