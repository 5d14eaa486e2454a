SPECIFICATION Spec
CONSTANTS
  Normalized <- MCNormalized
  Alphanumeric = {"BTCUSDT", "ETHUSDT"}
  I64Max = 2097151
  U64Max = 4194303
  U32Max = 1048575
  MaxEventChannelCapacity = 1000000
  MaxTimestamp = 30000
  LastWritable = 1000
  TimestamptzReach = 20000
  IngestTime = 9
  Raws <- MCRaws
  Contents <- MCContents
  Base <- MCBase
INVARIANTS
  EventsAreUsable
  SourcesAgree
  SettingsAreUsable
CHECK_DEADLOCK FALSE
