\* Two clients, one of which may disconnect, three runs, fair scheduling.
SPECIFICATION FairSpec
CONSTANTS
  Clients = {c1, c2}
  Disconnecting = {c1}
  Main = main
  NoClient = nobody
  btc = btc
  eth = eth
  bad = bad
  Symbols <- MCSymbols
  StartSymbols <- MCStartSymbols
  Commands <- MCValidCommands
  MaxRuns = 3
INVARIANTS
  TasksAccountedFor
  SwitchOwnsRunId
PROPERTIES
  SwitchEnds
  ShutdownCompletes
