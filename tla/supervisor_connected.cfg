\* Two clients that stay connected, three runs.
SPECIFICATION Spec
CONSTANTS
  Clients = {c1, c2}
  Disconnecting = {}
  Main = main
  NoClient = nobody
  btc = btc
  eth = eth
  bad = bad
  Symbols <- MCSymbols
  StartSymbols <- MCStartSymbols
  Commands <- MCCommands
  MaxRuns = 3
INVARIANTS
  TypeOK
  OneIngestionAtATime
  ResetIsolatesRuns
  LateUpdateWithinJoin
  StatusDescribesRun
  AnswerIsOwn
PROPERTIES
  FailureIsSticky
  ImplementsLease
