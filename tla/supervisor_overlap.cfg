\* Two clients that may disconnect, three runs.
SPECIFICATION Spec
CONSTANTS
  Clients = {c1, c2}
  Disconnecting = {c1, c2}
  Main = main
  NoClient = nobody
  btc = btc
  eth = eth
  bad = bad
  Symbols <- MCSymbols
  StartSymbols <- MCStartSymbols
  Commands <- MCCommands
  MaxRuns = 3
INVARIANT OneIngestionAtATime
