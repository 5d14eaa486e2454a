\* Two symbols, one configured; six initial contents; crashes without bound.
SPECIFICATION Spec
CONSTANTS
  btc = btc
  eth = eth
  Symbols = {btc, eth}
  BadNames = {bad}
  Configured = {eth}
  InitialContents <- MCInitialContents
  MaxErrors = 2
INVARIANTS
  EveryStateIsListed
  TrustedOrDegraded
PROPERTIES
  ClearLeavesNothing
  CatalogIsComplete
