\* Books of two levels, three prices on each side.
SPECIFICATION Spec
CONSTANTS
  RetainedDepthLevels = 2
  MaxUpdateId = 4
  Changes <- MCChanges
  Feeds <- MCFeeds
INVARIANTS
  NoPhantomLevels
  GapsAreWitnessed
  TrimmingIsLossless
