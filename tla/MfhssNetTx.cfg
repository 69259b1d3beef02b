CONSTANTS
  MaxTx = 4
  MaxOpen = 3
SPECIFICATION FairSpec
INVARIANTS
  OpenReleasesAll
  OwnedExactly
  FramesInFlight
PROPERTY
  QueueNeverStuck
