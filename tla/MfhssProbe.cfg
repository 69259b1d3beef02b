CONSTANTS
  PoolSize = 2
  MaxProbes = 2
  MaxIrqs = 3
SPECIFICATION FairSpec
CHECK_DEADLOCK FALSE
INVARIANTS
  Balanced
  NoPacketLeft
  FaultsExplained
PROPERTIES
  ImplementsLadder
  Completes
