CONSTANTS
  MaxStarts = 2
  MaxCrashes = 1
SPECIFICATION FairSpec
CHECK_DEADLOCK FALSE
INVARIANTS
  Controllable
  DeafExplained
PROPERTIES
  StopEnds
