CONSTANTS
  NKeys = 2
  Factory = {0, 1}
  MaxGen = 3
  MaxDrops = 2
  MaxCycles = 1
SPECIFICATION FairSpec
INVARIANTS
  SentIsFresh
  MasterKeepsSet
  KeysOfOneSet
PROPERTIES
  ParentReadsFirst
  KeysReconverge
CHECK_DEADLOCK FALSE
