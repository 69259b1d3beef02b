CONSTANTS
  POOL_SIZE = 3
  MaxRx = 5
SPECIFICATION FairSpec
INVARIANTS
  TypeOK
  NoAlias
  Accounted
PROPERTIES
  RxDrains
  ImplementsPool
CHECK_DEADLOCK FALSE
