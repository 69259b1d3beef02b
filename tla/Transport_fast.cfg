CONSTANTS
  Totals <- MCTotals
  S_WAIT = 10
  R_WAIT = 3
  MAX_ERRORS = 3
  MaxDelay = 1
  MaxFaults = 6
SPECIFICATION FairSpec
INVARIANTS
  TypeOK
  DeliveredIntact
  AckMeansDelivered
  DeliveredInOrder
PROPERTIES
  AutomataReturn
