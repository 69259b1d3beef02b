CONSTANTS
  Totals <- MCTotals
  S_WAIT = 10
  R_WAIT = 3
  MAX_ERRORS = 3
  MaxDelay = 2
  MaxFaults = 1
SPECIFICATION FairSpec
INVARIANT
  DeliveredIntact
