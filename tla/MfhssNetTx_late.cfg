CONSTANTS
  MaxTx = 2
  MaxOpen = 1
SPECIFICATION FairSpec
INVARIANT
  FreedOnce
