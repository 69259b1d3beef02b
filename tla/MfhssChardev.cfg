CONSTANTS
  Users = {worker, tool}
  Talkers = {worker}
  MaxWrites = 2
  MaxTries = 2
  MaxHalf = 1
SPECIFICATION Spec
CHECK_DEADLOCK FALSE
INVARIANTS
  IrqsBalanced
  OneUser
  SentIsOnAir
PROPERTY
  ReadOnce
