CONSTANTS
  MaxOut = 0
  MaxIn = 4
  MaxInits = 1
  SndCap = 1
  RcvCap = 3
  Maxes = {1, 2}
  Spare = {0, 1}
  RetryFlush = FALSE
SPECIFICATION FairSpec
INVARIANTS
  InIntact
  NoStrandedInput
  EofHonest
PROPERTIES
  InDrains
CHECK_DEADLOCK FALSE
