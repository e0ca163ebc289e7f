CONSTANTS
  MaxOut = 0
  MaxIn = 4
  MaxInits = 1
  SndCap = 1
  RcvCap = 3
  Maxes = {0, 1}
  Spare = {0, 1}
  RetryFlush = FALSE
SPECIFICATION Spec
INVARIANT EofHonest
CHECK_DEADLOCK FALSE
