CONSTANTS
  MaxOut = 0
  MaxIn = 4
  MaxInits = 2
  SndCap = 1
  RcvCap = 3
  Maxes = {1, 2}
  Spare = {0, 1}
  RetryFlush = FALSE
SPECIFICATION Spec
INVARIANT EofHonest
CHECK_DEADLOCK FALSE
