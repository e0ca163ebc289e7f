CONSTANTS
  MaxOut = 3
  MaxIn = 0
  MaxInits = 2
  SndCap = 2
  RcvCap = 1
  Maxes = {1}
  Spare = {0}
  RetryFlush = TRUE
SPECIFICATION Spec
INVARIANT NodelayApplied
CHECK_DEADLOCK FALSE
