CONSTANTS
  MaxOut = 0
  MaxIn = 2
  MaxInits = 1
  SndCap = 1
  RcvCap = 2
  Maxes = {2}
  Spare = {0}
  RetryFlush = TRUE
  MaxConn = 2
  Timeout = 1
  Marks <- AbortThenStop
SPECIFICATION NoErrorSpec
PROPERTIES AbortPassed
CHECK_DEADLOCK FALSE
