CONSTANTS
  MaxOut = 6
  MaxIn = 6
  MaxInits = 1
  SndCap = 1
  RcvCap = 2
  Maxes = {2}
  Spare = {2}
  RetryFlush = FALSE
  TlsModes = {TRUE}
  Limit = 4
  MaxPlain = 1
  MaxPeerPlain = 0
  PeerCloses = FALSE
  EarlyEof = TRUE
SPECIFICATION TlsSpec
INVARIANTS CloseLast
CHECK_DEADLOCK FALSE
