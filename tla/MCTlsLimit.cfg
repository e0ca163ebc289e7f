CONSTANTS
  MaxOut = 6
  MaxIn = 6
  MaxInits = 1
  SndCap = 1
  RcvCap = 2
  Maxes = {2}
  Spare = {2}
  RetryFlush = FALSE
  TlsModes = {TRUE}
  Limit = 1
  MaxPlain = 2
  MaxPeerPlain = 0
  PeerCloses = FALSE
  EarlyEof = FALSE
SPECIFICATION FairTlsSpec
PROPERTIES ProcessReturns
CHECK_DEADLOCK FALSE
