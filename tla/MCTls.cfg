CONSTANTS
  MaxOut = 6
  MaxIn = 4
  MaxInits = 1
  SndCap = 3
  RcvCap = 1
  Maxes = {2}
  Spare = {0}
  RetryFlush = FALSE
  TlsModes = {TRUE, FALSE}
  Limit = 1
  MaxPlain = 2
  MaxPeerPlain = 2
  PeerCloses = TRUE
  EarlyEof = FALSE
SPECIFICATION FairTlsSpec
INVARIANTS PlainIntact CloseLast TlsEofHonest
PROPERTIES ProcessEnds EofPassed
CHECK_DEADLOCK FALSE
