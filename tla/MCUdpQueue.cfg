CONSTANTS
  Peers = {p1}
  Peer = p1
  Sizes = {0, 1, 2}
  BufSize = 1
  SndCap = 1
  RcvCap = 2
  MaxPackets = 3
SPECIFICATION FairSpec
INVARIANTS
  NothingStranded
  ReadFaithful
PROPERTIES
  FifoSpec
  OutDrains
CHECK_DEADLOCK FALSE
