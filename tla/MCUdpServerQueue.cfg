CONSTANTS
  Peers = {p1, p2}
  Sizes = {1, 2}
  BufSize = 1
  SndCap = 1
  RcvCap = 2
  MaxPackets = 3
SPECIFICATION Spec
INVARIANTS
  NothingStranded
  ReadFaithful
PROPERTIES
  FifoSpec
CHECK_DEADLOCK FALSE
