CONSTANTS
  MAX_PRI = 2
  waker_pri = 1
  Tokens = {0, 1, 2}
  Sources = {s1, s2}
  Waker = waker
  UserWake = userwake
  NoToken = notoken
  Vacant = vacant
  EventsCap = 2
  MaxEdges = 3
SPECIFICATION Spec
INVARIANT NoOrphanToken
