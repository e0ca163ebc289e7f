CONSTANTS
  MAX_PRI = 2
  waker_pri = 1
  Tokens = {0, 1}
  Sources = {s1}
  Waker = waker
  UserWake = userwake
  NoToken = notoken
  Vacant = vacant
  EventsCap = 2
  MaxEdges = 3
  Threads = {t1, t2}
SPECIFICATION FairLoopSpec
INVARIANTS
  NoSleepWhilePending
  IdleOnlyWhenNoIO
  NoLostWake
PROPERTIES
  AllHandled
CHECK_DEADLOCK FALSE
