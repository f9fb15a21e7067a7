SPECIFICATION FairSpec
CONSTANTS
  c1 = c1
  c2 = c2
  c3 = c3
  c4 = c4
  Stopper = Stopper
  NoOne = NoOne
  Callers = {c1, c2, c3, c4}
  Instant = {c4}
  Starters = {c1}
  Leavers = {c2}
  MaxSize = 1
INVARIANTS
  QueueTypeOK
  StopIsClean
PROPERTIES
  EveryCallEnds
CHECK_DEADLOCK FALSE
