SPECIFICATION FairSpec
CONSTANTS
  a = a
  b = b
  s = s
  None = None
  Callers = {a, b}
  Stopper = s
  MaxFaults = 3
INVARIANTS
  NoOrphan
  OutcomesAreTrue
PROPERTIES
  SparesWorkInFlight
  EveryCallEnds
CHECK_DEADLOCK FALSE
