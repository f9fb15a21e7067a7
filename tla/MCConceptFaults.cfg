SPECIFICATION Spec
CONSTANTS
  m1 = m1
  m2 = m2
  c1 = c1
  c2 = c2
  w1 = w1
  w2 = w2
  b1 = b1
  None = None
  Memories = {m1}
  Contents = {c1, c2}
  Barren = {}
  Workers = {w1}
  Builders = {b1}
  BatchSize = 2
  MaxAttempts = 2
  Deletes = {m1}
  Faults = {"extract", "retract", "raise", "crash", "stop", "detach", "stall", "reset", "overlap", "replace"}
  MaxFaults = 2
  MaxWrites = 2
INVARIANTS
  QueueIsCurrent
  ForgetsNothingInTurn
CHECK_DEADLOCK FALSE
