SPECIFICATION Spec
CONSTANTS
  m1 = m1
  m2 = m2
  c1 = c1
  c2 = c2
  w1 = w1
  w2 = w2
  b1 = b1
  None = None
  Memories = {m1}
  Contents = {c1, c2}
  Barren = {}
  Workers = {}
  Builders = {b1}
  BatchSize = 2
  MaxAttempts = 2
  Deletes = {}
  Faults = {"overlap"}
  MaxFaults = 1
  MaxWrites = 2
INVARIANTS
  NothingForgotten
CHECK_DEADLOCK FALSE
