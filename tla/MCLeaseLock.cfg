SPECIFICATION Spec
CONSTANTS
  a = a
  b = b
  c = c
  NoHolder = NoHolder
  Holders = {a, b, c}
  InThread = {b}
  Heeding = {a, c}
  Prompt = {a, b}
  TTL = 3
  Beat = 1
  MaxTime = 5
INVARIANTS
  TypeOK
  WritersExclusive
  LostIsTrue
PROPERTIES
  LiveHoldIsSafe
  LeaseIsAGate
CHECK_DEADLOCK FALSE
