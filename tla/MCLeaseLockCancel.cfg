SPECIFICATION Spec
CONSTANTS
  a = a
  b = b
  c = c
  NoHolder = NoHolder
  Holders = {a, b}
  InThread = {}
  Heeding = {a, b}
  Prompt = {a, b}
  TTL = 3
  Beat = 1
  MaxTime = 3
INVARIANT NeverConcurrent
CHECK_DEADLOCK FALSE
