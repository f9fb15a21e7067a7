SPECIFICATION TerminalSpec
CONSTANTS
  s1 = s1
  s2 = s2
  a = a
  b = b
  c = c
  f1 = f1
  f2 = f2
  Nil = Nil
  Sessions = {s1}
  Clients = {a, b}
  Fds = {f1}
  Keep = 1
  MaxOut = 2
  MaxAsks = 3
  Faults = {"thread", "torn", "hang", "wedge"}
  MaxFaults = 1
SYMMETRY Anyone
INVARIANTS
  TerminalTypeOK
  NothingIsMissed
  NoneIsStranded
  EndsAreTold
CHECK_DEADLOCK FALSE
