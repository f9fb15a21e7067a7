SPECIFICATION FairSpec
CONSTANTS
  s1 = s1
  r1 = r1
  u1 = u1
  None = None
  Lapsed = Lapsed
  Roots = {r1}
  Sites <- MCSites
  Servers = {s1}
  Indexers = {s1, u1}
  Deleters = {u1}
  Home <- MCHome
  Signature <- MCSignature
  Faults = {"unreadable", "list", "vanish", "git", "client", "engine", "path", "mark", "clear", "save", "observer", "switch", "suppress", "resolve", "cancel", "stop", "crash"}
  Mark <- MCMark
  MaxEdits = 1
  MaxCalls = 2
  MaxFaults = 1
INVARIANTS
  BaselineIsHonest
  ChangeIsNoticed
  TombstoneMeansGone
  LastVerdictStands
PROPERTIES
  DeletedStaysDeleted
  KeepsCurrent
CHECK_DEADLOCK FALSE
