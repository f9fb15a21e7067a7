SPECIFICATION FairSpec
CONSTANTS
  r1 = r1
  u1 = u1
  k1 = k1
  w1 = w1
  w2 = w2
  m1 = m1
  m2 = m2
  None = None
  Lapsed = Lapsed
  Ambiguous = Ambiguous
  Roots = {r1}
  Indexers = {u1}
  Deleters = {u1}
  Scopes = {m1, m2}
  Home <- MCHome
  MaxEntities = 3
  Symbol <- MCSymbol
  Workers = {w1, w2}
  Builders = {w2}
  PageSize = 1
  MaxAttempts = 2
  Users = {k1}
  MaxAsks = 2
  Faults = {"engine", "path", "mark", "clear", "lookup", "build", "enqueue",
            "clean", "stall", "crash", "halt"}
  Mark <- MCMark
  MaxEdits = 1
  MaxFaults = 1
INVARIANTS
  LinksFollowGraph
  DeletedIsForgotten
PROPERTIES
  EveryRefreshEnds
CHECK_DEADLOCK FALSE
