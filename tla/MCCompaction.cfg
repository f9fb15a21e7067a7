SPECIFICATION Spec
CONSTANTS
  m1 = m1
  m2 = m2
  m3 = m3
  p1 = p1
  p2 = p2
  None = None
  Memories = {m1, m2, m3}
  Processes = {p1, p2}
  MaxText = 1
  MaxCandidates = 2
  MaxWrites = 2
  MinCluster = 2
  MaxNudges = 1
SYMMETRY Alike
INVARIANTS
  TypeOK
  ReviewsAreFinal
  SourcesHaveTheirSummary
  NothingHiddenUnread
CHECK_DEADLOCK FALSE
