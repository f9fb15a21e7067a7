SPECIFICATION FairSpec
CONSTANTS
  a = a
  A = A
  b = b
  aa = aa
  m1 = m1
  m2 = m2
  m3 = m3
  None = None
  Requests = {1, 2, 3}
  Memories = {m1, m2, m3}
  Texts = {a, A, b, aa}
  Long = {a, A, aa}
  Sanitized <- MCSanitized
  Fold <- MCFold
  MaxLength = 2
  MaxFaults = 1
INVARIANTS
  ChunksFollowContent
  StoresKeepTheirWord
  MirrorFollowsDoc
PROPERTIES
  ChunkedInTheEnd
CHECK_DEADLOCK FALSE
