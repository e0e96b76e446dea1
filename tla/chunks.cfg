SPECIFICATION Spec
CONSTANTS
  u1 = u1
  u2 = u2
  w1 = w1
  r1 = r1
  Clients = {u1, u2, w1}
  Uploaders = {u1, u2}
  Retirers = {w1}
  Readers = {}
  Versioned = TRUE
  MaxResends = 0
  ChunkBytes = 1
  PageEntries = 2
  Requests <- MCFewRequests
SYMMETRY MCSymmetry
CHECK_DEADLOCK FALSE
INVARIANTS
  RootsAreWhole
  NothingIsUntracked
  MarkerFences
  RetriesConverge
PROPERTIES
  DeletesOnlyTheVerified
