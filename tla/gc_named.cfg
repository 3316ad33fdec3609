SPECIFICATION Spec
CONSTANTS
  None = None
  k1 = k1  a1 = a1  a2 = a2  n1 = n1  b1 = b1  b2 = b2
  p1 = p1  p2 = p2
  Keys = {k1}
  Actions = {a1, a2}
  Names = {n1}
  Archives = {}
  Blobs = {b1, b2}
  Publishers = {p1, p2}
  Requests <- AllRequests
  Budgets = {0}
  MaxCandidates = 1
  Grace = 1
  Slack = 0
  Batch = 2
  NoBudget = NoBudget
  MaxTime = 1
  MaxPublications = 2
  MaxUses = 1
  MaxCollections = 1
  MaxFaults = 0
INVARIANTS StoreTypeOK NoDanglingCandidate
PROPERTIES EvictsOnlyUnused PublishedOnce
SYMMETRY Symmetric
CHECK_DEADLOCK FALSE
