SPECIFICATION Spec
CONSTANTS
  None = None
  k1 = k1  a1 = a1  a2 = a2  n1 = n1  b1 = b1  b2 = b2
  p1 = p1  p2 = p2
  Keys = {k1}
  Actions = {a1, a2}
  Names = {}
  Archives = {}
  Blobs = {b1, b2}
  Publishers = {p1, p2}
  Requests <- CandidateRequests
  Budgets = {0}
  MaxCandidates = 2
  Grace = 1
  Slack = 0
  Batch = 2
  NoBudget = NoBudget
  MaxTime = 1
  MaxPublications = 2
  MaxUses = 0
  MaxCollections = 2
  MaxFaults = 2
INVARIANT NoDanglingCandidate
SYMMETRY Symmetric
CHECK_DEADLOCK FALSE
