SPECIFICATION FairSpec
CONSTANTS
  None = None
  r1 = r1  r2 = r2  r3 = r3  v1 = v1  v2 = v2  h1 = h1  h2 = h2
  Runners = {r1, r2, r3}
  Wants <- ThreeWants
  Host <- ThreeHosts
  ReadOnly = {r3}
  Ttl = 1
  MaxWait = 1
  MaxFaults = 1
INVARIANTS OwnerHolds NothingSkipped
PROPERTY Finishes
CHECK_DEADLOCK FALSE
