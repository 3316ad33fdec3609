SPECIFICATION FairSpec
CONSTANTS
  None = None
  w1 = w1  w2 = w2  b1 = b1  b2 = b2
  Blobs = {b1, b2}
  Wrappers = {w1, w2}
  Needs <- SharedNeeds
  MayPass = {w2}
  Fetches = 2
  SpoolLimit = 1
  Uploads = 1
  MaxEvictions = 1
INVARIANTS RelayTypeOK RefusedOnlyIfFailed ReleasedAfterRecord NothingDropped
PROPERTY NobodyWaits
CHECK_DEADLOCK FALSE
