SPECIFICATION Spec
CONSTANTS
  c1 = c1  c2 = c2  lib = lib  src = src  v1 = v1  v2 = v2  w1 = w1
  Checkouts = {c1, c2}
  Kinds = {"compile", "script"}
  Watches = {"package", "directory"}
  Inputs = {lib, src}
  Explicit = {src}
  Produced = {lib}
  Units = {lib}
  Large = {lib, src}
  Inodes = {0, 1}
  Nested = {}
  Contents = {v1, v2}
  Leaking = {v2}
  Warning = {v2}
  Incremental = {c1, c2}
  Widths = {w1}
  Outputs = {"rlib", "d"}
  Slack = 1
  Racy = 1
  Window = TRUE
  Transient = FALSE
  Reuse = FALSE
  Epoch = 2
  MaxTime = 3
  MaxJobs = 2
  MaxEdits = 1
  MaxFaults = 0
  Absent = Absent
  None = None
  AnyWidth = AnyWidth
INVARIANT CandidateSound
SYMMETRY Symmetric
CHECK_DEADLOCK FALSE
