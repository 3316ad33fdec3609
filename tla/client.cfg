SPECIFICATION ClientSpec
CONSTANTS
  c1 = c1  c2 = c2  lib = lib  src = src  v1 = v1  v2 = v2  w1 = w1
  Checkouts = {c1, c2}
  Kinds = {"compile", "script"}
  Watches = {"package", "directory"}
  Inputs = {lib, src}
  Explicit = {src}
  Produced = {lib}
  Units = {lib}
  Large = {lib, src}
  Inodes = {0, 1}
  Nested = {}
  Contents = {v1, v2}
  Leaking = {v2}
  Warning = {v2}
  Incremental = {c1, c2}
  Widths = {w1}
  Outputs = {"rlib", "d"}
  Slack = 1
  Racy = 1
  Window = FALSE
  Transient = FALSE
  Reuse = FALSE
  Epoch = 2
  MaxTime = 3
  MaxJobs = 2
  MaxEdits = 1
  MaxFaults = 1
  Absent = Absent
  None = None
  AnyWidth = AnyWidth
  s1 = s1  s2 = s2  x1 = x1  x2 = x2
  Clients = {c1, c2}
  Modes = {"local", "remote"}
  Sources = {s1, s2}
  Versions = {x1, x2}
  Roots <- PathsDeclared
  Writes <- FilesWritten
  MaxChanges = 1
  MaxFailures = 2
  Nobody = Nobody
  Nothing = Nothing
  Unset = Unset
  Missing = Missing
  FileNames <- SoOrA
  DriverDirs <- SystemDirs
  RuntimeObjects = {"crt1.o"}
  LinkerNames <- LdOr
  DriverPrograms <- LibexecDirs
  SysrootTools = {"rust-lld"}
  Refers <- ScriptOf
  Grace = 5
  NoBudget = 99
  MaxUnits = 3
  MaxUse = 1
  r1 = r1  r2 = r2
  Scripts = {r1, r2}
  MaxBuilds = 3
  MaxMishaps = 3
  NoFile = NoFile
  Writers = {c1, c2}
  Limit = 2
  MaxEvents = 7
  MaxCuts = 2
  NoLog = NoLog
  Free = Free
INVARIANTS ClientTypeOK CandidateSound HitSound
INVARIANTS RecordOfKey AllOrNothing NothingLost
INVARIANTS PlanIsExact PathsTravel
INVARIANTS KeySound KeyShared LinkSound AffectedExact RunsLatest
PROPERTIES RestoresOwnKey ReadsLatest
SYMMETRY Symmetric
CHECK_DEADLOCK FALSE
