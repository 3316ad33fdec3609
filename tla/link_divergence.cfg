SPECIFICATION CallSpec
CONSTANTS
  Unset = Unset
  Missing = Missing
  FileNames <- SoOrA
  DriverDirs <- SystemDirs
  RuntimeObjects = {"crt1.o"}
  LinkerNames <- LdOr
  DriverPrograms <- LibexecDirs
  SysrootTools = {"rust-lld"}
  Refers <- ScriptOf
  Grace = 5
  NoBudget = 99
  MaxUnits = 3
  MaxUse = 1
INVARIANT NewLibraryMisses
CHECK_DEADLOCK FALSE
