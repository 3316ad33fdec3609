------------------------------ MODULE LinkInputs ------------------------------
(***************************************************************************)
(* The files a final link reads, from the linker command rustc prints:     *)
(* link_inputs of crates/bellows-cli/src/link.rs, what is recorded of them *)
(* for a candidate, and how a later lookup judges them.                    *)
(*                                                                         *)
(* A file system maps <<directory, name>> to a content, or Missing.  A     *)
(* command is [program, path, files, search, env, libraries, driver,       *)
(* reports, tools, fuse, outputs]: the linker and the PATH it is found on, *)
(* the files it names, its search directories in order and those of        *)
(* LIBRARY_PATH or LIB, the libraries it asks for, whether it is a C       *)
(* driver, which adds directories, start files and tools of its own, and   *)
(* then whether it reports those directories, the -B directories it is     *)
(* given and its -fuse-ld, or Missing; and what it writes.                 *)
(***************************************************************************)
EXTENDS Sequences, SequencesExt, FiniteSets

CONSTANTS
  FileNames(_),   \* LibraryRequest::file_names: in the order of the linker
  DriverDirs,     \* driver_search_dirs: reported by the C driver
  RuntimeObjects, \* C_RUNTIME_OBJECTS
  LinkerNames(_), \* a -fuse-ld -> the names of the linker it selects, in order
  DriverPrograms, \* the directories of the driver's own programs
  SysrootTools,   \* programs rustc's sysroot holds
  Refers(_),      \* the content of an ld script -> the files it names
  Missing

IsFile(fs, f) == f \in DOMAIN fs /\ fs[f] # Missing

(* The first of a sequence of places that has the file, as a sequence. *)
FirstFile(fs, places) ==
  LET Here(f) == IsFile(fs, f)
      i == SelectInSeq(places, Here)
  IN IF i = 0 THEN <<>> ELSE <<places[i]>>

(* resolve_program, then sysroot_tool. *)
ResolveProgram(fs, program, path) ==
  LET onPath == FirstFile(fs, [i \in DOMAIN path |-> <<path[i], program>>]) IN
  IF onPath # <<>> \/ program \notin SysrootTools THEN onPath ELSE <<<<"sysroot", program>>>>

SearchDirs(c) == c.search \o (IF c.driver THEN DriverDirs ELSE <<>>) \o c.env

(* Only the file that is found first. *)
FirstCandidate(fs, c, l) ==
  ToSet(FirstFile(fs, FlattenSeq([i \in DOMAIN SearchDirs(c) |->
          [j \in DOMAIN FileNames(l) |-> <<SearchDirs(c)[i], FileNames(l)[j]>>]])))

(* Every file a library could be, in any directory. *)
Candidates(fs, c, l) ==
  {<<d, n>> \in ToSet(SearchDirs(c)) \X ToSet(FileNames(l)) : IsFile(fs, <<d, n>>)}

(* linker_tools: collect2, if the driver knows one, and the linker it runs,  *)
(* from a -B directory, else on PATH, where an unselected one is the one the *)
(* driver names.                                                             *)
Printed(fs, c, name) ==
  FirstFile(fs, [i \in DOMAIN DriverPrograms |-> <<DriverPrograms[i], name>>]
                \o [i \in DOMAIN c.path |-> <<c.path[i], name>>])

Linker(fs, c) ==
  LET names == LinkerNames(c.fuse)
      given == FlattenSeq([i \in DOMAIN c.tools |->
                 [j \in DOMAIN names |-> <<c.tools[i], names[j]>>]])
      onPath == FlattenSeq([j \in DOMAIN names |->
                 [i \in DOMAIN c.path |-> <<c.path[i], names[j]>>]])
      found == FirstFile(fs, given)
  IN CASE found # <<>>     -> found
       [] c.fuse = Missing -> Printed(fs, c, names[1])
       [] OTHER            -> FirstFile(fs, onPath)

Tools(fs, c) == Printed(fs, c, "collect2") \o Linker(fs, c)

(* A driver that does not report its directories, or without a linker of its *)
(* own, cannot be followed.                                                  *)
Refuses(fs, c) ==
  \/ ResolveProgram(fs, c.program, c.path) = <<>>
  \/ c.driver /\ (~c.reports \/ Linker(fs, c) = <<>>)

(* link_inputs, of a command it does not refuse; ld scripts are followed one *)
(* level, and the sysroot is left to the compiler's identity.                *)
LinkFiles(fs, c) ==
  LET driven == IF c.driver
                THEN ToSet(Tools(fs, c)) \cup
                     {<<d, o>> \in ToSet(DriverDirs) \X RuntimeObjects : IsFile(fs, <<d, o>>)}
                ELSE {}
      named  == {f \in c.files : IsFile(fs, f)}
      found  == UNION {Candidates(fs, c, l) : l \in c.libraries}
      all    == ToSet(ResolveProgram(fs, c.program, c.path)) \cup driven \cup named \cup found
      script == {f \in UNION {Refers(fs[g]) : g \in all \cap DOMAIN fs} : IsFile(fs, f)}
  IN {f \in (all \cup script) \ c.outputs : f[1] # "sysroot"}

(* What capture_outputs records, and validate_candidate compares. *)
LinkRecord(fs, c) == [f \in LinkFiles(fs, c) |-> fs[f]]

StillFits(record, fs) == \A f \in DOMAIN record : IsFile(fs, f) /\ fs[f] = record[f]

-----------------------------------------------------------------------------
(* External: what the linker reads.  Each library is the first file found,   *)
(* directory by directory, those of the driver last; the driver runs the     *)
(* tools it names.                                                           *)
LinkerReads(fs, c) ==
  LET dirs == c.search \o c.env \o (IF c.driver THEN DriverDirs ELSE <<>>)
      places(l) == FlattenSeq([i \in DOMAIN dirs |->
                     [j \in DOMAIN FileNames(l) |-> <<dirs[i], FileNames(l)[j]>>]])
      object(o) == [i \in DOMAIN DriverDirs |-> <<DriverDirs[i], o>>]
      all == ToSet(ResolveProgram(fs, c.program, c.path)) \cup c.files
             \cup UNION {ToSet(FirstFile(fs, places(l))) : l \in c.libraries}
             \cup (IF c.driver
                   THEN ToSet(Tools(fs, c)) \cup
                        UNION {ToSet(FirstFile(fs, object(o))) : o \in RuntimeObjects}
                   ELSE {})
      read == all \cup UNION {Refers(fs[g]) : g \in all \cap DOMAIN fs}
  IN [f \in {g \in read : IsFile(fs, g)} |-> fs[f]]
=============================================================================
