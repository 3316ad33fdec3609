------------------------------ MODULE CompileKey ------------------------------
(***************************************************************************)
(* Which compiles are cached and what their static key covers:             *)
(* Invocation::analyze and build_identity of crates/bellows-cli/src/       *)
(* main.rs, against what rustc can read (RustcSees, external).             *)
(*                                                                         *)
(* An invocation is a record of what the wrapper finds when rustc is run:  *)
(*   os         what both run on                                           *)
(*   rustc      [version, host], what `rustc -vV` prints; no host is Unset   *)
(*   driver     "rustc", or clippy-driver, which is given rustc's path     *)
(*   flags      arguments that are given or not, see Refused               *)
(*   kind       "library" or "linked"                                      *)
(*   target, linker, flavor   the values of these options, or Unset        *)
(*   paths      path-valued arguments, as [root, rest]                     *)
(*   incremental, width       scratch and terminal                         *)
(*   source     the content of the explicit inputs                         *)
(*   libraries  whether it bundles a native library                        *)
(*   native     directory -> the library in it, or Unset                   *)
(*   env        variable -> value, or Unset; a path is [root, rest]        *)
(*   programs   name -> the content of that program on PATH, or Unset      *)
(*   studio     whether a Windows machine has Visual Studio                *)
(*   macros     the variables its procedural macros read without a record, *)
(*              PATH if they run a program                                 *)
(*   checkout   its root                                                   *)
(*   cpu        the host's                                                 *)
(* What dep-info reports is compared when a candidate is looked up.        *)
(***************************************************************************)
EXTENDS Integers, Sequences, FiniteSets

CONSTANTS Unset

-----------------------------------------------------------------------------
(* Invocation::analyze, native_inputs, unmodeled_unstable_flag and           *)
(* has_unmodeled_codegen_inputs: what is not cached.                         *)
UnmodeledFlags == {"-Zunmodeled", "profile-use", "llvm-plugins"}

RefusedFlags == UnmodeledFlags \cup
  {"-vV", "--sysroot", "target.json", "target-cpu=native", "save-temps", "staticlib", "-Lall",
   "-lunknown", "extern without path", "--emit=asm", "-o", "no extra-filename", "@shell:"}

Refused(inv) ==
  \/ inv.flags \cap RefusedFlags # {}
  \/ inv.kind = "linked" /\ inv.driver # "rustc"
  \/ /\ inv.kind = "library" /\ inv.libraries
     /\ \A d \in DOMAIN inv.native : inv.native[d] = Unset

(* A path under the checkout is keyed by a token, see PathNormalizer. *)
NormalPath(inv, p) == IF p.root = inv.checkout THEN [p EXCEPT !.root = "$CHECKOUT"] ELSE p

(* normalized_compiler_arguments: without -C incremental and                 *)
(* --diagnostic-width.                                                       *)
Arguments(inv) ==
  [driver |-> inv.driver, flags |-> inv.flags, target |-> inv.target,
   linker |-> inv.linker, flavor |-> inv.flavor, libraries |-> inv.libraries,
   paths |-> [i \in DOMAIN inv.paths |-> NormalPath(inv, inv.paths[i])]]

-----------------------------------------------------------------------------
(* is_relevant_environment_name, on representatives of its lists. *)
Exact    == {"HOME", "LANG", "PATH", "LIB", "LD_LIBRARY_PATH", "OUT_DIR", "VCINSTALLDIR"}
Prefixed == {"CARGO_PKG_NAME", "CARGO_TERM_COLOR", "RUSTC_BOOTSTRAP", "RUST_LOG"}
Excluded == {"CARGO_TERM_COLOR", "RUST_LOG", "BELLOWS_SERVER"}
Shell    == {"HOME", "LANG"}

RelevantName(n) == n \notin Excluded /\ n \in Exact \cup Prefixed

Windows(inv) == inv.os = "windows"

(* environment_spelling: names that differ in case are one name on Windows. *)
Spelling(inv, n) == IF Windows(inv) /\ n = "Lib" THEN "LIB" ELSE n

(* With emcc, which is on PATH. *)
AnyWasm == {"wasm", "emscripten"}

(* The targets linked by the sysroot's rust-lld. *)
SelfLinked == {"wasm"}

(* path_use *)
PathUse(inv) ==
  LET triple == IF inv.target # Unset THEN inv.target ELSE inv.rustc.host IN
  CASE inv.kind # "linked" -> "none"
    [] inv.kind = "linked" /\ inv.linker # Unset -> "whole"
    [] inv.kind = "linked" /\ inv.linker = Unset /\ inv.flavor # Unset ->
         IF inv.flavor = "lld-link" THEN "lld-link" ELSE "whole"
    [] OTHER ->
         CASE triple = Unset -> "whole"
           [] triple \in SelfLinked -> "none"
           [] triple \in {"msvc", "windows"} ->
                IF inv.env["VCINSTALLDIR"] # Unset \/ inv.rustc.host # "windows"
                THEN "link.exe" ELSE "none"
           [] OTHER -> "whole"

(* With the variables of the shell. *)
EnvironmentOfShell(inv) ==
  [n \in {m \in DOMAIN inv.env : inv.env[m] # Unset /\ RelevantName(m)} |-> inv.env[n]]

(* without_shell: relevant, and about the compile rather than the shell it   *)
(* was started from; the loader of Windows has no search path of its own.    *)
KeyedName(inv, n) ==
  /\ RelevantName(n) /\ n \notin Shell
  /\ n = "LD_LIBRARY_PATH" => ~Windows(inv)
  /\ n = "PATH" => PathUse(inv) = "whole"

(* compile_environment *)
Environment(inv) ==
  LET kept == {n \in DOMAIN inv.env : inv.env[n] # Unset /\ KeyedName(inv, Spelling(inv, n))}
  IN [s \in {Spelling(inv, n) : n \in kept} |->
        LET n == CHOOSE m \in kept : Spelling(inv, m) = s IN
        NormalPath(inv, inv.env[n])]

LinkerOnPath(inv) ==
  IF PathUse(inv) \in {"lld-link", "link.exe"} THEN inv.programs[PathUse(inv)] ELSE Unset

(* resolve_static_libraries: in every -L native directory. *)
StaticLibraries(inv) ==
  IF inv.kind = "library" /\ inv.libraries
  THEN {<<d, inv.native[d]>> : d \in {e \in DOMAIN inv.native : inv.native[e] # Unset}}
  ELSE {}

(* build_identity *)
StaticKey(inv) ==
  [compiler |-> inv.rustc, kind |-> inv.kind,
   arguments |-> Arguments(inv), environment |-> Environment(inv),
   linker |-> LinkerOnPath(inv), source |-> inv.source, static |-> StaticLibraries(inv)]

-----------------------------------------------------------------------------
(* External: the program rustc links with.  An explicit one and a C driver   *)
(* find their tools anywhere on PATH; link.exe is the one of Visual Studio   *)
(* on Windows, if its environment is not loaded and it is installed.         *)
LinkerUsed(inv) ==
  LET triple == IF inv.target # Unset THEN inv.target ELSE inv.os IN
  CASE inv.kind = "library" -> Unset
    [] inv.kind = "linked" /\ inv.linker = Unset /\ inv.flavor = "lld-link" ->
         inv.programs["lld-link"]
    [] inv.kind = "linked" /\ inv.linker = Unset /\ inv.flavor = Unset /\ triple = "wasm" ->
         "rust-lld"
    [] /\ inv.kind = "linked" /\ inv.linker = Unset /\ inv.flavor = Unset
       /\ triple \in {"msvc", "windows"} ->
         IF Windows(inv) /\ inv.env["VCINSTALLDIR"] = Unset /\ inv.studio
         THEN "Visual Studio" ELSE inv.programs["link.exe"]
    [] OTHER -> inv.env["PATH"]

(* External: what rustc makes its outputs of, without the paths of the       *)
(* checkout, which are remapped.                                             *)
RustcSees(inv) ==
  LET found == {d \in DOMAIN inv.native : inv.native[d] # Unset}
      libs  == {n \in {"LIB", "Lib"} : Spelling(inv, n) = "LIB" /\ inv.env[n] # Unset}
  IN [rustc |-> inv.rustc, driver |-> inv.driver, kind |-> inv.kind, flags |-> inv.flags,
      target |-> inv.target, source |-> inv.source, linker |-> LinkerUsed(inv),
      cpu |-> IF "target-cpu=native" \in inv.flags THEN inv.cpu ELSE Unset,
      bootstrap |-> inv.env["RUSTC_BOOTSTRAP"],
      lib |-> {inv.env[n] : n \in libs},
      loader |-> IF Windows(inv) THEN Unset ELSE inv.env["LD_LIBRARY_PATH"],
      macros |-> [n \in inv.macros |->
                    IF inv.env[n] = Unset THEN Unset ELSE NormalPath(inv, inv.env[n])],
      bundled |-> IF inv.kind = "library" /\ inv.libraries
                  THEN inv.native[CHOOSE d \in found : \A e \in found : d <= e]
                  ELSE Unset]

(* What the comments of compile_environment and path_use_with except from    *)
(* the key: what a procedural macro reads of the shell, and the link.exe a   *)
(* Windows machine without Visual Studio finds on PATH.                      *)
Excepted(inv) ==
  {part \in {"macros"} : \E n \in inv.macros : ~KeyedName(inv, Spelling(inv, n))} \cup
  {part \in {"linker"} : /\ PathUse(inv) = "none" /\ Windows(inv) /\ ~inv.studio
                         /\ inv.env["VCINSTALLDIR"] = Unset}
=============================================================================
