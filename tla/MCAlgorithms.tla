---------------------------- MODULE MCAlgorithms -----------------------------
(***************************************************************************)
(* The pure algorithms, each on all calls of a small domain and against    *)
(* what its answer ought to be: Plan::new (GcPlan), PathNormalizer, the    *)
(* static key (CompileKey), the inputs of a link (LinkInputs) and the      *)
(* impact of a change (Impact).                                            *)
(***************************************************************************)
EXTENDS GcPlan, PathNormalizer, CompileKey, LinkInputs, Impact, Relation

CONSTANTS
  MaxUnits,   \* units in a snapshot of the store
  MaxUse      \* last uses are 0..MaxUse

VARIABLES
  call,       \* <<"plan" | "path" | "key" | "link" | "impact", arguments>>
  answer      \* its result, empty before the call

callVars == <<call, answer>>

NoAnswer == <<>>
Answered(algorithm) == call[1] = algorithm /\ answer # NoAnswer

-----------------------------------------------------------------------------
(* Plan::new: a library, executables and a declared action that share a      *)
(* one-byte blob, long unreferenced when nothing references it, and a        *)
(* two-byte blob that was just uploaded, in every order of use.              *)
Now == 10

Stored == "old" :> [bytes |-> 1, modified |-> 0] @@
          "new" :> [bytes |-> 2, modified |-> Now]

UnitsOf(candidate, protocols, kind) ==
  [candidate : {candidate}, protocol : protocols, kind : {kind},
   last : 0 .. MaxUse, blobs : SUBSET DOMAIN Stored]

Others      == UnitsOf(TRUE, {1}, "library") \cup UnitsOf(FALSE, {1}, "declared")
Executables == UnitsOf(TRUE, {1, 2}, Executable)

(* One executable at least, and one unit that is none. *)
Snapshots ==
  {units \in [1 .. MaxUnits -> Others \cup Executables] :
     units[1] \in Others /\ units[2] \in Executables}

GcOptions == [max_bytes : {0, 2}, min_protocol : {0, 2},
              max_executable_bytes : {NoBudget, 1}]

PlanCall(units, options) ==
  call = <<"plan", [snapshot |-> [units |-> units, blobs |-> Stored], options |-> options]>>

(* The first n units of the order of eviction. *)
First(n) == {EvictionOrder(call[2].snapshot, call[2].options)[i] : i \in 1 .. n}

(* What is left on disk once the units of E are gone. *)
Left(E) ==
  LET snapshot == call[2].snapshot IN
  {b \in DOMAIN Stored \ Unreferenced(snapshot, Now) :
     Referrers(snapshot, b) = {} \/ ~ Referrers(snapshot, b) \subseteq E}

(* What is left that only executables reference. *)
LeftForExecutables(E) == Left(E) \cap ExecutableOnly(call[2].snapshot)

ExecutablesOf(E) == {i \in E : call[2].snapshot.units[i].kind = Executable}

(* The shortest prefix of the order with property P, or all of it. *)
Shortest(P(_)) ==
  LET Ok == {n \in 0 .. MaxUnits : P(n)} IN
  IF Ok = {} THEN MaxUnits ELSE Min(Ok)

(***************************************************************************)
(* Plan::new against a definition by the bytes that stay (gc.rs:328-419).  *)
(* It evicts exactly the executables needed for their budget and then      *)
(* exactly the least recently used units needed for the budget of the      *)
(* store, with every obsolete candidate; bytes_after counts exactly the    *)
(* blobs that stay, whatever the units share; a blob is planned for        *)
(* deletion exactly when nothing that stays references it, and attributed  *)
(* to one evicted unit that referenced it, so that the report adds up.     *)
(***************************************************************************)
PlanIsExact ==
  Answered("plan") =>
    LET snapshot == call[2].snapshot
        options  == call[2].options
        fits(n) == Bytes(snapshot, LeftForExecutables(ExecutablesOf(First(n))))
                     <= options.max_executable_bytes
        own == IF options.max_executable_bytes = NoBudget THEN {}
               ELSE ExecutablesOf(First(Shortest(fits)))
        enough(n) ==
          /\ Bytes(snapshot, Left(own \cup First(n))) <= options.max_bytes
          /\ \A i \in DOMAIN snapshot.units :
               Obsolete(snapshot.units[i], options) => i \in First(n)
    IN /\ answer.evicted = own \cup First(Shortest(enough))
       /\ answer.bytes_after = Bytes(snapshot, Left(answer.evicted))
       /\ {f[1] : f \in answer.freed} \cup answer.unreferenced
            = DOMAIN Stored \ Left(answer.evicted)
       /\ \A f, g \in answer.freed : f[1] = g[1] => f = g
       /\ \A f \in answer.freed :
            f[2] \in answer.evicted /\ f[1] \in snapshot.units[f[2]].blobs

-----------------------------------------------------------------------------
(* Paths of two compiles with their own layouts: a workspace in the home     *)
(* directory or elsewhere, as a subdirectory of its checkout or all of it,   *)
(* with the target directory inside or outside it, and a worktree inside     *)
(* another checkout.                                                         *)
Layout(w, c, t, h) ==
  [workspace |-> w, checkout |-> c, target |-> t, profile |-> Append(t, "/debug"),
   cargo |-> Append(h, "/cargo"), rustup |-> Append(h, "/rustup"), home |-> h]

Layouts ==
  LET home == <<"/h">>
      repo == <<"/h", "/w">>
      tree == <<"/h", "/w", "/trees", "/x">>
      far  == <<"/w">>
      target == <<"/t">>
  IN {Layout(repo, repo, Append(repo, "/target"), home),
      Layout(Append(repo, "/sub"), repo, Append(repo, "/target"), home),
      Layout(tree, tree, target, home),
      Layout(far, far, Append(far, "/target"), <<"/root">>),
      Layout(Append(far, "/sub"), far, target, home)}

Directories == {"workspace", "checkout", "target", "profile", "cargo", "rustup", "home"}
Rests       == {<<>>, <<"/src">>, <<"/src", "/lib">>}

PathCall(a, b, d, rest) ==
  call = <<"path", [a |-> Bases(a), b |-> Bases(b), from |-> a, to |-> b, dir |-> d,
                    rest |-> rest]>>

(* A file lies in the innermost of the directories that contain it. *)
Innermost(layout, path) ==
  LET Has == {d \in Directories : layout[d] # <<>> /\ IsPrefix(layout[d], path)} IN
  {d \in Has : \A e \in Has : Len(layout[e]) <= Len(layout[d])}

(***************************************************************************)
(* A path recorded by one compile names the same file for another,         *)
(* wherever its roots are, and has one normal form for both; and a path    *)
(* under none of a compile's own roots is seen to be outside them, so that *)
(* another checkout's file is refused (PathNormalizer::normalize and       *)
(* localize, root_bases, outside_checkout_roots).                          *)
(***************************************************************************)
PathsTravel ==
  Answered("path") =>
    LET q == call[2]
        here  == q.from[q.dir] \o q.rest
        there == q.to[q.dir] \o q.rest
    IN /\ q.dir \in Innermost(q.from, here) /\ Innermost(q.from, here) = Innermost(q.to, there) =>
            answer.normal = Normalize(q.b, there) /\ answer.local = there
       /\ Innermost(q.from, there) \in {{}, {"home"}} => OutsideRoots(Normalize(q.a, there))

-----------------------------------------------------------------------------
(* Two invocations of rustc: one of each shape, and one that differs from it *)
(* in the checkout and the shell or in what rustc reads.                     *)
Value(v) == [root |-> "/elsewhere", rest |-> v]

AllShapes ==
  [os : {"linux", "windows"}, rustc : [version : {1}, host : {"linux", "windows", Unset}],
   driver : {"rustc"}, studio : BOOLEAN, macros : {{"CARGO_PKG_NAME", "OUT_DIR"}, {"HOME"}},
   flags : {{}, {"target-cpu=native"}}, kind : {"library", "linked"},
   target : {Unset, "wasm", "emscripten", "msvc"},
   linker : {Unset, "mold"}, flavor : {Unset, "lld-link", "gnu"},
   paths : {<<[root |-> "/a", rest |-> "out"]>>}, incremental : {FALSE}, width : {80},
   source : {1}, libraries : {TRUE}, native : {<<Unset, "z1">>},
   env : [{"PATH"} -> {Value("p1")}], programs : {[p \in {"link.exe", "lld-link"} |-> 1]},
   checkout : {"/a"}, cpu : {1}]

(* Those that make a difference to what is tried. *)
Shapes ==
  {s \in AllShapes :
     /\ s.rustc.host \in {s.os, Unset}
     /\ s.flags # {} => s.kind = "library" /\ s.target = Unset
     /\ s.kind = "library" => s.linker = Unset /\ s.flavor = Unset
     /\ s.linker # Unset => s.flavor # "gnu"
     /\ ~s.studio => s.os = "windows" /\ s.target \in {Unset, "msvc"}}

Names == {"PATH", "HOME", "LANG", "LIB", "Lib", "LD_LIBRARY_PATH", "OUT_DIR", "VCINSTALLDIR",
          "CARGO_PKG_NAME", "CARGO_TERM_COLOR", "RUSTC_BOOTSTRAP", "RUST_LOG", "BELLOWS_SERVER"}

(* The environment of a shape, with or without Visual Studio's. *)
Shaped(shape, vc) ==
  [shape EXCEPT !.env = [n \in Names |->
     CASE n = "PATH" -> Value("p1")
       [] n = "OUT_DIR" -> [root |-> "/a", rest |-> "build"]
       [] n = "VCINSTALLDIR" /\ vc -> Value("vc")
       [] n = "CARGO_PKG_NAME" -> Value("name")
       [] OTHER -> Unset]]

(* In another worktree, another shell, another terminal. *)
Elsewhere(inv) ==
  [inv EXCEPT !.checkout = "/b", !.paths[1].root = "/b", !.env["OUT_DIR"].root = "/b",
     !.incremental = TRUE, !.width = 120, !.env["HOME"] = Value("h"),
     !.env["LANG"] = Value("C"), !.env["CARGO_TERM_COLOR"] = Value("always"),
     !.env["RUST_LOG"] = Value("debug"), !.env["BELLOWS_SERVER"] = Value("s")]

(* What may differ beyond that, one by one. *)
Differently(inv, what) ==
  CASE what = "path"      -> [inv EXCEPT !.env["PATH"] = Value("p2")]
    [] what = "programs"  -> [inv EXCEPT !.env["PATH"] = Value("p2"),
                                         !.programs = [p \in DOMAIN @ |-> 2]]
    [] what = "lib"       -> [inv EXCEPT !.env["LIB"] = Value("l")]
    [] what = "Lib"       -> [inv EXCEPT !.env["Lib"] = Value("l")]
    [] what = "loader"    -> [inv EXCEPT !.env["LD_LIBRARY_PATH"] = Value("l")]
    [] what = "package"   -> [inv EXCEPT !.env["CARGO_PKG_NAME"] = Value("other")]
    [] what = "bootstrap" -> [inv EXCEPT !.env["RUSTC_BOOTSTRAP"] = Value("1")]
    [] what = "source"    -> [inv EXCEPT !.source = 2]
    [] what = "shadow"    -> [inv EXCEPT !.native[1] = "z2"]
    [] what = "cpu"       -> [inv EXCEPT !.cpu = 2]
    [] what = "clippy"    -> [inv EXCEPT !.driver = "clippy-driver"]
    [] OTHER              -> inv

Differences == {"nothing", "path", "programs", "lib", "Lib", "loader", "package", "bootstrap",
                "source", "shadow", "cpu", "clippy"}

(* One or two of them, in any order. *)
KeyCall(shape, vc, what) ==
  \E inv \in {Shaped(shape, vc)}, a, b \in what :
    /\ what = {a, b}
    /\ call = <<"key", [one |-> inv, what |-> what,
                        other |-> Differently(Differently(Elsewhere(inv), a), b)]>>

(***************************************************************************)
(* Two compiles with one static key are the same to rustc: whatever may    *)
(* change its outputs is in the key, or is not cached, or is compared with *)
(* the candidate, but for the two exceptions that the code's own comments  *)
(* make (build_identity, Invocation::analyze, compile_environment).        *)
(***************************************************************************)
KeySound ==
  Answered("key") =>
    LET q == call[2] IN
    ~Refused(q.one) /\ ~Refused(q.other) /\ answer.one = answer.other =>
      \A part \in DOMAIN RustcSees(q.one) \ Excepted(q.one) :
        RustcSees(q.one)[part] = RustcSees(q.other)[part]

(***************************************************************************)
(* A worktree, a shell, a terminal or an incremental session of its own    *)
(* does not keep a compile from another's results, nor does a PATH where   *)
(* only a linker is looked up on it, if the host is known, nor on Windows  *)
(* a loader's search path (compile_environment,                            *)
(* normalized_compiler_arguments).                                         *)
(***************************************************************************)
KeyShared ==
  Answered("key") =>
    LET q == call[2] IN
    \/ q.what = {"nothing"}
    \/ /\ q.what \subseteq {"nothing", "path"} /\ q.one.rustc.host # Unset
       /\ LinkerUsed(q.one) = LinkerUsed(q.other)
    \/ q.what \subseteq {"nothing", "loader"} /\ Windows(q.one)
    => answer.one = answer.other

-----------------------------------------------------------------------------
(* Links of one library that three directories could supply, by a linker of  *)
(* the sysroot or a C driver, and of none, by a driver that is told its      *)
(* linker or fails; with the file system before and after.                   *)
LinkCommands ==
  [program : {"cc", "rust-lld"}, path : {<<"bin">>}, files : {{<<"obj", "main.o">>}},
   search : {<<"d1">>}, env : {<<>>, <<"d2">>}, libraries : {{"z"}, {}},
   driver : BOOLEAN, reports : BOOLEAN, tools : {<<>>, <<"tools">>}, fuse : {Missing, "lld"},
   outputs : {{<<"obj", "app">>}}]

Simple(c) == c.reports /\ c.tools = <<>> /\ c.fuse = Missing

Commands == {c \in LinkCommands : c.driver = (c.program = "cc") /\ (c.driver \/ Simple(c))}

Fixed == <<"bin", "cc">> :> 1 @@ <<"bin", "ld">> :> 1 @@ <<"bin", "ld.lld">> :> 1
         @@ <<"obj", "main.o">> :> 1 @@ <<"obj", "app">> :> 1

FileSystems ==
  LET changes == {<<"d1", "libz.so">>, <<"d1", "libz.a">>}
      comes   == {<<"d2", "libz.so">>, <<"sys", "libz.a">>, <<"sys", "crt1.o">>}
  IN {Fixed @@ one @@ two : one \in [changes -> {1, 2, Missing}],
                            two \in [comes -> {1, Missing}]}

ToolSystems ==
  {tools @@ Fixed : tools \in [{<<"tools", "lld">>, <<"bin", "ld">>, <<"libexec", "collect2">>}
                                 -> {1, 2, Missing}]}

SoOrA(l)     == <<"libz.so", "libz.a">>
SystemDirs   == <<"sys">>
LibexecDirs  == <<"libexec">>
LdOr(fuse)   == IF fuse = Missing THEN <<"ld">> ELSE <<"ld.lld", "lld">>
ScriptOf(v)  == IF v = 2 THEN {<<"sys", "crt1.o">>} ELSE {}

LinkCall(c, before, after) ==
  call = <<"link", [command |-> c, before |-> before, after |-> after]>>

(* Nothing is there that was not there before. *)
NothingNew(before, after) == \A f \in DOMAIN after : IsFile(after, f) => IsFile(before, f)

(***************************************************************************)
(* While no file appears, a link whose recorded inputs still fit would     *)
(* read the same files again (link_inputs, capture_outputs).               *)
(***************************************************************************)
LinkSound ==
  Answered("link") =>
    LET q == call[2] IN
    /\ ~Refuses(q.before, q.command)
    /\ StillFits(answer, q.after) /\ NothingNew(q.before, q.after)
    => LinkerReads(q.before, q.command) = LinkerReads(q.after, q.command)

(***************************************************************************)
(* The same for any change: a library that newly appears earlier in the    *)
(* search order invalidates the link (the header of link.rs).              *)
(***************************************************************************)
NewLibraryMisses ==
  Answered("link") =>
    LET q == call[2] IN
    ~Refuses(q.before, q.command) /\ StillFits(answer, q.after) =>
      LinkerReads(q.before, q.command) = LinkerReads(q.after, q.command)

-----------------------------------------------------------------------------
(* Three packages, one of them perhaps new and one perhaps no member, with   *)
(* any acyclic dependencies.                                                 *)
ImpactCall(packages, members, known, changed) ==
  LET after  == SnapshotOf(packages, members)
      before == [id \in known |-> [after[id] EXCEPT !.source = 0,
                                     !.surface = IF id \in changed THEN 0 ELSE 1]]
  IN call = <<"impact", [before |-> before, after |-> after]>>

Packages ==
  {[id \in 1 .. 4 |-> [source |-> 1, surface |-> 1, dependencies |-> ds[id]]] :
     ds \in {d \in [1 .. 4 -> SUBSET (1 .. 4)] : \A id \in 1 .. 4 : \A e \in d[id] : e < id}}

(***************************************************************************)
(* Affected is exactly what reaches a changed surface over dependencies    *)
(* (compare_workspace_snapshots' worklist).                                *)
(***************************************************************************)
AffectedExact ==
  Answered("impact") =>
    LET after == call[2].after
        ids   == DOMAIN after
        R     == [p \in ids \X ids |-> p[2] \in after[p[1]].dependencies]
        Reach == ReflexiveTransitiveClosure(R, ids)
    IN answer.affected = {id \in ids : \E s \in answer.surface : Reach[<<id, s>>]}

-----------------------------------------------------------------------------
CallInit ==
  /\ answer = NoAnswer
  /\ \/ \E units \in Snapshots, options \in GcOptions : PlanCall(units, options)
     \/ \E a, b \in Layouts, d \in Directories, rest \in Rests : PathCall(a, b, d, rest)
     \/ \E n \in 1 .. 2 : \E shape \in Shapes, vc \in BOOLEAN, what \in kSubset(n, Differences) :
          KeyCall(shape, vc, what)
     \/ \E c \in Commands : \/ /\ Simple(c) /\ c.libraries # {}
                              /\ \E before, after \in FileSystems : LinkCall(c, before, after)
                           \/ /\ c.libraries = {}
                              /\ \E before, after \in ToolSystems : LinkCall(c, before, after)
     \/ \E packages \in Packages, known \in SUBSET (1 .. 3) : \E changed \in SUBSET known :
          \E members \in {1 .. 3, 1 .. 4} : ImpactCall(packages, members, known, changed)

Answer ==
  /\ answer = NoAnswer
  /\ \E q \in {call[2]} :
       answer' = CASE call[1] = "plan" -> Plan(q.snapshot, q.options, Now)
                   [] call[1] = "path" ->
                        [normal |-> Normalize(q.a, q.from[q.dir] \o q.rest),
                         local  |-> Localize(q.b, Normalize(q.a, q.from[q.dir] \o q.rest))]
                   [] call[1] = "key" ->
                        [one |-> StaticKey(q.one), other |-> StaticKey(q.other)]
                   [] call[1] = "link" -> LinkRecord(q.before, q.command)
                   [] call[1] = "impact" -> Compare(q.before, q.after)
  /\ UNCHANGED call

CallSpec == CallInit /\ [][Answer]_callVars
=============================================================================
