------------------------------- MODULE Launcher -------------------------------
(***************************************************************************)
(* How a launcher takes the place of a compiled build script               *)
(* (crates/bellows-cli/src/build_script.rs, rustc_wrapper of main.rs), in  *)
(* Cargo's build directory of one unit: the script's file, the real script *)
(* beside it and the record that names it, with failures and kills between *)
(* any two of their changes.                                               *)
(***************************************************************************)
EXTENDS Naturals

CONSTANTS
  Scripts,      \* what successive versions of build.rs compile to
  MaxBuilds, MaxMishaps,   \* bounds
  NoFile

ASSUME LauncherAssumption ==
  /\ MaxBuilds \in Nat /\ MaxMishaps \in Nat
  /\ {NoFile, "launcher", "partial"} \cap Scripts = {}

VARIABLES
  unit,      \* the files: script (NoFile, one of Scripts, "launcher" or "partial"),
             \* real (.bellows-real-*) and whether the record is there
  step,      \* of the wrapper
  current,    \* what build.rs compiles to now
  fresh,     \* what Cargo believes the unit to be, or NoFile
  stranded,  \* whether the last build could not write the record, or move the script back
  builds, mishaps

launcherVars == <<unit, step, current, fresh, stranded, builds, mishaps>>

LauncherInit ==
  /\ unit = [script |-> NoFile, real |-> NoFile, record |-> FALSE]
  /\ step = "idle" /\ current \in Scripts /\ fresh = NoFile /\ stranded = FALSE
  /\ builds = 0 /\ mishaps = 0

Mishap == mishaps < MaxMishaps /\ mishaps' = mishaps + 1

(* A step on the way, and the last one: the wrapper succeeds, whatever       *)
(* became of the launcher.                                                   *)
Moves(from, to, files) ==
  step = from /\ step' = to /\ unit' = files /\ UNCHANGED <<current, fresh, stranded, builds>>

Ended(from, files, lost) ==
  /\ step = from /\ step' = "idle" /\ unit' = files
  /\ fresh' = current /\ stranded' = lost /\ UNCHANGED <<current, builds>>

(* build.rs changed, or Cargo has no finished unit: it runs the wrapper,     *)
(* which first removes an installed launcher.                                *)
Build(s) ==
  /\ step = "idle" /\ builds < MaxBuilds
  /\ current' = s /\ fresh' = NoFile /\ stranded' = FALSE /\ builds' = builds + 1
  /\ step' = IF unit.record THEN "remove record" ELSE "compile"
  /\ UNCHANGED <<unit, mishaps>>

(* remove_launcher: the record goes first, and failures are ignored. *)
RemoveLauncher ==
  /\ \/ Moves("remove record", "remove script", [unit EXCEPT !.record = FALSE])
     \/ Moves("remove script", "remove real", [unit EXCEPT !.script = NoFile])
     \/ Moves("remove real", "compile", [unit EXCEPT !.real = NoFile])
  /\ UNCHANGED mishaps

RemoveFails ==
  /\ \/ Moves("remove record", "remove script", unit)
     \/ Moves("remove script", "remove real", unit)
     \/ Moves("remove real", "compile", unit)
  /\ Mishap

(* rustc, or a restore, writes the script; or rustc fails. *)
Compile ==
  /\ Moves("compile", "move", [unit EXCEPT !.script = current]) \/ Moves("compile", "idle", unit)
  /\ UNCHANGED mishaps

(* install_launcher, unless BELLOWS_BUILD_SCRIPTS is 0 or the rename fails. *)
MoveAside ==
  /\ \/ Moves("move", "copy", [unit EXCEPT !.script = NoFile, !.real = unit.script])
     \/ Ended("move", unit, FALSE)
  /\ UNCHANGED mishaps

Copy == Moves("copy", "record", [unit EXCEPT !.script = "launcher"]) /\ UNCHANGED mishaps

(* The copy fails, before or after it created the file, or its stamp cannot  *)
(* be set: the script is moved back.                                         *)
CopyFails ==
  /\ \E rest \in {NoFile, "partial", "launcher"} :
       Moves("copy", "undo", [unit EXCEPT !.script = rest])
  /\ Mishap

(* Reports the failure and leaves the files as they are. *)
LeaveThere == Ended("undo", unit, FALSE) /\ UNCHANGED mishaps

MoveBack ==
  Ended("undo", [unit EXCEPT !.script = unit.real, !.real = NoFile], FALSE) /\ UNCHANGED mishaps

MoveBackFails ==
  /\ \E rest \in {NoFile, unit.script} : Ended("undo", [unit EXCEPT !.script = rest], TRUE)
  /\ Mishap

WriteRecord == Ended("record", [unit EXCEPT !.record = TRUE], FALSE) /\ UNCHANGED mishaps

(* The launcher stays, with no record of what it stands for. *)
RecordFails == Ended("record", unit, ~unit.record) /\ Mishap

(* The wrapper is killed: Cargo has no finished unit. *)
WrapperKilled == step # "idle" /\ Moves(step, "idle", unit) /\ Mishap

LauncherNext ==
  \/ \E s \in Scripts : Build(s)
  \/ RemoveLauncher \/ RemoveFails \/ Compile
  \/ MoveAside \/ Copy \/ CopyFails \/ MoveBack \/ MoveBackFails
  \/ WriteRecord \/ RecordFails \/ WrapperKilled

LauncherSpec == LauncherInit /\ [][LauncherNext]_launcherVars

-----------------------------------------------------------------------------
(* launched_as: what Cargo starts when it runs the unit's file.  A launcher  *)
(* without a record takes itself for the bellows command.                    *)
Started ==
  IF unit.script # "launcher" THEN unit.script
  ELSE IF unit.record THEN unit.real ELSE "bellows"

(***************************************************************************)
(* What Cargo runs as the build script of a finished unit is the script    *)
(* that was just compiled, whatever failed or was killed on the way and in *)
(* earlier builds, unless this build failed twice or could not write the   *)
(* record (install_launcher, remove_launcher, launched_as).                *)
(***************************************************************************)
RunsLatest == fresh # NoFile /\ ~stranded => Started = fresh
=============================================================================
