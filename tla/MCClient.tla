------------------------------ MODULE MCClient -------------------------------
(***************************************************************************)
(* The command-line client's parts beside each other: cached executions    *)
(* (MCCachedRun), declared actions (MCDeclared), the launcher of a build   *)
(* script (Launcher), the event log (EventLog) and the pure algorithms     *)
(* (MCAlgorithms).  They share no state that matters to their properties,  *)
(* so a behaviour moves one of them and leaves the others as they began.   *)
(* The clients of declared actions bear the names of the checkouts: one    *)
(* symmetry serves both.                                                   *)
(***************************************************************************)
EXTENDS MCCachedRun, MCDeclared, MCAlgorithms, Launcher, EventLog

CONSTANTS r1, r2

VARIABLE part   \* the one that moves

clientVars == <<part, vars, declaredVars, launcherVars, logVars, callVars>>

NoCall == call = <<"none">> /\ answer = NoAnswer

ClientInit ==
  /\ part \in {"run", "declared", "launcher", "log", "call"}
  /\ Init /\ (part # "run" => kind = "compile")
  /\ part # "run" \/ Script => file[c1][src].val = v1
  /\ DeclaredInit /\ (part # "declared" => mode = "local")
  /\ LauncherInit /\ (part # "launcher" => current = CHOOSE s \in Scripts : TRUE)
  /\ LogInit
  /\ IF part = "call" THEN CallInit ELSE NoCall

(* Steps left out, since they make no difference: what changes in a checkout *)
(* after its last job; and that the one new file of an earlier unit has the  *)
(* inode of the old one.  Digests are told apart by it only if the change    *)
(* times are equal, too, and then another inode is what ~Reuse requires.     *)
Superfluous(c) ==
  \/ /\ At(c, "idle") /\ count.jobs = MaxJobs
     /\ file'[c] # file[c] \/ out'[c] # out[c] \/ session'[c] # session[c]
  \/ /\ ~Script
     /\ file'[c][lib] # file[c][lib] /\ file'[c][lib].inode = file[c][lib].inode

(* In a compile there is an edit or a fault, in a script there may be both. *)
RunStep ==
  /\ part = "run" /\ Next /\ \A c \in Checkouts : ~Superfluous(c)
  /\ Script \/ count'.edits + count'.faults <= 1
  /\ UNCHANGED <<part, declaredVars, launcherVars, logVars, callVars>>

DeclaredStep ==
  part = "declared" /\ DeclaredNext /\ UNCHANGED <<part, vars, launcherVars, logVars, callVars>>

LauncherStep ==
  part = "launcher" /\ LauncherNext /\ UNCHANGED <<part, vars, declaredVars, logVars, callVars>>

LogStep ==
  part = "log" /\ LogNext /\ UNCHANGED <<part, vars, declaredVars, launcherVars, callVars>>

CallStep ==
  part = "call" /\ Answer /\ UNCHANGED <<part, vars, declaredVars, launcherVars, logVars>>

ClientSpec ==
  ClientInit /\ [][RunStep \/ DeclaredStep \/ LauncherStep \/ LogStep \/ CallStep]_clientVars

(* The types of files, results, candidates, records, clients and trees, and  *)
(* who holds restore.lock: what is recorded is of files that were there.     *)
ClientTypeOK == CachedRunTypeOK /\ DeclaredTypeOK
=============================================================================
