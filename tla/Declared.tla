------------------------------ MODULE Declared -------------------------------
(***************************************************************************)
(* Clients that run a declared action in one workspace (`bellows run` and  *)
(* `bellows execute`, crates/bellows-cli/src/main.rs): the inputs are      *)
(* collected and keyed, the record of the key is looked up or made in a    *)
(* sandbox, and its output trees replace those of the workspace            *)
(* (restore.rs), while an editor changes the inputs, blobs are lost,       *)
(* renames fail and clients are killed.  The server's side is StoreGc.     *)
(*                                                                         *)
(* A key stands for the contents of the inputs it was computed from; name, *)
(* command, environment, platform and roots are the same for all clients.  *)
(* An output is known by the contents it was made from and by who made it, *)
(* since no two executions give the same record (created_ms).              *)
(***************************************************************************)
EXTENDS Integers, Sequences, FiniteSets, SequencesExt

CONSTANTS
  Clients,
  Modes,            \* of a behaviour: "local" (L1 store) or "remote" (server)
  Sources, Versions,\* the declared inputs and their contents
  Roots,            \* output_paths: sequences of path components
  Writes(_),        \* input contents -> the files the command writes then
  MaxChanges, MaxFailures,   \* bounds
  Nobody, Nothing

ASSUME DeclaredAssumption ==
  /\ MaxChanges \in Nat /\ MaxFailures \in Nat
  /\ Nobody \notin Clients /\ Nothing \notin Versions /\ Versions # {}
  /\ \A key \in [Sources -> Versions] : \A f \in Writes(key) : \E r \in Roots : IsPrefix(r, f)

VARIABLES
  mode,      \* which store this behaviour uses
  source,    \* input -> content
  records,   \* key -> its record, or Nothing
  blobs,     \* the records whose blobs are all in the store
  client,    \* client -> its state
  holder,    \* who holds restore.lock
  tree,      \* outer root -> the files below it, or Nothing
  backups,   \* outer root -> what kept or orphaned staging directories hold of it
  promised,  \* what the last restore that succeeded left, root by root
  torn,      \* whether a later one was killed half-way, or not rolled back
  spent      \* what the bounds bound

declaredVars == <<mode, source, records, blobs, client, holder, tree, backups, promised, torn, spent>>

-----------------------------------------------------------------------------
Keys == [Sources -> Versions]

(* Overlapping declarations collapse to their outermost root. *)
Outer == {r \in Roots : ~ \E q \in Roots : IsStrictPrefix(q, r)}

(* A record and its files: what an execution by c of these inputs gives. *)
Record(c, key, read) == [key |-> key, by |-> c, outputs |-> [f \in Writes(read) |-> read]]

(* The files of a record below a root, each with its maker: a staged tree. *)
Below(record, r) ==
  [by |-> record.by,
   files |-> [f \in {g \in DOMAIN record.outputs : IsPrefix(r, g)} |-> record.outputs[f]]]

Waiting ==
  [pc     |-> "collect",
   got    |-> <<>>,        \* the bytes of the inputs collected so far
   record |-> Nothing,     \* the one to restore
   new    |-> <<>>,        \* staged trees, root by root
   old    |-> <<>>,        \* the trees moved aside, root by root
   done   |-> {},          \* the roots whose new tree is installed
   undo   |-> <<>>]        \* the roots replaced so far, in order

DeclaredInit ==
  /\ mode \in Modes
  /\ source \in [Sources -> {CHOOSE v \in Versions : TRUE}]
  /\ records = [key \in Keys |-> Nothing]
  /\ blobs = {}
  /\ client = [c \in Clients |-> Waiting]
  /\ holder = Nobody
  /\ tree = [r \in Outer |-> Nothing]
  /\ backups = [r \in Outer |-> {}]
  /\ promised = tree
  /\ torn = FALSE
  /\ spent = [changes |-> 0, failures |-> 0]

Is(c, pc) == client[c].pc = pc

Goes(c, pc) == client' = [client EXCEPT ![c].pc = pc]

Spend(what, bound) ==
  spent[what] < bound /\ spent' = [spent EXCEPT ![what] = @ + 1]

Failure == Spend("failures", MaxFailures)

-----------------------------------------------------------------------------
(* collect_tree: an input is read once, and its digest is of those bytes. *)
Collect(c, i) ==
  /\ Is(c, "collect") /\ i \notin DOMAIN client[c].got
  /\ client' = [client EXCEPT ![c].got =
       [j \in DOMAIN @ \cup {i} |-> IF j = i THEN source[i] ELSE @[j]]]
  /\ UNCHANGED <<mode, source, records, blobs, holder, tree, backups, promised, torn, spent>>

(* The record of the key is read. *)
Find(c) ==
  /\ Is(c, "collect") /\ DOMAIN client[c].got = Sources
  /\ \E found \in {records[client[c].got]} :
       client' = [client EXCEPT ![c].pc = IF found = Nothing THEN "execute" ELSE "load",
                                ![c].record = found]
  /\ UNCHANGED <<mode, source, records, blobs, holder, tree, backups, promised, torn, spent>>

(* Every blob of a record that was found is loaded. *)
Load(c) ==
  /\ Is(c, "load") /\ client[c].record \in blobs
  /\ Goes(c, "lock")
  /\ UNCHANGED <<mode, source, records, blobs, holder, tree, backups, promised, torn, spent>>

(* One is missing or corrupt.  In the local store the record is removed,     *)
(* whatever it is by now, and the action runs; a remote client fails.        *)
LoadFails(c) ==
  /\ Is(c, "load") /\ client[c].record \notin blobs
  /\ IF mode = "local"
     THEN /\ records' = [records EXCEPT ![client[c].got] = Nothing]
          /\ client' = [client EXCEPT ![c].pc = "execute", ![c].record = Nothing]
     ELSE Goes(c, "failed") /\ UNCHANGED records
  /\ UNCHANGED <<mode, source, blobs, holder, tree, backups, promised, torn, spent>>

(* Runs on the workspace instead of a sandbox. *)
RunInPlace(c) ==
  /\ Is(c, "execute")
  /\ client' = [client EXCEPT ![c].pc = "publish", ![c].record = Record(c, client[c].got, source)]
  /\ UNCHANGED <<mode, source, records, blobs, holder, tree, backups, promised, torn, spent>>

(* execute_local_declared: the sandbox holds the collected bytes. *)
Run(c) ==
  /\ Is(c, "execute")
  /\ client' = [client EXCEPT ![c].pc = "publish",
       ![c].record = Record(c, client[c].got, client[c].got)]
  /\ UNCHANGED <<mode, source, records, blobs, holder, tree, backups, promised, torn, spent>>

(* The command fails or writes no outputs. *)
CommandFails(c) ==
  /\ Is(c, "execute")
  /\ Goes(c, "failed")
  /\ UNCHANGED <<mode, source, records, blobs, holder, tree, backups, promised, torn, spent>>

(* The server runs it: the record it answers with is published by then, by   *)
(* this execution or by an earlier one.                                      *)
ServerRuns(c) ==
  /\ Is(c, "execute") /\ mode = "remote"
  /\ \E key \in {client[c].got} :
       LET answer == IF records[key] = Nothing THEN Record(c, key, key) ELSE records[key] IN
       /\ records' = [records EXCEPT ![key] = answer]
       /\ blobs' = IF records[key] = Nothing THEN blobs \cup {answer} ELSE blobs
       /\ client' = [client EXCEPT ![c].pc = "restore", ![c].record = answer]
  /\ UNCHANGED <<mode, source, holder, tree, backups, promised, torn, spent>>

(* put_blobs, put_declared: a key is bound once.  The loser of a race        *)
(* restores its own result, a remote one fails.                              *)
PutRecord(c) ==
  /\ Is(c, "publish")
  /\ blobs' = blobs \cup {client[c].record}
  /\ \E key \in {client[c].got} :
       IF records[key] = Nothing
       THEN records' = [records EXCEPT ![key] = client[c].record] /\ Goes(c, "restore")
       ELSE Goes(c, IF mode = "local" THEN "restore" ELSE "failed") /\ UNCHANGED records
  /\ UNCHANGED <<mode, source, holder, tree, backups, promised, torn, spent>>

(* The blobs of the new record are read back. *)
LoadNew(c) ==
  /\ Is(c, "restore")
  /\ Goes(c, IF client[c].record \in blobs THEN "lock" ELSE "failed")
  /\ UNCHANGED <<mode, source, records, blobs, holder, tree, backups, promised, torn, spent>>

-----------------------------------------------------------------------------
(* declared_outputs: under restore.lock every new tree is written beside its *)
(* destination before the first is moved.                                    *)
Lock(c) ==
  /\ Is(c, "lock") /\ holder = Nobody
  /\ holder' = c
  /\ client' = [client EXCEPT ![c].pc = "swap",
       ![c].new = [r \in Outer |-> Below(client[c].record, r)]]
  /\ UNCHANGED <<mode, source, records, blobs, tree, backups, promised, torn, spent>>

(* A tree is moved to staging/old, if there is one. *)
MoveOld(c, r) ==
  /\ Is(c, "swap") /\ r \in Outer \ Range(client[c].undo)
  /\ \A q \in Range(client[c].undo) : q \in client[c].done
  /\ client' = [client EXCEPT ![c].undo = Append(@, r),
       ![c].old = IF tree[r] = Nothing THEN @
                  ELSE [q \in DOMAIN @ \cup {r} |-> IF q = r THEN tree[r] ELSE @[q]]]
  /\ tree' = [tree EXCEPT ![r] = Nothing]
  /\ UNCHANGED <<mode, source, records, blobs, holder, backups, promised, torn, spent>>

(* The new files are written over the old tree. *)
WriteOver(c, r) ==
  /\ Is(c, "swap") /\ r \in Range(client[c].undo) \ client[c].done
  /\ tree' = [tree EXCEPT ![r] = [client[c].new[r] EXCEPT !.files =
       IF r \notin DOMAIN client[c].old THEN @
       ELSE [f \in DOMAIN @ \cup DOMAIN client[c].old[r].files |->
               IF f \in DOMAIN @ THEN @[f] ELSE client[c].old[r].files[f]]]]
  /\ client' = [client EXCEPT ![c].done = @ \cup {r}]
  /\ UNCHANGED <<mode, source, records, blobs, holder, backups, promised, torn, spent>>

(* staging/new takes its place. *)
MoveNew(c, r) ==
  /\ Is(c, "swap") /\ r \in Range(client[c].undo) \ client[c].done
  /\ tree' = [tree EXCEPT ![r] = client[c].new[r]]
  /\ client' = [client EXCEPT ![c].done = @ \cup {r}]
  /\ UNCHANGED <<mode, source, records, blobs, holder, backups, promised, torn, spent>>

(* The staging directories are dropped, the old trees with them. *)
Ends(c, pc) ==
  /\ holder' = Nobody
  /\ client' = [client EXCEPT ![c] =
       [Waiting EXCEPT !.pc = pc, !.got = client[c].got, !.record = client[c].record]]

Finish(c) ==
  /\ Is(c, "swap") /\ client[c].done = Outer
  /\ promised' = tree
  /\ torn' = FALSE
  /\ Ends(c, "restored")
  /\ UNCHANGED <<mode, source, records, blobs, tree, backups, spent>>

(* Staging fails: nothing was moved.  A rename fails: what was replaced is   *)
(* put back.                                                                 *)
SwapFails(c) ==
  /\ Is(c, "swap") /\ client[c].done # Outer /\ Failure
  /\ Goes(c, "undo")
  /\ UNCHANGED <<mode, source, records, blobs, holder, tree, backups, promised, torn>>

(* Forgets a root whose new tree was not installed yet. *)
UndoInstalled(c) ==
  /\ Is(c, "undo") /\ client[c].undo # <<>>
  /\ \E r \in {Last(client[c].undo)} :
       /\ tree' = IF r \in client[c].done
                  THEN [tree EXCEPT ![r] =
                          IF r \in DOMAIN client[c].old THEN client[c].old[r] ELSE Nothing]
                  ELSE tree
       /\ client' = [client EXCEPT ![c].undo = Front(@)]
  /\ UNCHANGED <<mode, source, records, blobs, holder, backups, promised, torn, spent>>

(* The last root that was replaced gets its old tree back. *)
Undo(c) ==
  /\ Is(c, "undo") /\ client[c].undo # <<>>
  /\ \E r \in {Last(client[c].undo)} :
       /\ tree' = [tree EXCEPT ![r] =
                     IF r \in DOMAIN client[c].old THEN client[c].old[r] ELSE Nothing]
       /\ client' = [client EXCEPT ![c].undo = Front(@)]
  /\ UNCHANGED <<mode, source, records, blobs, holder, backups, promised, torn, spent>>

(* Drops the staging directory all the same. *)
UndoFailsDropping(c, moved) ==
  /\ Is(c, "undo") /\ client[c].undo # <<>> /\ Failure
  /\ \E r \in {Last(client[c].undo)} :
       /\ moved => r \in client[c].done /\ r \in DOMAIN client[c].old
       /\ r \in client[c].done \/ r \in DOMAIN client[c].old
       /\ tree' = IF moved THEN [tree EXCEPT ![r] = Nothing] ELSE tree
       /\ client' = [client EXCEPT ![c].undo = Front(@), ![c].old = [q \in DOMAIN @ \ {r} |-> @[q]]]
  /\ torn' = TRUE
  /\ UNCHANGED <<mode, source, records, blobs, holder, backups, promised>>

(* One of its two renames fails: the staging directory is kept, and the      *)
(* other roots are still put back.                                           *)
UndoFails(c, moved) ==
  /\ Is(c, "undo") /\ client[c].undo # <<>> /\ Failure
  /\ \E r \in {Last(client[c].undo)} :
       /\ moved => r \in client[c].done /\ r \in DOMAIN client[c].old
       /\ r \in client[c].done \/ r \in DOMAIN client[c].old
       /\ tree' = IF moved THEN [tree EXCEPT ![r] = Nothing] ELSE tree
       /\ backups' = [backups EXCEPT ![r] =
            IF r \in DOMAIN client[c].old THEN @ \cup {client[c].old[r]} ELSE @]
       /\ client' = [client EXCEPT ![c].undo = Front(@)]
  /\ torn' = TRUE
  /\ UNCHANGED <<mode, source, records, blobs, holder, promised>>

RolledBack(c) ==
  /\ Is(c, "undo") /\ client[c].undo = <<>>
  /\ Ends(c, "failed")
  /\ UNCHANGED <<mode, source, records, blobs, tree, backups, promised, torn, spent>>

(* The client is killed: its lock is free, its staging directories stay. *)
Killed(c) ==
  /\ client[c].pc \notin {"restored", "failed"} /\ Failure
  /\ client' = [client EXCEPT ![c] = [Waiting EXCEPT !.pc = "failed"]]
  /\ holder' = IF holder = c THEN Nobody ELSE holder
  /\ backups' = [r \in Outer |->
       IF r \in DOMAIN client[c].old THEN backups[r] \cup {client[c].old[r]} ELSE backups[r]]
  /\ torn' = (torn \/ client[c].undo # <<>>)
  /\ UNCHANGED <<mode, source, records, blobs, tree, promised>>

-----------------------------------------------------------------------------
(* The user edits an input, and starts a client again. *)
Change(i, v) ==
  /\ source[i] # v /\ Spend("changes", MaxChanges)
  /\ source' = [source EXCEPT ![i] = v]
  /\ UNCHANGED <<mode, records, blobs, client, holder, tree, backups, promised, torn>>

Again(c) ==
  /\ client[c].pc \in {"restored", "failed"} /\ Spend("changes", MaxChanges)
  /\ client' = [client EXCEPT ![c] = Waiting]
  /\ UNCHANGED <<mode, source, records, blobs, holder, tree, backups, promised, torn>>

(* The blobs of a record are lost: a collection, or a bad disk. *)
LoseBlobs(record) ==
  /\ record \in blobs /\ Failure
  /\ blobs' = blobs \ {record}
  /\ UNCHANGED <<mode, source, records, client, holder, tree, backups, promised, torn>>

ClientNext(c) ==
  \/ \E i \in Sources : Collect(c, i)
  \/ Find(c) \/ Load(c) \/ LoadFails(c)
  \/ Run(c) \/ CommandFails(c) \/ ServerRuns(c) \/ PutRecord(c) \/ LoadNew(c)
  \/ Lock(c) \/ Finish(c) \/ SwapFails(c)
  \/ \E r \in Outer : MoveOld(c, r) \/ MoveNew(c, r)
  \/ Undo(c) \/ RolledBack(c)
  \/ \E moved \in BOOLEAN : UndoFails(c, moved)
  \/ Killed(c) \/ Again(c)

DeclaredNext ==
  \/ \E c \in Clients : ClientNext(c)
  \/ \E i \in Sources, v \in Versions : Change(i, v)
  \/ \E record \in blobs : LoseBlobs(record)

DeclaredSpec == DeclaredInit /\ [][DeclaredNext]_declaredVars

-----------------------------------------------------------------------------
(* The types of records, clients and trees, and who holds restore.lock. *)
DeclaredTypeOK ==
  /\ source \in Keys
  /\ \A key \in Keys : records[key] # Nothing =>
       records[key].by \in Clients /\ records[key].key \in Keys
  /\ \A c \in Clients :
       /\ client[c].pc \in {"collect", "load", "execute", "publish", "restore", "lock", "swap",
                            "undo", "restored", "failed"}
       /\ DOMAIN client[c].old \cup client[c].done \subseteq Range(client[c].undo) \cup Outer
  /\ DOMAIN tree = Outer
  /\ \A c \in Clients : holder = c <=> client[c].pc \in {"swap", "undo"}

(***************************************************************************)
(* A record stands for what its key says, even if the inputs changed while *)
(* it was made: its outputs were made from the very bytes the key was      *)
(* computed from (collect_tree, execute_local_declared), and it is the     *)
(* record a lookup of that key may use.                                    *)
(***************************************************************************)
RecordOfKey ==
  \A key \in Keys : records[key] # Nothing =>
    /\ records[key].key = key
    /\ \A f \in DOMAIN records[key].outputs : records[key].outputs[f] = key

(***************************************************************************)
(* While nobody restores, and none was killed half-way or failed to roll   *)
(* back since, the output trees are together those of the last restore     *)
(* that succeeded: declared_outputs replaces all roots or none.            *)
(***************************************************************************)
AllOrNothing == holder = Nobody /\ ~torn => tree = promised

(***************************************************************************)
(* What a successful restore left is never lost before another succeeds:   *)
(* it is in place, or in a staging directory of a running, killed or       *)
(* failed restore (restore.rs, "preserved backup").                        *)
(***************************************************************************)
NothingLost ==
  \A r \in Outer :
    \/ promised[r] = tree[r]
    \/ promised[r] \in backups[r]
    \/ \E c \in Clients : r \in DOMAIN client[c].old /\ client[c].old[r] = promised[r]
    \/ promised[r] = Nothing

(***************************************************************************)
(* A client that succeeds leaves exactly the outputs of its own key, with  *)
(* no file of an earlier tree among them.                                  *)
(***************************************************************************)
RestoresOwnKey ==
  [][\A c \in Clients :
       Is(c, "swap") /\ client'[c].pc = "restored" =>
         \A r \in Outer :
           tree[r].files = [f \in {g \in Writes(client[c].got) : IsPrefix(r, g)}
                              |-> client[c].got]]_declaredVars
=============================================================================
