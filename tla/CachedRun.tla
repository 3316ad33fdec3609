------------------------------ MODULE CachedRun ------------------------------
(***************************************************************************)
(* One cached execution after another in several checkouts of a workspace: *)
(* rustc for a library or a linked unit (crates/bellows-cli/src/main.rs)   *)
(* or a build script behind its launcher (build_script.rs), from its       *)
(* identity over lookup, validation and restore, or the execution itself,  *)
(* to capture and publication.  Meanwhile an editor changes the inputs.    *)
(*                                                                         *)
(* A digest stands for the content it was computed from.  An input has a   *)
(* content, or is absent, and the modification and change time and the     *)
(* inode its file system keeps; stamps trail the clock by at most Slack.   *)
(* A file is changed in place, the hardest case for what is kept of it,    *)
(* but for the outputs of earlier units, which are replaced.  What an      *)
(* execution writes is determined by what it read of each input, when it   *)
(* read it; by the checkout, if it embeds a path of it; by the terminal's  *)
(* width, if it prints diagnostics; and by what an earlier execution left  *)
(* behind, unless it starts from scratch.  The wait for another runner of  *)
(* the same key is in SingleFlight.                                        *)
(***************************************************************************)
EXTENDS Integers, FiniteSets, Functions

CONSTANTS
  Checkouts,     \* worktrees that share the remote store
  Kinds,         \* of what is run: "compile", a library or a linked unit, or "script"
  Watches,       \* what a script declares: "package" (nothing) or "directory"
  Inputs,        \* the files it reads
  Explicit,      \* those rustc is given by name: hashed for the static key
  Produced,      \* those under the target directory, written before it runs
  Units,         \* those of them that are outputs of units run under the wrapper
  Large,         \* those whose digests are memoized (SMALL)
  Inodes,        \* of files
  Nested,        \* those in a subdirectory of the directory a script declares
  Contents,      \* of an input
  Leaking,       \* the contents that make the outputs embed the checkout
  Warning,       \* the contents that make rustc print diagnostics
  Incremental,   \* the checkouts that compile with -C incremental
  Widths,        \* values of --diagnostic-width
  Outputs,       \* the files it writes
  Slack,         \* timestamp_slack: how far a stamp may trail the clock
  Racy,          \* RACY: how old a file must be for its digest to be kept
  Window,        \* whether files change between their check and their hash
  Transient,     \* whether a file comes and goes, or goes and comes, in one execution
  Reuse,         \* whether a file may get an inode it had earlier in the same instant
  Epoch, MaxTime,                \* the clock runs from Epoch to MaxTime
  MaxJobs, MaxEdits, MaxFaults,  \* bounds
  Absent, None, AnyWidth

(* What an output may be written from, see Result. *)
Results ==
  [read : [Inputs -> Contents \cup {Absent}], scratch : BOOLEAN,
   root : Checkouts \cup {None}, width : Widths \cup {None}]

ASSUME CachedRunAssumption ==
  /\ Slack \in Nat /\ Racy \in Nat /\ Slack <= Racy
  /\ Epoch \in Nat /\ MaxTime \in Nat
  /\ MaxJobs \in Nat /\ MaxEdits \in Nat /\ MaxFaults \in Nat
  /\ Absent \notin Contents /\ None \notin Contents \cup Widths /\ AnyWidth \notin Widths \cup {None}
  /\ None \notin Results /\ "directory" \notin Inputs
  /\ Explicit \cup Produced \cup Large \cup Nested \subseteq Inputs
  /\ Units \subseteq Produced /\ Inodes # {}
  /\ Leaking \cup Warning \subseteq Contents
  /\ Window \in BOOLEAN /\ Transient \in BOOLEAN /\ Reuse \in BOOLEAN

VARIABLES
  kind, watch,   \* what this behaviour runs
  file,          \* checkout -> input -> [val, mtime, ctime, inode]
  dir,           \* checkout -> the stamp of the directory a script declares
  memo,          \* checkout -> input -> the digests kept, each as the file it is of
  session,       \* checkout -> whether the unit has an incremental session
  out,           \* checkout -> output -> the result it was written from, or None
  store,         \* the L1 store of each checkout, and the remote -> candidates
  job,           \* checkout -> the wrapper or launcher at work there
  now, count     \* the clock; what the bounds bound

vars == <<kind, watch, file, dir, memo, session, out, store, job, now, count>>

Remote   == "remote"
Script   == kind = "script"
Listed   == "directory"         \* the declared directory, among a script's inputs

-----------------------------------------------------------------------------
(* Files and their digests. *)
Present(c, i) == file[c][i].val # Absent
Listing(c)    == {i \in Inputs : Present(c, i)}
Later(m, n)   == IF m > n THEN m ELSE n

(* Keeps every digest, however young the file. *)
KeptUnsettled(c, I) ==
  [memo EXCEPT ![c] = [i \in Inputs |->
     IF i \in I \cap Large /\ Present(c, i) THEN memo[c][i] \cup {file[c][i]} ELSE memo[c][i]]]

(* The stamps without the inode. *)
SameStamps(m, f) == m.mtime = f.mtime /\ m.ctime = f.ctime

(* identity, of one path: what a digest is kept under. *)
Same(m, f) == m.mtime = f.mtime /\ m.ctime = f.ctime /\ m.inode = f.inode

Known(c, i) == \E m \in memo[c][i] : Same(m, file[c][i])

(* What Digests::file keeps of the digests of I that are not known: a young  *)
(* file may still change without a change of its identity.                   *)
Kept(c, I) ==
  [memo EXCEPT ![c] = [i \in Inputs |->
     IF /\ i \in I \cap Large /\ Present(c, i) /\ ~Known(c, i)
        /\ now - Later(file[c][i].mtime, file[c][i].ctime) > Racy
     THEN memo[c][i] \cup {file[c][i]} ELSE memo[c][i]]]

(* Digests::file: the digest kept for a file of this identity, or a new one. *)
Digest(c, i) ==
  IF Known(c, i) THEN (CHOOSE m \in memo[c][i] : Same(m, file[c][i])).val
  ELSE file[c][i].val

(* Digests::remember: the digest of a file just written is kept at once, in  *)
(* place of one kept for another file of the same identity.                  *)
Remember(c, i, f) ==
  [memo EXCEPT ![c][i] =
     IF i \in Large THEN {m \in @ : ~Same(m, f)} \cup {f} ELSE @]

(* changed_during_compile *)
Changed(c, i, started) ==
  \/ ~ Present(c, i)
  \/ file[c][i].mtime >= started - Slack
  \/ file[c][i].ctime >= started - Slack

(***************************************************************************)
(* What an execution writes, from what it read.                            *)
(***************************************************************************)
Result(c, read, scratch, width) ==
  [read |-> read, scratch |-> scratch,
   root |-> IF Range(read) \cap Leaking # {} THEN c ELSE None,
   width |-> IF Range(read) \cap Warning # {} THEN width ELSE None]

-----------------------------------------------------------------------------
(* Wrappers and launchers. *)
Idle ==
  [pc      |-> "idle",
   width   |-> None,     \* the terminal's
   key     |-> None,     \* static_key: the digests of the explicit inputs
   listing |-> {},       \* the package's, before lookup and before the run
   index   |-> {},       \* candidates still to try
   cand    |-> None,     \* the one that is restored, or was captured
   left    |-> {},       \* what is left to do of this step
   at      |-> None,     \* the input that was checked and is to be hashed
   started |-> 0,
   scratch |-> FALSE,    \* it started without a session, or an empty OUT_DIR
   cached  |-> FALSE,    \* it is captured when it succeeds
   read    |-> <<>>,     \* what the execution read so far
   files   |-> <<>>,     \* the digests recorded so far
   seen    |-> <<>>]     \* what each input was since the job began

Init ==
  /\ kind \in Kinds
  /\ watch \in IF kind = "script" THEN Watches ELSE {"none"}
  /\ \E v \in Contents :
       file = [c \in Checkouts |->
                [i \in Inputs |-> [val |-> v, mtime |-> Epoch - 1, ctime |-> Epoch - 1,
                                   inode |-> CHOOSE n \in Inodes : TRUE]]]
  /\ dir = [c \in Checkouts |-> Epoch - 1]
  /\ memo = [c \in Checkouts |->
               [i \in Inputs |-> IF ~Script /\ i \in Units \cap Large THEN {file[c][i]} ELSE {}]]
  /\ session = [c \in Checkouts |-> FALSE]
  /\ out = [c \in Checkouts |-> [o \in Outputs |-> None]]
  /\ store = [s \in Checkouts \cup {Remote} |-> {}]
  /\ job = [c \in Checkouts |-> Idle]
  /\ now = Epoch
  /\ count = [jobs |-> 0, edits |-> 0, faults |-> 0]

Bounded(what, bound) ==
  count[what] < bound /\ count' = [count EXCEPT ![what] = @ + 1]

Fault == Bounded("faults", MaxFaults)

At(c, pc) == job[c].pc = pc

-----------------------------------------------------------------------------
(* Cargo runs the wrapper, or the launcher in the script's place. *)
Begins(c, w, begun) ==
  /\ At(c, "idle") /\ Bounded("jobs", MaxJobs)
  /\ w = None \/ ~Script
  /\ job' = [job EXCEPT ![c] =
       [begun EXCEPT !.width = w, !.seen = [i \in Inputs |-> {file[c][i].val}]]]
  /\ UNCHANGED <<kind, watch, file, dir, session, out, store, now>>

(* build_identity; a script's identity has none of its inputs. *)
Identify(c, w) ==
  LET hashed == IF Script THEN {} ELSE Explicit IN
  /\ Begins(c, w, [Idle EXCEPT !.pc = "lookup", !.key = [i \in hashed |-> Digest(c, i)]])
  /\ memo' = Kept(c, hashed)

(* Without an identity, or a cache, the compiler or the script just runs.    *)
(* Nothing is stored, so it does not matter for which width it prints.       *)
Uncached == [Idle EXCEPT !.pc = "run", !.left = Inputs, !.read = [i \in Inputs |-> None]]

Bypass(c) == Begins(c, None, Uncached) /\ UNCHANGED memo

(* The candidates of the key, of both stores; for a script also the listing  *)
(* of the package that candidates may be recorded with.                      *)
Lookup(c) ==
  /\ At(c, "lookup")
  /\ job' = [job EXCEPT ![c].pc = "try",
       ![c].index = {k \in store[c] \cup store[Remote] : k.key = job[c].key},
       ![c].listing = IF watch = "package" THEN Listing(c) ELSE {}]
  /\ UNCHANGED <<kind, watch, file, dir, memo, session, out, store, now, count>>

LookupFails(c) ==
  /\ At(c, "lookup") /\ Fault
  /\ job' = [job EXCEPT ![c].pc = "try",
       ![c].index = {k \in store[c] : k.key = job[c].key},
       ![c].listing = IF watch = "package" THEN Listing(c) ELSE {}]
  /\ UNCHANGED <<kind, watch, file, dir, memo, session, out, store, now>>

-----------------------------------------------------------------------------
(* A candidate has [key, files, pin, width, out]: the digests of the inputs  *)
(* it was made from, the checkout its outputs embed, the width its           *)
(* diagnostics were rendered for, or AnyWidth.                               *)

(* validate_candidate *)
Fits(c, k) ==
  /\ k.width \in {AnyWidth, job[c].width}
  /\ k.pin \in {None, c}
  /\ \A i \in DOMAIN k.files \ {Listed} : Present(c, i) /\ Digest(c, i) = k.files[i]
  /\ Listed \in DOMAIN k.files =>
       k.files[Listed] = IF watch = "package" THEN job[c].listing ELSE Listing(c)

(* try_candidates: the next one that fits; those before it are rejected. *)
Accept(c, k) ==
  /\ At(c, "try") /\ k \in job[c].index /\ Fits(c, k)
  /\ job' = [job EXCEPT ![c].pc = "fetch", ![c].cand = k]
  /\ memo' = Kept(c, DOMAIN k.files)
  /\ UNCHANGED <<kind, watch, file, dir, session, out, store, now, count>>

Miss(c) ==
  /\ At(c, "try") /\ \A k \in job[c].index : ~Fits(c, k)
  /\ job' = [job EXCEPT ![c].pc = "start", ![c].index = {}]
  /\ memo' = Kept(c, UNION {DOMAIN k.files : k \in job[c].index})
  /\ UNCHANGED <<kind, watch, file, dir, session, out, store, now, count>>

(* Every blob is there before the first output is written.  A script's whole *)
(* OUT_DIR is replaced.                                                      *)
Fetch(c) ==
  /\ At(c, "fetch")
  /\ job' = [job EXCEPT ![c].pc = "install", ![c].left = Outputs]
  /\ out' = IF Script THEN [out EXCEPT ![c] = [o \in Outputs |-> None]] ELSE out
  /\ UNCHANGED <<kind, watch, file, dir, memo, session, store, now, count>>

(* restore_with: each output is replaced in one step. *)
Install(c, o) ==
  /\ At(c, "install") /\ o \in job[c].left
  /\ out' = [out EXCEPT ![c][o] = job[c].cand.out[o]]
  /\ job' = [job EXCEPT ![c].left = @ \ {o}]
  /\ UNCHANGED <<kind, watch, file, dir, memo, session, store, now, count>>

(* A blob is missing or corrupt, or the disk is full half-way: the outputs   *)
(* stay as they are, and the next candidate is tried.                        *)
RestoreFails(c) ==
  /\ At(c, "fetch") \/ (At(c, "install") /\ job[c].left # {})
  /\ Fault
  /\ job' = [job EXCEPT ![c].pc = "try", ![c].index = @ \ {job[c].cand},
                        ![c].cand = None, ![c].left = {}]
  /\ UNCHANGED <<kind, watch, file, dir, memo, session, out, store, now>>

(* A remote candidate goes to the L1 store, if that works. *)
Hit(c) ==
  /\ At(c, "install") /\ job[c].left = {}
  /\ job' = [job EXCEPT ![c].pc = "hit", ![c].index = {}, ![c].cand = None]
  /\ \/ store' = [store EXCEPT ![c] = @ \cup {job[c].cand}]
     \/ UNCHANGED store
  /\ UNCHANGED <<kind, watch, file, dir, memo, session, out, now, count>>

-----------------------------------------------------------------------------
(* reused_session; or an OUT_DIR that is not empty. *)
FromScratch(c) ==
  IF Script THEN \A o \in Outputs : out[c][o] = None
  ELSE ~ (c \in Incremental /\ session[c])

(* compile_and_capture, and the end of cached_run. *)
Start(c) ==
  /\ At(c, "start")
  /\ job' = [job EXCEPT ![c].pc = "run", ![c].started = now, ![c].cached = TRUE,
       ![c].scratch = FromScratch(c), ![c].left = Inputs,
       ![c].read = [i \in Inputs |-> None],
       ![c].listing = IF watch = "package" THEN Listing(c) ELSE {}]
  /\ UNCHANGED <<kind, watch, file, dir, memo, session, out, store, now, count>>

(* rustc, or the script, reads one of its inputs. *)
Read(c, i) ==
  /\ At(c, "run") /\ i \in job[c].left
  /\ job' = [job EXCEPT ![c].left = @ \ {i}, ![c].read[i] = file[c][i].val]
  /\ UNCHANGED <<kind, watch, file, dir, memo, session, out, store, now, count>>

(* What is captured: rustc's dep-info, or what the script declared.          *)
Recorded(c) == IF Script THEN Listing(c) \cup {Listed} ELSE Inputs

(* It ends well, having written all its outputs.                             *)
Ran(c) ==
  /\ At(c, "run") /\ job[c].left = {}
  /\ out' = [out EXCEPT ![c] = [o \in Outputs |->
               Result(c, job[c].read, job[c].scratch, job[c].width)]]
  /\ session' = [session EXCEPT ![c] = @ \/ (~Script /\ c \in Incremental)]
  /\ job' = IF job[c].cached /\ job[c].scratch
            THEN [job EXCEPT ![c].pc = "capture", ![c].left = Recorded(c), ![c].read = <<>>]
            ELSE [job EXCEPT ![c] = Idle]
  /\ UNCHANGED <<kind, watch, file, dir, memo, store, now, count>>

(* It fails: its status is the job's. *)
RunFails(c) ==
  /\ At(c, "run")
  /\ session' = [session EXCEPT ![c] = @ \/ (~Script /\ c \in Incremental)]
  /\ job' = [job EXCEPT ![c] = Idle]
  /\ UNCHANGED <<kind, watch, file, dir, memo, out, store, now, count>>

-----------------------------------------------------------------------------
(* The check of one input before it is hashed.  A package is judged by its   *)
(* listing from before the run, another directory by its own stamp.          *)
ChangedSince(c, i) ==
  CASE i = Listed /\ watch = "package" -> Listing(c) # job[c].listing
    [] i = Listed /\ watch # "package" -> dir[c] >= job[c].started - Slack
    [] OTHER -> i \notin Produced /\ Changed(c, i, job[c].started)

Check(c, i) ==
  /\ At(c, "capture") /\ i \in job[c].left
  /\ i # Listed => Listed \notin job[c].left
  /\ ~ ChangedSince(c, i)
  /\ job' = [job EXCEPT ![c].pc = "hash", ![c].at = i]
  /\ UNCHANGED <<kind, watch, file, dir, memo, session, out, store, now, count>>

(* The result stays in this checkout: an input changed, or anything else     *)
(* that is not recorded was found (an input of another checkout, a symlink   *)
(* in OUT_DIR, an undeclared native library, a read-only session).           *)
NotStored(c) ==
  /\ At(c, "capture")
  /\ job' = [job EXCEPT ![c] = Idle]
  /\ UNCHANGED <<kind, watch, file, dir, memo, session, out, store, now, count>>

(* Hashes what may be gone. *)
HashUnseen(c) ==
  LET i == job[c].at IN
  /\ At(c, "hash")
  /\ job' = [job EXCEPT ![c].pc = "capture", ![c].at = None, ![c].left = @ \ {i},
       ![c].files = [j \in DOMAIN @ \cup {i} |->
          IF j # i THEN @[j] ELSE IF i = Listed THEN Listing(c) ELSE Digest(c, i)]]
  /\ memo' = Kept(c, {i})
  /\ UNCHANGED <<kind, watch, file, dir, session, out, store, now, count>>

Hash(c) ==
  LET i == job[c].at IN
  /\ At(c, "hash")
  /\ i # Listed => Present(c, i)
  /\ job' = [job EXCEPT ![c].pc = "capture", ![c].at = None, ![c].left = @ \ {i},
       ![c].files = [j \in DOMAIN @ \cup {i} |->
          IF j # i THEN @[j] ELSE IF i = Listed THEN Listing(c) ELSE Digest(c, i)]]
  /\ memo' = Kept(c, {i})
  /\ UNCHANGED <<kind, watch, file, dir, session, out, store, now, count>>

(* The input is gone. *)
HashFails(c) ==
  /\ At(c, "hash") /\ job[c].at # Listed /\ ~ Present(c, job[c].at)
  /\ job' = [job EXCEPT ![c] = Idle]
  /\ UNCHANGED <<kind, watch, file, dir, memo, session, out, store, now, count>>

(* The outputs are scanned for paths of the checkout. *)
Leaked(c) == \E o \in Outputs : out[c][o].root # None

Candidate(c) ==
  [key |-> job[c].key, files |-> job[c].files, out |-> out[c],
   pin |-> IF Leaked(c) THEN c ELSE None,
   width |-> IF \E o \in Outputs : out[c][o].width # None THEN job[c].width ELSE AnyWidth]

Captured(c) ==
  /\ At(c, "capture") /\ job[c].left = {}
  /\ job' = [job EXCEPT ![c] = [Idle EXCEPT !.pc = "publish", !.cand = Candidate(c)]]
  /\ UNCHANGED <<kind, watch, file, dir, memo, session, out, store, now, count>>

(* To the L1 store, then to the server. *)
Publish(c, s, next) ==
  /\ store' = [store EXCEPT ![s] = @ \cup {job[c].cand}]
  /\ job' = [job EXCEPT ![c] = next]
  /\ UNCHANGED <<kind, watch, file, dir, memo, session, out, now, count>>

PublishLocal(c)  == At(c, "publish") /\ Publish(c, c, [job[c] EXCEPT !.pc = "send"])
PublishRemote(c) == At(c, "send") /\ Publish(c, Remote, Idle)

(* A failed publication of a compile is only noted.  For a script it fails   *)
(* cached_run, and run starts the script once more.                          *)
PublishFails(c) ==
  /\ At(c, "publish") \/ At(c, "send")
  /\ Fault
  /\ job' = [job EXCEPT ![c] =
       CASE Script -> Uncached
         [] ~Script /\ At(c, "publish") -> [job[c] EXCEPT !.pc = "send"]
         [] OTHER -> Idle]
  /\ UNCHANGED <<kind, watch, file, dir, memo, session, out, store, now>>

Done(c) ==
  /\ At(c, "hit")
  /\ job' = [job EXCEPT ![c] = Idle]
  /\ UNCHANGED <<kind, watch, file, dir, memo, session, out, store, now, count>>

(* The wrapper is killed, wherever it is. *)
Kill(c) ==
  /\ ~At(c, "idle") /\ Fault
  /\ job' = [job EXCEPT ![c] = Idle]
  /\ UNCHANGED <<kind, watch, file, dir, memo, session, out, store, now>>

-----------------------------------------------------------------------------
(* cargo clean *)
Clean(c) ==
  /\ At(c, "idle")
  /\ out' = [out EXCEPT ![c] = [o \in Outputs |-> None]]
  /\ session' = [session EXCEPT ![c] = FALSE]
  /\ UNCHANGED <<kind, watch, file, dir, memo, store, job, now, count>>

(* What the editor leaves alone, see Window and Transient; and Cargo writes  *)
(* into the target directory only between the units that read from it.       *)
Undisturbed(c, i, v) ==
  LET entry == v = Absent \/ ~Present(c, i) IN
  /\ i \in Produced => At(c, "idle")
  /\ ~Window => ~ (/\ At(c, "hash")
                   /\ \/ job[c].at = i /\ v # Absent
                      \/ job[c].at = Listed /\ entry)
  /\ ~Transient /\ watch = "package" /\ job[c].pc \in {"run", "capture", "hash"} =>
       /\ v = Absent => i \in job[c].listing
       /\ ~Present(c, i) => i \notin job[c].listing

(* A file is written, given older contents and their modification time       *)
(* (cp -p), added to a script's package or removed from it.                  *)
Edit(c, i, v, stamp, older) ==
  /\ Bounded("edits", MaxEdits)
  /\ v # file[c][i].val /\ (v = Absent \/ ~Present(c, i) => Script)
  /\ Script \/ i \notin Units
  /\ stamp <= now /\ stamp >= now - Slack /\ stamp >= file[c][i].ctime /\ stamp >= dir[c]
  /\ older => v # Absent
  /\ Undisturbed(c, i, v)
  /\ file' = [file EXCEPT ![c][i] =
       [val |-> v, ctime |-> stamp, mtime |-> IF older THEN @.mtime ELSE stamp,
        inode |-> @.inode]]
  /\ dir' = IF (v = Absent \/ ~Present(c, i)) /\ i \notin Nested
            THEN [dir EXCEPT ![c] = stamp] ELSE dir
  /\ job' = IF i \in DOMAIN job[c].seen THEN [job EXCEPT ![c].seen[i] = @ \cup {v}] ELSE job
  /\ UNCHANGED <<kind, watch, memo, session, out, store, now>>

(* Cargo has run an earlier unit again: its output is a new file.  Its digest *)
(* is remembered, when the wrapper restored it or captured it and got so far *)
(* (restore_with, capture_outputs); Cargo lets nobody write it in between.    *)
Rebuild(c, i, v, stamp, inode, remembered) ==
  LET built == [val |-> v, mtime |-> stamp, ctime |-> stamp, inode |-> inode] IN
  /\ ~Script /\ i \in Units /\ At(c, "idle") /\ Bounded("edits", MaxEdits)
  /\ v # file[c][i].val
  /\ stamp <= now /\ stamp >= now - Slack /\ stamp >= file[c][i].ctime
  /\ ~Reuse => \A m \in memo[c][i] : m.ctime = stamp => m.inode # inode
  /\ file' = [file EXCEPT ![c][i] = built]
  /\ memo' = IF remembered THEN Remember(c, i, built) ELSE memo
  /\ UNCHANGED <<kind, watch, dir, session, out, store, job, now>>

Tick ==
  /\ now < MaxTime
  /\ now' = now + 1
  /\ UNCHANGED <<kind, watch, file, dir, memo, session, out, store, job, count>>

JobNext(c) ==
  \/ \E w \in Widths \cup {None} : Identify(c, w)
  \/ Bypass(c)
  \/ Lookup(c) \/ LookupFails(c)
  \/ \E k \in job[c].index : Accept(c, k)
  \/ Miss(c) \/ Fetch(c) \/ RestoreFails(c) \/ Hit(c)
  \/ \E o \in Outputs : Install(c, o)
  \/ Start(c) \/ Ran(c) \/ RunFails(c)
  \/ \E i \in Inputs : Read(c, i)
  \/ \E i \in Inputs \cup {Listed} : Check(c, i)
  \/ NotStored(c) \/ Hash(c) \/ HashFails(c) \/ Captured(c)
  \/ PublishLocal(c) \/ PublishRemote(c) \/ PublishFails(c)
  \/ Done(c) \/ Kill(c)

Next ==
  \/ \E c \in Checkouts :
       \/ JobNext(c)
       \/ Clean(c)
       \/ \E i \in Inputs, v \in Contents \cup {Absent}, stamp \in 0 .. MaxTime,
             older \in BOOLEAN : Edit(c, i, v, stamp, older)
       \/ \E i \in Units, v \in Contents, stamp \in 0 .. MaxTime, inode \in Inodes,
             remembered \in BOOLEAN : Rebuild(c, i, v, stamp, inode, remembered)
  \/ Tick

Spec == Init /\ [][Next]_vars

-----------------------------------------------------------------------------
(* Digests of files that are there, and the listing of a directory. *)
IsRecord(f) ==
  /\ DOMAIN f \subseteq Inputs \cup {Listed}
  /\ \A i \in DOMAIN f : IF i = Listed THEN f[i] \subseteq Inputs ELSE f[i] \in Contents

IsCandidate(k) ==
  /\ DOMAIN k = {"key", "files", "pin", "width", "out"}
  /\ IsRecord(k.key) /\ IsRecord(k.files)
  /\ k.pin \in Checkouts \cup {None}
  /\ k.width \in Widths \cup {None, AnyWidth}
  /\ k.out \in [Outputs -> Results]

(* The types of files, results, candidates and jobs. *)
CachedRunTypeOK ==
  /\ file \in [Checkouts -> [Inputs ->
       [val : Contents \cup {Absent}, mtime : 0 .. now, ctime : 0 .. now, inode : Inodes]]]
  /\ \A c \in Checkouts, i \in Inputs : \A m \in memo[c][i] : m.val \in Contents
  /\ out \in [Checkouts -> [Outputs -> Results \cup {None}]]
  /\ \A s \in DOMAIN store : \A k \in store[s] : IsCandidate(k)
  /\ \A c \in Checkouts :
       /\ job[c].pc \in {"idle", "lookup", "try", "fetch", "install", "hit", "start", "run",
                         "capture", "hash", "publish", "send"}
       /\ IsRecord(job[c].files)
       /\ \A k \in job[c].index : IsCandidate(k)
       /\ job[c].cand # None => IsCandidate(job[c].cand)

(***************************************************************************)
(* What a result stored with these digests may have been made from: these  *)
(* contents and no others, from scratch; where it embeds a checkout it is  *)
(* pinned to it, and where it shows diagnostics it says for which width    *)
(* (capture_outputs, capture).                                             *)
(***************************************************************************)
CandidateSound ==
  \A s \in DOMAIN store : \A k \in store[s] : \A o \in Outputs :
    /\ k.out[o].scratch
    /\ \A i \in Inputs :
         k.out[o].read[i] = IF i \in DOMAIN k.files THEN k.files[i] ELSE Absent
    /\ k.out[o].root \in {None, k.pin}
    /\ k.out[o].width # None => k.width = k.out[o].width

(***************************************************************************)
(* What a hit leaves on disk is one whole result that an execution here    *)
(* would give: from contents the inputs had while the job ran, from        *)
(* scratch, with no other checkout's paths and for this terminal's width   *)
(* (validate_candidate, restore_with, the memo of digests.rs).             *)
(***************************************************************************)
HitSound ==
  \A c \in Checkouts : At(c, "hit") =>
    /\ \A o, p \in Outputs : out[c][o] = out[c][p]
    /\ \A o \in Outputs :
         /\ out[c][o] # None /\ out[c][o].scratch
         /\ \A i \in Inputs : out[c][o].read[i] \in job[c].seen[i]
         /\ out[c][o].root \in {None, c}
         /\ out[c][o].width \in {None, job[c].width}
=============================================================================
