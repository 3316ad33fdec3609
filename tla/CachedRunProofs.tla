-------------------------- MODULE CachedRunProofs ---------------------------
(***************************************************************************)
(* What is stored and what a hit leaves on disk, for any checkouts,        *)
(* inputs, contents, edits and clock, as long as no file changes between   *)
(* its check and its hash (Window), no file comes and goes in one          *)
(* execution (Transient), a declared directory is flat (Nested) and no     *)
(* inode serves a file twice in one instant (Reuse): what the code cannot  *)
(* notice otherwise, see the run capture_race.                             *)
(***************************************************************************)
EXTENDS CachedRun, TLAPS

JobFields == {"pc", "width", "key", "listing", "index", "cand", "left", "at", "started", "scratch",
              "cached", "read", "files", "seen"}

Stamped == [val : Contents \cup {Absent}, mtime : Int, ctime : Int, inode : Inodes]

Shapes ==
  /\ file \in [Checkouts -> [Inputs -> Stamped]]
  /\ dir \in [Checkouts -> Int] /\ now \in Nat
  /\ DOMAIN memo = Checkouts
  /\ DOMAIN out = Checkouts /\ \A c \in Checkouts : DOMAIN out[c] = Outputs
  /\ DOMAIN store = Checkouts \cup {Remote}
  /\ DOMAIN job = Checkouts /\ \A c \in Checkouts : DOMAIN job[c] = JobFields
  /\ ~Script => \A c \in Checkouts, i \in Inputs : Present(c, i)

(***************************************************************************)
(* The memo: a digest is of what its file holds as long as the file has    *)
(* its identity.  It is kept only when every later change must show in the *)
(* change time; or of an output of another unit, which Cargo only replaces *)
(* by another file.                                                        *)
(***************************************************************************)
MemoSound(c) ==
  /\ DOMAIN memo[c] = Inputs
  /\ \A i \in Inputs : \A m \in memo[c][i] :
       /\ m.ctime \in Int /\ m.ctime <= file[c][i].ctime
       /\ m.ctime < now - Slack \/ (i \in Units /\ ~Script)
       /\ Same(m, file[c][i]) => m.val = file[c][i].val

(* A candidate is one whole result, made from scratch and from what its      *)
(* digests say, and what it does not record was absent.                      *)
Sound(k) ==
  /\ \A o \in Outputs :
       /\ k.out[o] \in Results /\ k.out[o].scratch
       /\ \A i \in Inputs :
            k.out[o].read[i] = IF i \in DOMAIN k.files THEN k.files[i] ELSE Absent
       /\ k.out[o].root \in {None, k.pin}
       /\ k.out[o].width # None => k.width = k.out[o].width
  /\ \A o, p \in Outputs : k.out[o] = k.out[p]
  /\ Script => Listed \in DOMAIN k.files /\ \A i \in Inputs : i \in k.files[Listed] => i \in DOMAIN k.files
  /\ ~Script => Inputs \subseteq DOMAIN k.files

StoresSound == \A s \in DOMAIN store : \A k \in store[s] : Sound(k)

-----------------------------------------------------------------------------
(* Hits: what the inputs were since the job began includes what they are and *)
(* what the listing says, and what is restored fits it.                      *)
Seen(c) ==
  /\ DOMAIN job[c].seen = Inputs
  /\ \A i \in Inputs : file[c][i].val \in job[c].seen[i]

ListingSeen(c) ==
  watch = "package" => \A i \in Inputs : i \notin job[c].listing => Absent \in job[c].seen[i]

Fitting(c, r) ==
  /\ r # None /\ r.scratch
  /\ \A i \in Inputs : r.read[i] \in job[c].seen[i]
  /\ r.root \in {None, c} /\ r.width \in {None, job[c].width}

HitInv(c) ==
  /\ job[c].pc \in {"lookup", "try", "fetch", "install", "hit"} => Seen(c)
  /\ job[c].pc \in {"try", "fetch", "install"} =>
       ListingSeen(c) /\ \A k \in job[c].index : Sound(k)
  /\ job[c].pc \in {"fetch", "install"} =>
       Sound(job[c].cand) /\ \A o \in Outputs : Fitting(c, job[c].cand.out[o])
  /\ job[c].pc = "install" =>
       \A o \in Outputs : o \notin job[c].left => out[c][o] = job[c].cand.out[o]
  /\ job[c].pc = "hit" =>
       /\ \A o \in Outputs : Fitting(c, out[c][o])
       /\ \A o, p \in Outputs : out[c][o] = out[c][p]

-----------------------------------------------------------------------------
(***************************************************************************)
(* Captures.  What was read of an input is what it is, unless its change   *)
(* time shows otherwise; whether it was there is whether it is there,      *)
(* unless the listing or the directory's stamp shows otherwise.            *)
(***************************************************************************)
Unchanged(c, i, x) ==
  \/ x = file[c][i].val
  \/ i \notin Produced /\ file[c][i].ctime >= job[c].started - Slack

EntryKept(c, i, there) ==
  Script =>
    IF watch = "package"
    THEN /\ i \in job[c].listing /\ ~there => ~Present(c, i)
         /\ i \notin job[c].listing /\ there => Present(c, i)
    ELSE dir[c] >= job[c].started - Slack \/ (there <=> Present(c, i))

Began(c) == job[c].started \in Int /\ job[c].started <= now

RunInv(c) ==
  job[c].pc = "run" =>
    /\ Began(c) /\ job[c].scratch \in BOOLEAN
    /\ job[c].read \in [Inputs -> Contents \cup {Absent, None}]
    /\ \A i \in Inputs \ job[c].left :
         /\ job[c].read[i] \in Contents \cup {Absent}
         /\ Unchanged(c, i, job[c].read[i]) /\ EntryKept(c, i, job[c].read[i] # Absent)

(* What is recorded in the end: the inputs found after the execution.        *)
ToRecord(c) == (job[c].left \cup DOMAIN job[c].files) \ {Listed}

Capturing(c) == job[c].pc \in {"capture", "hash"}

OutputsRead(c) ==
  /\ \A o \in Outputs :
       /\ out[c][o] \in Results /\ out[c][o].scratch
       /\ out[c][o].root \in {None, c} /\ out[c][o].width \in {None, job[c].width}
       /\ \A i \in Inputs :
            Unchanged(c, i, out[c][o].read[i]) /\ EntryKept(c, i, out[c][o].read[i] # Absent)
  /\ \A o, p \in Outputs : out[c][o] = out[c][p]

(* The directory is checked first: from then on, what is to be recorded is   *)
(* what was there for the execution.                                         *)
EntriesRead(c) == \A i \in Inputs, o \in Outputs : i \in ToRecord(c) <=> out[c][o].read[i] # Absent

RecordedSoFar(c) ==
  /\ job[c].left \cup DOMAIN job[c].files \subseteq Inputs \cup {Listed}
  /\ IF Script THEN Listed \in job[c].left \cup DOMAIN job[c].files
     ELSE ToRecord(c) = Inputs /\ Listed \notin job[c].left
  /\ \A i \in Inputs : EntryKept(c, i, i \in ToRecord(c))
  /\ \A i \in Inputs, o \in Outputs : i \in DOMAIN job[c].files => job[c].files[i] = out[c][o].read[i]
  /\ Script /\ Listed \notin job[c].left => EntriesRead(c) /\ job[c].files[Listed] = ToRecord(c)

AboutToHash(c) ==
  /\ job[c].at \in job[c].left
  /\ job[c].at = Listed => EntriesRead(c) /\ Listing(c) = ToRecord(c)
  /\ job[c].at # Listed =>
       /\ Listed \notin job[c].left
       /\ Present(c, job[c].at) => \A o \in Outputs : out[c][o].read[job[c].at] = file[c][job[c].at].val

CaptureInv(c) ==
  /\ Capturing(c) => Began(c) /\ OutputsRead(c) /\ RecordedSoFar(c)
  /\ job[c].pc = "hash" => AboutToHash(c)
  /\ job[c].pc \in {"publish", "send"} => Sound(job[c].cand)

(* Nothing is recorded before the capture. *)
Tidy(c) ==
  /\ job[c].width \in Widths \cup {None}
  /\ ~Capturing(c) => DOMAIN job[c].files = {}

CheckoutInv(c) == MemoSound(c) /\ Tidy(c) /\ HitInv(c) /\ RunInv(c) /\ CaptureInv(c)

RunsInv == Shapes /\ StoresSound /\ \A c \in Checkouts : CheckoutInv(c)

(* What the code cannot notice does not happen. *)
Calm == ~Window /\ ~Transient /\ Nested = {} /\ ~Reuse

-----------------------------------------------------------------------------
(* A checkout in which nothing happens. *)
LEMMA FrameKeeps ==
  ASSUME NEW c \in Checkouts, CheckoutInv(c), now \in Nat, now' \in Nat, now <= now',
         kind' = kind, watch' = watch, file'[c] = file[c], dir'[c] = dir[c],
         memo'[c] = memo[c], out'[c] = out[c], job'[c] = job[c]
  PROVE  CheckoutInv(c)'
<1> USE CachedRunAssumption
<1>1. \A k : Sound(k)' <=> Sound(k)
      BY DEF Sound, Script
<1>2. \A i, x : Unchanged(c, i, x)' <=> Unchanged(c, i, x)
      BY DEF Unchanged
<1>3. \A i, x : EntryKept(c, i, x)' <=> EntryKept(c, i, x)
      BY DEF EntryKept, Script, Present
<1>4. /\ Listing(c)' = Listing(c) /\ ToRecord(c)' = ToRecord(c)
      /\ \A i : Present(c, i)' <=> Present(c, i)
      BY DEF Listing, Present, ToRecord
<1>5. MemoSound(c)'
      BY DEF CheckoutInv, MemoSound, Script
<1>6. HitInv(c)'
      BY <1>1, SMTT(30) DEF CheckoutInv, HitInv, Seen, ListingSeen, Fitting
<1>7. Began(c)' \/ ~Began(c)
      BY DEF Began
<1>8. RunInv(c)'
      BY <1>2, <1>3, <1>7 DEF CheckoutInv, RunInv
<1>9. CaptureInv(c)'
  <2>1. OutputsRead(c)' <=> OutputsRead(c)
        BY <1>2, <1>3 DEF OutputsRead
  <2>2. EntriesRead(c)' <=> EntriesRead(c)
        BY <1>4 DEF EntriesRead
  <2>3. RecordedSoFar(c)' <=> RecordedSoFar(c)
        BY <1>3, <1>4, <2>2 DEF RecordedSoFar, Script
  <2>4. AboutToHash(c)' <=> AboutToHash(c)
        BY <1>4, <2>2 DEF AboutToHash
  <2> QED
      BY <1>1, <1>7, <2>1, <2>3, <2>4 DEF CheckoutInv, CaptureInv, Capturing
<1>10. Tidy(c)'
       BY DEF CheckoutInv, Tidy, Capturing
<1> QED
    BY <1>5, <1>6, <1>8, <1>9, <1>10 DEF CheckoutInv

(* A step of one checkout. *)
LEMMA OneCheckout ==
  ASSUME RunsInv, NEW c \in Checkouts, kind' = kind, watch' = watch, now' = now,
         \A d \in Checkouts \ {c} :
           /\ file'[d] = file[d] /\ dir'[d] = dir[d] /\ memo'[d] = memo[d]
           /\ out'[d] = out[d] /\ job'[d] = job[d],
         Shapes', StoresSound', CheckoutInv(c)'
  PROVE  RunsInv'
<1>1. ASSUME NEW d \in Checkouts PROVE CheckoutInv(d)'
  <2>1. CASE d = c
        BY <2>1
  <2>2. CASE d # c
        BY <2>2, FrameKeeps DEF RunsInv, Shapes
  <2> QED
      BY <2>1, <2>2
<1> QED
    BY <1>1 DEF RunsInv

(* What a step of its wrapper or launcher does beside the job's own state. *)
LEMMA JobMoves ==
  ASSUME RunsInv, NEW c \in Checkouts,
         UNCHANGED <<kind, watch, file, dir, now>>,
         DOMAIN job' = Checkouts, DOMAIN job'[c] = JobFields,
         DOMAIN memo' = Checkouts, DOMAIN out' = Checkouts, DOMAIN out'[c] = Outputs,
         \A d \in Checkouts \ {c} :
           memo'[d] = memo[d] /\ out'[d] = out[d] /\ job'[d] = job[d],
         DOMAIN store' = Checkouts \cup {Remote}, StoresSound', CheckoutInv(c)'
  PROVE  RunsInv'
<1>1. Shapes'
  <2>1. \A d \in Checkouts : DOMAIN out'[d] = Outputs /\ DOMAIN job'[d] = JobFields
        BY DEF RunsInv, Shapes
  <2>2. Script' = Script /\ \A d, i : Present(d, i)' = Present(d, i)
        BY DEF Script, Present
  <2> QED
      BY <2>1, <2>2 DEF RunsInv, Shapes
<1> QED
    BY <1>1, OneCheckout

(* The store is as it was, or has one candidate more. *)
LEMMA StoreKept ==
  ASSUME RunsInv, kind' = kind, store' = store
  PROVE  DOMAIN store' = Checkouts \cup {Remote} /\ StoresSound'
BY DEF RunsInv, Shapes, StoresSound, Sound, Script

LEMMA StoreGrows ==
  ASSUME RunsInv, kind' = kind, NEW s \in Checkouts \cup {Remote}, NEW k, Sound(k),
         store' = [store EXCEPT ![s] = @ \cup {k}]
  PROVE  DOMAIN store' = Checkouts \cup {Remote} /\ StoresSound'
<1>1. \A l : Sound(l)' <=> Sound(l)
      BY DEF Sound, Script
<1> QED
    BY <1>1 DEF RunsInv, Shapes, StoresSound

-----------------------------------------------------------------------------
(* Digests::file: the content, whatever was kept of the file. *)
LEMMA DigestIsContent ==
  ASSUME NEW c, MemoSound(c), NEW i \in Inputs
  PROVE  Digest(c, i) = file[c][i].val
<1>1. CASE Known(c, i)
  <2> DEFINE m == CHOOSE x \in memo[c][i] : Same(x, file[c][i])
  <2>1. m \in memo[c][i] /\ Same(m, file[c][i])
        BY <1>1 DEF Known
  <2>2. Digest(c, i) = m.val
        BY <1>1 DEF Digest
  <2> HIDE DEF m
  <2> QED
      BY <2>1, <2>2 DEF MemoSound
<1>2. CASE ~Known(c, i)
      BY <1>2 DEF Digest
<1> QED
    BY <1>1, <1>2

(* The memo stays sound when digests are added. *)
LEMMA MemoGrows ==
  ASSUME RunsInv, NEW c \in Checkouts, NEW I, memo' = Kept(c, I),
         file' = file, now' = now, kind' = kind
  PROVE  /\ MemoSound(c)' /\ DOMAIN memo' = Checkouts
         /\ \A d \in Checkouts \ {c} : memo'[d] = memo[d]
<1> USE CachedRunAssumption
<1>1. /\ DOMAIN memo' = Checkouts /\ \A d \in Checkouts \ {c} : memo'[d] = memo[d]
      /\ DOMAIN memo'[c] = Inputs
      BY DEF RunsInv, Shapes, Kept
<1>2. \A i \in Inputs :
        \/ memo'[c][i] = memo[c][i]
        \/ /\ memo'[c][i] = memo[c][i] \cup {file[c][i]}
           /\ now - Later(file[c][i].mtime, file[c][i].ctime) > Racy
      BY DEF RunsInv, Shapes, Kept
<1>3. ASSUME NEW i \in Inputs, NEW m \in memo'[c][i]
      PROVE  /\ m.ctime \in Int /\ m.ctime <= file[c][i].ctime
             /\ m.ctime < now - Slack \/ (i \in Units /\ ~Script)
             /\ Same(m, file[c][i]) => m.val = file[c][i].val
  <2>1. CASE m \in memo[c][i]
        BY <2>1 DEF RunsInv, CheckoutInv, MemoSound
  <2>2. CASE m = file[c][i] /\ now - Later(file[c][i].mtime, file[c][i].ctime) > Racy
    <3>1. file[c][i] \in Stamped /\ now \in Nat
          BY DEF RunsInv, Shapes
    <3>2. file[c][i].mtime \in Int /\ file[c][i].ctime \in Int
          BY <3>1 DEF Stamped
    <3> QED
        BY <2>2, <3>1, <3>2 DEF Later
  <2> QED
      BY <1>2, <2>1, <2>2
<1> QED
    BY <1>1, <1>3 DEF MemoSound, Script

LEMMA MemoKept ==
  ASSUME RunsInv, NEW c \in Checkouts, memo' = memo, file' = file, now' = now, kind' = kind
  PROVE  /\ MemoSound(c)' /\ DOMAIN memo' = Checkouts
         /\ \A d \in Checkouts \ {c} : memo'[d] = memo[d]
BY DEF RunsInv, Shapes, CheckoutInv, MemoSound, Script

-----------------------------------------------------------------------------
(* A job that is over, and one that has not started to run. *)
LEMMA AtRest ==
  ASSUME NEW c, MemoSound(c)', Tidy(c)', job'[c].pc \in {"idle", "start"}
  PROVE  CheckoutInv(c)'
BY DEF CheckoutInv, HitInv, RunInv, CaptureInv, Capturing

LEMMA EndsIdle ==
  ASSUME RunsInv, NEW c \in Checkouts, job' = [job EXCEPT ![c] = Idle],
         UNCHANGED <<kind, watch, file, dir, memo, now>>,
         DOMAIN out' = Checkouts, DOMAIN out'[c] = Outputs,
         \A d \in Checkouts \ {c} : out'[d] = out[d],
         DOMAIN store' = Checkouts \cup {Remote}, StoresSound'
  PROVE  RunsInv'
<1>1. /\ DOMAIN job' = Checkouts /\ job'[c] = Idle
      /\ \A d \in Checkouts \ {c} : job'[d] = job[d]
      BY DEF RunsInv, Shapes
<1>2. DOMAIN Idle = JobFields /\ Idle.pc = "idle" /\ Idle.width = None /\ DOMAIN Idle.files = {}
      BY DEF Idle, JobFields
<1>3. CheckoutInv(c)'
  <2>1. Tidy(c)'
        BY <1>1, <1>2 DEF Tidy
  <2> QED
      BY <1>1, <1>2, <2>1, MemoKept, AtRest
<1> QED
    BY <1>1, <1>2, <1>3, MemoKept, JobMoves

(* The steps that end a job. *)
LEMMA EndingSteps ==
  ASSUME RunsInv, NEW c \in Checkouts,
         \/ RunFails(c) \/ NotStored(c) \/ HashFails(c) \/ Done(c) \/ Kill(c)
  PROVE  RunsInv'
<1>1. /\ job' = [job EXCEPT ![c] = Idle]
      /\ UNCHANGED <<kind, watch, file, dir, memo, now, out, store>>
      BY DEF RunFails, NotStored, HashFails, Done, Kill
<1>2. DOMAIN store' = Checkouts \cup {Remote} /\ StoresSound'
      BY <1>1, StoreKept
<1>3. DOMAIN out' = Checkouts /\ DOMAIN out'[c] = Outputs
      BY <1>1 DEF RunsInv, Shapes
<1> QED
    BY <1>1, <1>2, <1>3, EndsIdle

LEMMA PublishRemoteStep ==
  ASSUME RunsInv, NEW c \in Checkouts, PublishRemote(c)
  PROVE  RunsInv'
<1>1. /\ job' = [job EXCEPT ![c] = Idle]
      /\ UNCHANGED <<kind, watch, file, dir, memo, now, out>>
      /\ store' = [store EXCEPT ![Remote] = @ \cup {job[c].cand}]
      BY DEF PublishRemote, Publish
<1>2. Sound(job[c].cand)
      BY DEF PublishRemote, At, RunsInv, CheckoutInv, CaptureInv
<1>3. DOMAIN store' = Checkouts \cup {Remote} /\ StoresSound'
      BY <1>1, <1>2, StoreGrows
<1>4. DOMAIN out' = Checkouts /\ DOMAIN out'[c] = Outputs
      BY <1>1 DEF RunsInv, Shapes
<1> QED
    BY <1>1, <1>3, <1>4, EndsIdle

-----------------------------------------------------------------------------
(* A job that begins has seen what its inputs are. *)
LEMMA BeginsSeen ==
  ASSUME RunsInv, NEW c \in Checkouts, NEW w, NEW begun, Begins(c, w, begun),
         DOMAIN begun = JobFields
  PROVE  /\ DOMAIN job' = Checkouts /\ DOMAIN job'[c] = JobFields
         /\ job'[c].width = w /\ Seen(c)'
         /\ \A x \in JobFields \ {"width", "seen"} : job'[c][x] = begun[x]
         /\ \A d \in Checkouts \ {c} : job'[d] = job[d]
         /\ UNCHANGED <<kind, watch, file, dir, out, store, now>>
<1> DEFINE seen == [i \in Inputs |-> {file[c][i].val}]
           now1 == [begun EXCEPT !.width = w, !.seen = seen]
<1>1. job' = [job EXCEPT ![c] = now1] /\ UNCHANGED <<kind, watch, file, dir, out, store, now>>
      BY DEF Begins
<1>2. /\ DOMAIN now1 = JobFields /\ now1.width = w /\ now1.seen = seen
      /\ \A x \in JobFields \ {"width", "seen"} : now1[x] = begun[x]
      BY DEF JobFields
<1> HIDE DEF now1
<1>3. /\ DOMAIN job' = Checkouts /\ job'[c] = now1
      /\ \A d \in Checkouts \ {c} : job'[d] = job[d]
      BY <1>1 DEF RunsInv, Shapes
<1>4. Seen(c)'
      BY <1>1, <1>2, <1>3 DEF Seen
<1> QED
    BY <1>1, <1>2, <1>3, <1>4

LEMMA IdentifyStep ==
  ASSUME RunsInv, NEW c \in Checkouts, NEW w \in Widths \cup {None}, Identify(c, w)
  PROVE  RunsInv'
<1> DEFINE hashed == IF Script THEN {} ELSE Explicit
           key    == [i \in hashed |-> Digest(c, i)]
           begun  == [Idle EXCEPT !.pc = "lookup", !.key = key]
<1>1. Begins(c, w, begun) /\ memo' = Kept(c, hashed)
      BY DEF Identify
<1>2. DOMAIN begun = JobFields /\ begun.pc = "lookup" /\ DOMAIN begun.files = {}
      BY DEF Idle, JobFields
<1> HIDE DEF begun, hashed
<1>3. /\ DOMAIN job' = Checkouts /\ DOMAIN job'[c] = JobFields
      /\ job'[c].width = w /\ Seen(c)'
      /\ job'[c].pc = "lookup" /\ DOMAIN job'[c].files = {}
      /\ \A d \in Checkouts \ {c} : job'[d] = job[d]
      /\ UNCHANGED <<kind, watch, file, dir, out, store, now>>
      BY <1>1, <1>2, BeginsSeen DEF JobFields
<1>4. /\ MemoSound(c)' /\ DOMAIN memo' = Checkouts
      /\ \A d \in Checkouts \ {c} : memo'[d] = memo[d]
      BY <1>1, <1>3, MemoGrows
<1>5. CheckoutInv(c)'
      BY <1>3, <1>4 DEF CheckoutInv, Tidy, Capturing, HitInv, RunInv, CaptureInv
<1>6. DOMAIN store' = Checkouts \cup {Remote} /\ StoresSound'
      BY <1>3, StoreKept
<1>7. DOMAIN out' = Checkouts /\ DOMAIN out'[c] = Outputs
      BY <1>3 DEF RunsInv, Shapes
<1> QED
    BY <1>3, <1>4, <1>5, <1>6, <1>7, JobMoves

(* A run that begins has read nothing. *)
LEMMA RunBegins ==
  ASSUME RunsInv, NEW c \in Checkouts, MemoSound(c)', now' = now,
         job'[c].pc = "run", job'[c].width \in Widths \cup {None}, DOMAIN job'[c].files = {},
         job'[c].started \in Nat, job'[c].started <= now, job'[c].scratch \in BOOLEAN,
         job'[c].read = [i \in Inputs |-> None], job'[c].left = Inputs
  PROVE  CheckoutInv(c)'
<1>1. Began(c)'
      BY DEF Began
<1>2. RunInv(c)'
      BY <1>1 DEF RunInv
<1> QED
    BY <1>2 DEF CheckoutInv, Tidy, Capturing, HitInv, CaptureInv

LEMMA UncachedShape ==
  /\ DOMAIN Uncached = JobFields /\ Uncached.pc = "run" /\ DOMAIN Uncached.files = {}
  /\ Uncached.started = 0 /\ Uncached.scratch = FALSE /\ Uncached.width = None
  /\ Uncached.read = [i \in Inputs |-> None] /\ Uncached.left = Inputs
BY DEF Uncached, Idle, JobFields

LEMMA BypassStep ==
  ASSUME RunsInv, NEW c \in Checkouts, Bypass(c)
  PROVE  RunsInv'
<1>1. Begins(c, None, Uncached) /\ memo' = memo
      BY DEF Bypass
<1>2. /\ DOMAIN job' = Checkouts /\ DOMAIN job'[c] = JobFields
      /\ job'[c].width = None
      /\ \A x \in JobFields \ {"width", "seen"} : job'[c][x] = Uncached[x]
      /\ \A d \in Checkouts \ {c} : job'[d] = job[d]
      /\ UNCHANGED <<kind, watch, file, dir, out, store, now>>
      BY <1>1, BeginsSeen, UncachedShape
<1>3. /\ job'[c].pc = "run" /\ DOMAIN job'[c].files = {}
      /\ job'[c].started = 0 /\ job'[c].scratch = FALSE
      /\ job'[c].read = [i \in Inputs |-> None] /\ job'[c].left = Inputs
      BY <1>2, UncachedShape DEF JobFields
<1>4. CheckoutInv(c)'
  <2>1. now \in Nat
        BY DEF RunsInv, Shapes
  <2>2. job'[c].started \in Nat /\ job'[c].started <= now
        BY <1>3, <2>1
  <2>3. job'[c].scratch \in BOOLEAN
        BY <1>3, Zenon
  <2>4. MemoSound(c)'
        BY <1>1, <1>2, MemoKept
  <2> QED
      BY <1>2, <1>3, <2>2, <2>3, <2>4, RunBegins
<1>5. DOMAIN store' = Checkouts \cup {Remote} /\ StoresSound'
      BY <1>2, StoreKept
<1>6. DOMAIN out' = Checkouts /\ DOMAIN out'[c] = Outputs
      BY <1>2 DEF RunsInv, Shapes
<1> QED
    BY <1>1, <1>2, <1>4, <1>5, <1>6, MemoKept, JobMoves

LEMMA StartStep ==
  ASSUME RunsInv, NEW c \in Checkouts, Start(c)
  PROVE  RunsInv'
<1> DEFINE found == IF watch = "package" THEN Listing(c) ELSE {}
           fresh == FromScratch(c)
           none  == [i \in Inputs |-> None]
           run   == [job[c] EXCEPT !.pc = "run", !.started = now, !.cached = TRUE,
                       !.scratch = fresh, !.left = Inputs, !.read = none, !.listing = found]
<1>1. /\ job' = [job EXCEPT ![c] = run]
      /\ UNCHANGED <<kind, watch, file, dir, memo, out, store, now>>
      BY DEF Start, RunsInv, Shapes
<1>2. fresh \in BOOLEAN
      BY DEF FromScratch
<1> HIDE DEF found, fresh
<1>3. DOMAIN job[c] = JobFields /\ At(c, "start") /\ CheckoutInv(c) /\ now \in Nat
      BY DEF RunsInv, Shapes, Start
<1>4. /\ DOMAIN run = JobFields /\ run.pc = "run" /\ run.started = now /\ run.scratch = fresh
      /\ run.left = Inputs /\ run.read = none /\ run.width = job[c].width
      /\ run.files = job[c].files
      BY <1>3 DEF JobFields
<1> HIDE DEF run
<1>5. /\ DOMAIN job' = Checkouts /\ job'[c] = run
      /\ \A d \in Checkouts \ {c} : job'[d] = job[d]
      BY <1>1 DEF RunsInv, Shapes
<1>6. run.width \in Widths \cup {None} /\ DOMAIN run.files = {}
      BY <1>3, <1>4 DEF CheckoutInv, Tidy, Capturing, At
<1>7. MemoSound(c)'
      BY <1>1, MemoKept
<1>8. CheckoutInv(c)'
  <2>1. run.started \in Nat /\ run.started <= now /\ run.scratch \in BOOLEAN
        BY <1>2, <1>3, <1>4
  <2> QED
      BY <1>1, <1>4, <1>5, <1>6, <1>7, <2>1, RunBegins
<1>9. DOMAIN store' = Checkouts \cup {Remote} /\ StoresSound'
      BY <1>1, StoreKept
<1>10. DOMAIN out' = Checkouts /\ DOMAIN out'[c] = Outputs
       BY <1>1 DEF RunsInv, Shapes
<1> QED
    BY <1>1, <1>4, <1>5, <1>8, <1>9, <1>10, MemoKept, JobMoves

(* A step that moves the job on and leaves all files as they are. *)
LEMMA JobOnly ==
  ASSUME RunsInv, NEW c \in Checkouts, NEW w, DOMAIN w = JobFields,
         job' = [job EXCEPT ![c] = w],
         UNCHANGED <<kind, watch, file, dir, memo, out, store, now>>,
         job'[c] = w => CheckoutInv(c)'
  PROVE  RunsInv'
<1>1. /\ DOMAIN job' = Checkouts /\ job'[c] = w
      /\ \A d \in Checkouts \ {c} : job'[d] = job[d]
      BY DEF RunsInv, Shapes
<1>2. DOMAIN store' = Checkouts \cup {Remote} /\ StoresSound'
      BY StoreKept
<1>3. DOMAIN out' = Checkouts /\ DOMAIN out'[c] = Outputs
      BY DEF RunsInv, Shapes
<1> QED
    BY <1>1, <1>2, <1>3, MemoKept, JobMoves

LEMMA LookupStep ==
  ASSUME RunsInv, NEW c \in Checkouts, Lookup(c) \/ LookupFails(c)
  PROVE  RunsInv'
<1> DEFINE found == IF watch = "package" THEN Listing(c) ELSE {}
           try(S) == [job[c] EXCEPT !.pc = "try", !.index = S, !.listing = found]
<1>1. PICK S : /\ job' = [job EXCEPT ![c] = try(S)]
               /\ S \subseteq store[c] \cup store[Remote]
               /\ UNCHANGED <<kind, watch, file, dir, memo, out, store, now>>
  <2>1. CASE Lookup(c)
    <3>1. /\ job' = [job EXCEPT ![c] = try({k \in store[c] \cup store[Remote] : k.key = job[c].key})]
          /\ UNCHANGED <<kind, watch, file, dir, memo, out, store, now>>
          BY <2>1 DEF Lookup, RunsInv, Shapes
    <3> HIDE DEF try
    <3> QED
        BY <3>1
  <2>2. CASE LookupFails(c)
    <3>1. /\ job' = [job EXCEPT ![c] = try({k \in store[c] : k.key = job[c].key})]
          /\ UNCHANGED <<kind, watch, file, dir, memo, out, store, now>>
          BY <2>2 DEF LookupFails, RunsInv, Shapes
    <3> HIDE DEF try
    <3> QED
        BY <3>1
  <2> QED
      BY <2>1, <2>2
<1>2. DOMAIN job[c] = JobFields /\ At(c, "lookup") /\ CheckoutInv(c)
      BY DEF RunsInv, Shapes, Lookup, LookupFails
<1> DEFINE w == try(S)
<1>3. /\ DOMAIN w = JobFields /\ w.pc = "try" /\ w.index = S /\ w.listing = found
      /\ w.width = job[c].width /\ w.files = job[c].files /\ w.seen = job[c].seen
      BY <1>2 DEF JobFields
<1>4. job' = [job EXCEPT ![c] = w]
      BY <1>1
<1> HIDE DEF try, w
<1>5. ASSUME job'[c] = w PROVE CheckoutInv(c)'
  <2>1. \A k \in S : Sound(k)'
    <3>1. \A k \in store[c] \cup store[Remote] : Sound(k)
          BY DEF RunsInv, Shapes, StoresSound
    <3> QED
        BY <1>1, <3>1 DEF Sound, Script
  <2>2. Seen(c)'
        BY <1>1, <1>2, <1>3, <1>5 DEF CheckoutInv, HitInv, At, Seen
  <2>3. ListingSeen(c)'
        BY <1>1, <1>2, <1>3, <1>5 DEF CheckoutInv, HitInv, At, Seen, ListingSeen, Listing, Present
  <2>4. HitInv(c)'
        BY <1>3, <1>5, <2>1, <2>2, <2>3 DEF HitInv
  <2>5. Tidy(c)'
        BY <1>2, <1>3, <1>5 DEF CheckoutInv, Tidy, Capturing, At
  <2> QED
      BY <1>1, <1>3, <1>5, <2>4, <2>5, MemoKept DEF CheckoutInv, RunInv, CaptureInv, Capturing
<1> QED
    BY <1>1, <1>3, <1>4, <1>5, JobOnly

-----------------------------------------------------------------------------
(***************************************************************************)
(* validate_candidate: what fits was made from contents the inputs have,   *)
(* or had when the package was listed.                                     *)
(***************************************************************************)
LEMMA FitsIsFitting ==
  ASSUME RunsInv, NEW c \in Checkouts, At(c, "try"), NEW k, Sound(k), Fits(c, k), NEW o \in Outputs
  PROVE  Fitting(c, k.out[o])
<1> DEFINE r == k.out[o]
<1> USE CachedRunAssumption
<1>1. /\ MemoSound(c) /\ Seen(c) /\ ListingSeen(c)
      BY DEF RunsInv, CheckoutInv, HitInv, At
<1>2. /\ r \in Results /\ r.scratch /\ r.root \in {None, k.pin}
      /\ r.width # None => k.width = r.width
      BY DEF Sound
<1>3. r # None /\ r.width \in Widths \cup {None}
      BY <1>2 DEF Results
<1>4. ASSUME NEW i \in Inputs PROVE r.read[i] \in job[c].seen[i]
  <2>1. CASE i \in DOMAIN k.files
    <3>1. i # Listed
          BY DEF Listed
    <3>2. Digest(c, i) = k.files[i]
          BY <2>1, <3>1 DEF Fits
    <3>3. r.read[i] = file[c][i].val
          BY <1>1, <2>1, <3>2, DigestIsContent DEF Sound
    <3> QED
        BY <1>1, <3>3 DEF Seen
  <2>2. CASE i \notin DOMAIN k.files
    <3>1. r.read[i] = Absent
          BY <2>2 DEF Sound
    <3>2. Listed \in DOMAIN k.files /\ i \notin k.files[Listed]
          BY <2>2 DEF Sound
    <3>3. CASE watch = "package"
          BY <1>1, <3>1, <3>2, <3>3 DEF Fits, ListingSeen
    <3>4. CASE watch # "package"
      <4>1. i \notin Listing(c)
            BY <3>2, <3>4 DEF Fits
      <4> QED
          BY <1>1, <3>1, <4>1 DEF Listing, Present, Seen
    <3> QED
        BY <3>3, <3>4
  <2> QED
      BY <2>1, <2>2
<1>5. r.root \in {None, c}
      BY <1>2 DEF Fits
<1>6. r.width \in {None, job[c].width}
      BY <1>2, <1>3 DEF Fits
<1> QED
    BY <1>2, <1>3, <1>4, <1>5, <1>6 DEF Fitting

LEMMA AcceptStep ==
  ASSUME RunsInv, NEW c \in Checkouts, NEW k, Accept(c, k)
  PROVE  RunsInv'
<1> DEFINE w == [job[c] EXCEPT !.pc = "fetch", !.cand = k]
<1>1. /\ job' = [job EXCEPT ![c] = w] /\ memo' = Kept(c, DOMAIN k.files)
      /\ UNCHANGED <<kind, watch, file, dir, out, store, now>>
      BY DEF Accept, RunsInv, Shapes
<1>2. DOMAIN job[c] = JobFields /\ At(c, "try") /\ CheckoutInv(c) /\ k \in job[c].index /\ Fits(c, k)
      BY DEF RunsInv, Shapes, Accept
<1>3. /\ DOMAIN w = JobFields /\ w.pc = "fetch" /\ w.cand = k /\ w.index = job[c].index
      /\ w.listing = job[c].listing
      /\ w.width = job[c].width /\ w.files = job[c].files /\ w.seen = job[c].seen
      BY <1>2 DEF JobFields
<1> HIDE DEF w
<1>4. /\ DOMAIN job' = Checkouts /\ job'[c] = w
      /\ \A d \in Checkouts \ {c} : job'[d] = job[d]
      BY <1>1 DEF RunsInv, Shapes
<1>5. /\ MemoSound(c)' /\ DOMAIN memo' = Checkouts
      /\ \A d \in Checkouts \ {c} : memo'[d] = memo[d]
      BY <1>1, MemoGrows
<1>6. Sound(k) /\ Seen(c) /\ ListingSeen(c) /\ \A l \in job[c].index : Sound(l)
      BY <1>2 DEF CheckoutInv, HitInv, At
<1>7. \A o \in Outputs : Fitting(c, k.out[o])
      BY <1>2, <1>6, FitsIsFitting
<1>8. \A l : Sound(l)' <=> Sound(l)
      BY <1>1 DEF Sound, Script
<1>9. CheckoutInv(c)'
  <2>1. Seen(c)' /\ ListingSeen(c)' /\ \A o \in Outputs : Fitting(c, k.out[o])'
        BY <1>1, <1>3, <1>4, <1>6, <1>7 DEF Seen, ListingSeen, Fitting
  <2>2. HitInv(c)'
        BY <1>3, <1>4, <1>6, <1>8, <2>1 DEF HitInv
  <2>3. Tidy(c)'
        BY <1>2, <1>3, <1>4 DEF CheckoutInv, Tidy, Capturing, At
  <2> QED
      BY <1>3, <1>4, <1>5, <2>2, <2>3 DEF CheckoutInv, RunInv, CaptureInv, Capturing
<1>10. DOMAIN store' = Checkouts \cup {Remote} /\ StoresSound'
       BY <1>1, StoreKept
<1>11. DOMAIN out' = Checkouts /\ DOMAIN out'[c] = Outputs
       BY <1>1 DEF RunsInv, Shapes
<1> QED
    BY <1>1, <1>3, <1>4, <1>5, <1>9, <1>10, <1>11, JobMoves

LEMMA MissStep ==
  ASSUME RunsInv, NEW c \in Checkouts, Miss(c)
  PROVE  RunsInv'
<1> DEFINE w == [job[c] EXCEPT !.pc = "start", !.index = {}]
           I == UNION {DOMAIN k.files : k \in job[c].index}
<1>1. /\ job' = [job EXCEPT ![c] = w] /\ memo' = Kept(c, I)
      /\ UNCHANGED <<kind, watch, file, dir, out, store, now>>
      BY DEF Miss, RunsInv, Shapes
<1>2. DOMAIN job[c] = JobFields /\ At(c, "try") /\ CheckoutInv(c)
      BY DEF RunsInv, Shapes, Miss
<1>3. /\ DOMAIN w = JobFields /\ w.pc = "start"
      /\ w.width = job[c].width /\ w.files = job[c].files
      BY <1>2 DEF JobFields
<1> HIDE DEF w, I
<1>4. /\ DOMAIN job' = Checkouts /\ job'[c] = w
      /\ \A d \in Checkouts \ {c} : job'[d] = job[d]
      BY <1>1 DEF RunsInv, Shapes
<1>5. /\ MemoSound(c)' /\ DOMAIN memo' = Checkouts
      /\ \A d \in Checkouts \ {c} : memo'[d] = memo[d]
      BY <1>1, MemoGrows
<1>6. Tidy(c)'
      BY <1>2, <1>3, <1>4 DEF CheckoutInv, Tidy, Capturing, At
<1>7. CheckoutInv(c)'
      BY <1>3, <1>4, <1>5, <1>6, AtRest
<1>8. DOMAIN store' = Checkouts \cup {Remote} /\ StoresSound'
      BY <1>1, StoreKept
<1>9. DOMAIN out' = Checkouts /\ DOMAIN out'[c] = Outputs
      BY <1>1 DEF RunsInv, Shapes
<1> QED
    BY <1>1, <1>3, <1>4, <1>5, <1>7, <1>8, <1>9, JobMoves

-----------------------------------------------------------------------------
(* The steps of a restore: what is in place is the candidate's. *)
LEMMA FetchStep ==
  ASSUME RunsInv, NEW c \in Checkouts, Fetch(c)
  PROVE  RunsInv'
<1> DEFINE w == [job[c] EXCEPT !.pc = "install", !.left = Outputs]
           none == [o \in Outputs |-> None]
<1>1. /\ job' = [job EXCEPT ![c] = w]
      /\ UNCHANGED <<kind, watch, file, dir, memo, store, now>>
      BY DEF Fetch, RunsInv, Shapes
<1>2. DOMAIN job[c] = JobFields /\ At(c, "fetch") /\ CheckoutInv(c)
      BY DEF RunsInv, Shapes, Fetch
<1>3. /\ DOMAIN w = JobFields /\ w.pc = "install" /\ w.cand = job[c].cand /\ w.index = job[c].index
      /\ w.listing = job[c].listing /\ w.left = Outputs
      /\ w.width = job[c].width /\ w.files = job[c].files /\ w.seen = job[c].seen
      BY <1>2 DEF JobFields
<1> HIDE DEF w
<1>4. /\ DOMAIN job' = Checkouts /\ job'[c] = w
      /\ \A d \in Checkouts \ {c} : job'[d] = job[d]
      BY <1>1 DEF RunsInv, Shapes
<1>5. out' = out \/ out' = [out EXCEPT ![c] = none]
      BY DEF Fetch
<1>6. /\ DOMAIN out' = Checkouts /\ DOMAIN out'[c] = Outputs
      /\ \A d \in Checkouts \ {c} : out'[d] = out[d]
      BY <1>5 DEF RunsInv, Shapes
<1>7. CheckoutInv(c)'
  <2>1. \A l : Sound(l)' <=> Sound(l)
        BY <1>1 DEF Sound, Script
  <2>2. HitInv(c)'
        BY <1>1, <1>2, <1>3, <1>4, <2>1
        DEF CheckoutInv, HitInv, At, Seen, ListingSeen, Fitting
  <2>3. Tidy(c)'
        BY <1>2, <1>3, <1>4 DEF CheckoutInv, Tidy, Capturing, At
  <2> QED
      BY <1>1, <1>3, <1>4, <2>2, <2>3, MemoKept DEF CheckoutInv, RunInv, CaptureInv, Capturing
<1>8. DOMAIN store' = Checkouts \cup {Remote} /\ StoresSound'
      BY <1>1, StoreKept
<1> QED
    BY <1>1, <1>3, <1>4, <1>6, <1>7, <1>8, MemoKept, JobMoves

LEMMA InstallStep ==
  ASSUME RunsInv, NEW c \in Checkouts, NEW o \in Outputs, Install(c, o)
  PROVE  RunsInv'
<1> DEFINE w == [job[c] EXCEPT !.left = @ \ {o}]
<1>1. /\ job' = [job EXCEPT ![c] = w]
      /\ out' = [out EXCEPT ![c][o] = job[c].cand.out[o]]
      /\ UNCHANGED <<kind, watch, file, dir, memo, store, now>>
      BY DEF Install, RunsInv, Shapes
<1>2. DOMAIN job[c] = JobFields /\ At(c, "install") /\ CheckoutInv(c)
      BY DEF RunsInv, Shapes, Install
<1>3. /\ DOMAIN w = JobFields /\ w.pc = "install" /\ w.cand = job[c].cand /\ w.index = job[c].index
      /\ w.listing = job[c].listing /\ w.left = job[c].left \ {o}
      /\ w.width = job[c].width /\ w.files = job[c].files /\ w.seen = job[c].seen
      BY <1>2 DEF JobFields, At
<1> HIDE DEF w
<1>4. /\ DOMAIN job' = Checkouts /\ job'[c] = w
      /\ \A d \in Checkouts \ {c} : job'[d] = job[d]
      BY <1>1 DEF RunsInv, Shapes
<1>5. DOMAIN out = Checkouts /\ DOMAIN out[c] = Outputs
      BY DEF RunsInv, Shapes
<1>6. /\ DOMAIN out' = Checkouts /\ DOMAIN out'[c] = Outputs
      /\ \A d \in Checkouts \ {c} : out'[d] = out[d]
      /\ out'[c][o] = job[c].cand.out[o]
      /\ \A p \in Outputs \ {o} : out'[c][p] = out[c][p]
      BY <1>1, <1>5
<1>7. CheckoutInv(c)'
  <2>1. \A l : Sound(l)' <=> Sound(l)
        BY <1>1 DEF Sound, Script
  <2>2. \A p \in Outputs : p \notin w.left => out'[c][p] = w.cand.out[p]
        BY <1>2, <1>3, <1>6 DEF CheckoutInv, HitInv, At
  <2>3. HitInv(c)'
    <3>1. /\ Seen(c) /\ ListingSeen(c) /\ \A k \in job[c].index : Sound(k)
          /\ Sound(job[c].cand) /\ \A p \in Outputs : Fitting(c, job[c].cand.out[p])
          BY <1>2 DEF CheckoutInv, HitInv, At
    <3>2. Seen(c)' /\ ListingSeen(c)' /\ \A r : Fitting(c, r)' <=> Fitting(c, r)
          BY <1>1, <1>3, <1>4, <3>1 DEF Seen, ListingSeen, Fitting
    <3> QED
        BY <1>3, <1>4, <2>1, <2>2, <3>1, <3>2 DEF HitInv
  <2>4. Tidy(c)'
        BY <1>2, <1>3, <1>4 DEF CheckoutInv, Tidy, Capturing, At
  <2> QED
      BY <1>1, <1>3, <1>4, <2>3, <2>4, MemoKept DEF CheckoutInv, RunInv, CaptureInv, Capturing
<1>8. DOMAIN store' = Checkouts \cup {Remote} /\ StoresSound'
      BY <1>1, StoreKept
<1> QED
    BY <1>1, <1>3, <1>4, <1>6, <1>7, <1>8, MemoKept, JobMoves

LEMMA RestoreFailsStep ==
  ASSUME RunsInv, NEW c \in Checkouts, RestoreFails(c)
  PROVE  RunsInv'
<1> DEFINE w == [job[c] EXCEPT !.pc = "try", !.index = @ \ {job[c].cand}, !.cand = None, !.left = {}]
<1>1. /\ job' = [job EXCEPT ![c] = w]
      /\ UNCHANGED <<kind, watch, file, dir, memo, out, store, now>>
      BY DEF RestoreFails, RunsInv, Shapes
<1>2. DOMAIN job[c] = JobFields /\ (At(c, "fetch") \/ At(c, "install")) /\ CheckoutInv(c)
      BY DEF RunsInv, Shapes, RestoreFails
<1>3. /\ DOMAIN w = JobFields /\ w.pc = "try" /\ w.index \subseteq job[c].index
      /\ w.listing = job[c].listing
      /\ w.width = job[c].width /\ w.files = job[c].files /\ w.seen = job[c].seen
      BY <1>2 DEF JobFields
<1> HIDE DEF w
<1>4. ASSUME job'[c] = w PROVE CheckoutInv(c)'
  <2>1. \A l : Sound(l)' <=> Sound(l)
        BY <1>1 DEF Sound, Script
  <2>2. HitInv(c)'
        BY <1>1, <1>2, <1>3, <1>4, <2>1 DEF CheckoutInv, HitInv, At, Seen, ListingSeen
  <2>3. Tidy(c)'
        BY <1>2, <1>3, <1>4 DEF CheckoutInv, Tidy, Capturing, At
  <2> QED
      BY <1>1, <1>3, <1>4, <2>2, <2>3, MemoKept DEF CheckoutInv, RunInv, CaptureInv, Capturing
<1> QED
    BY <1>1, <1>3, <1>4, JobOnly

LEMMA HitStep ==
  ASSUME RunsInv, NEW c \in Checkouts, Hit(c)
  PROVE  RunsInv'
<1> DEFINE w == [job[c] EXCEPT !.pc = "hit", !.index = {}, !.cand = None]
<1>1. /\ job' = [job EXCEPT ![c] = w] /\ job[c].left = {}
      /\ UNCHANGED <<kind, watch, file, dir, memo, out, now>>
      BY DEF Hit, RunsInv, Shapes
<1>2. DOMAIN job[c] = JobFields /\ At(c, "install") /\ CheckoutInv(c)
      BY DEF RunsInv, Shapes, Hit
<1>3. /\ DOMAIN w = JobFields /\ w.pc = "hit"
      /\ w.width = job[c].width /\ w.files = job[c].files /\ w.seen = job[c].seen
      BY <1>2 DEF JobFields
<1> HIDE DEF w
<1>4. /\ DOMAIN job' = Checkouts /\ job'[c] = w
      /\ \A d \in Checkouts \ {c} : job'[d] = job[d]
      BY <1>1 DEF RunsInv, Shapes
<1>5. /\ Sound(job[c].cand) /\ Seen(c)
      /\ \A o \in Outputs : out[c][o] = job[c].cand.out[o] /\ Fitting(c, out[c][o])
      BY <1>1, <1>2 DEF CheckoutInv, HitInv, At
<1>6. CheckoutInv(c)'
  <2>1. \A o, p \in Outputs : out[c][o] = out[c][p]
        BY <1>5 DEF Sound
  <2>2. HitInv(c)'
        BY <1>1, <1>3, <1>4, <1>5, <2>1 DEF HitInv, Seen, Fitting
  <2>3. Tidy(c)'
        BY <1>2, <1>3, <1>4 DEF CheckoutInv, Tidy, Capturing, At
  <2> QED
      BY <1>1, <1>3, <1>4, <2>2, <2>3, MemoKept DEF CheckoutInv, RunInv, CaptureInv, Capturing
<1>7. DOMAIN store' = Checkouts \cup {Remote} /\ StoresSound'
  <2>1. CASE store' = store
        BY <1>1, <2>1, StoreKept
  <2>2. CASE store' = [store EXCEPT ![c] = @ \cup {job[c].cand}]
        BY <1>1, <1>5, <2>2, StoreGrows
  <2> QED
      BY <2>1, <2>2 DEF Hit
<1>8. DOMAIN out' = Checkouts /\ DOMAIN out'[c] = Outputs
      BY <1>1 DEF RunsInv, Shapes
<1> QED
    BY <1>1, <1>3, <1>4, <1>6, <1>7, <1>8, MemoKept, JobMoves

-----------------------------------------------------------------------------
(* What was read stays read: the steps of a run leave the files alone. *)
LEMMA ReadStep ==
  ASSUME RunsInv, NEW c \in Checkouts, NEW i \in Inputs, Read(c, i)
  PROVE  RunsInv'
<1> DEFINE read == [job[c].read EXCEPT ![i] = file[c][i].val]
           w == [job[c] EXCEPT !.left = @ \ {i}, !.read = read]
<1>1. /\ job' = [job EXCEPT ![c] = w]
      /\ UNCHANGED <<kind, watch, file, dir, memo, out, store, now>>
      BY DEF Read, RunsInv, Shapes, JobFields
<1>2. DOMAIN job[c] = JobFields /\ At(c, "run") /\ CheckoutInv(c)
      BY DEF RunsInv, Shapes, Read
<1>3. /\ DOMAIN w = JobFields /\ w.pc = "run" /\ w.left = job[c].left \ {i} /\ w.read = read
      /\ w.listing = job[c].listing /\ w.started = job[c].started /\ w.scratch = job[c].scratch
      /\ w.width = job[c].width /\ w.files = job[c].files
      BY <1>2 DEF JobFields, At
<1> HIDE DEF w
<1>4. ASSUME job'[c] = w PROVE CheckoutInv(c)'
  <2>1. RunInv(c) /\ file[c][i].val \in Contents \cup {Absent}
        BY <1>2 DEF CheckoutInv, RunsInv, Shapes, Stamped
  <2>2. /\ read \in [Inputs -> Contents \cup {Absent, None}] /\ read[i] = file[c][i].val
        /\ \A j \in Inputs \ {i} : read[j] = job[c].read[j]
        BY <1>2, <2>1 DEF RunInv, At
  <2>3. \A j, x : /\ Unchanged(c, j, x)' <=> Unchanged(c, j, x)
                  /\ EntryKept(c, j, x)' <=> EntryKept(c, j, x)
        BY <1>1, <1>3, <1>4 DEF Unchanged, EntryKept, Script, Present
  <2>4. Unchanged(c, i, read[i]) /\ EntryKept(c, i, read[i] # Absent)
        BY <2>2 DEF Unchanged, EntryKept, Present
  <2>5. Began(c)'
        BY <1>1, <1>2, <1>3, <1>4, <2>1 DEF RunInv, Began, At
  <2> HIDE DEF read
  <2>6. \A j \in Inputs \ w.left :
          /\ w.read[j] \in Contents \cup {Absent}
          /\ Unchanged(c, j, w.read[j]) /\ EntryKept(c, j, w.read[j] # Absent)
        BY <1>2, <1>3, <2>1, <2>2, <2>4 DEF RunInv, At
  <2>7. RunInv(c)'
        BY <1>2, <1>3, <1>4, <2>1, <2>2, <2>3, <2>5, <2>6 DEF RunInv, At
  <2>8. Tidy(c)'
        BY <1>2, <1>3, <1>4 DEF CheckoutInv, Tidy, Capturing, At
  <2> QED
      BY <1>1, <1>3, <1>4, <2>7, <2>8, MemoKept DEF CheckoutInv, HitInv, CaptureInv, Capturing
<1> QED
    BY <1>1, <1>3, <1>4, JobOnly

LEMMA RanStep ==
  ASSUME RunsInv, NEW c \in Checkouts, Ran(c)
  PROVE  RunsInv'
<1> DEFINE r == Result(c, job[c].read, job[c].scratch, job[c].width)
           written == [o \in Outputs |-> r]
           rec == Recorded(c)
           w == [job[c] EXCEPT !.pc = "capture", !.left = rec, !.read = <<>>]
<1>1. /\ out' = [out EXCEPT ![c] = written] /\ job[c].left = {}
      /\ UNCHANGED <<kind, watch, file, dir, memo, store, now>>
      BY DEF Ran
<1>2. DOMAIN job[c] = JobFields /\ At(c, "run") /\ CheckoutInv(c)
      BY DEF RunsInv, Shapes, Ran
<1>3. /\ DOMAIN out' = Checkouts /\ DOMAIN out'[c] = Outputs
      /\ \A d \in Checkouts \ {c} : out'[d] = out[d]
      /\ \A o \in Outputs : out'[c][o] = r
      BY <1>1 DEF RunsInv, Shapes
<1>4. DOMAIN store' = Checkouts \cup {Remote} /\ StoresSound'
      BY <1>1, StoreKept
<1>5. CASE job' = [job EXCEPT ![c] = Idle]
      BY <1>1, <1>3, <1>4, <1>5, EndsIdle
<1>6. CASE job[c].cached /\ job[c].scratch /\ job' = [job EXCEPT ![c] = w]
  <2> HIDE DEF rec
  <2>1. /\ DOMAIN w = JobFields /\ w.pc = "capture" /\ w.left = rec
        /\ w.listing = job[c].listing /\ w.started = job[c].started
        /\ w.width = job[c].width /\ w.files = job[c].files
        BY <1>2 DEF JobFields
  <2> HIDE DEF w, r
  <2>2. /\ DOMAIN job' = Checkouts /\ job'[c] = w
        /\ \A d \in Checkouts \ {c} : job'[d] = job[d]
        BY <1>6 DEF RunsInv, Shapes
  <2>3. RunInv(c) /\ DOMAIN w.files = {} /\ w.width \in Widths \cup {None}
        BY <1>2, <2>1 DEF CheckoutInv, Tidy, Capturing, At
  <2>4. job[c].scratch = TRUE
        BY <1>2, <1>6, <2>3 DEF RunInv, At
  <2>5. job[c].read \in [Inputs -> Contents \cup {Absent}]
        BY <1>1, <1>2, <2>3 DEF RunInv, At
  <2>6. /\ r \in Results /\ r.scratch /\ r.read = job[c].read
        /\ r.root \in {None, c} /\ r.width \in {None, w.width}
    <3>1. r = Result(c, job[c].read, TRUE, job[c].width)
          BY <2>4, Zenon DEF r
    <3>2. job[c].width \in Widths \cup {None}
          BY <2>1, <2>3
    <3> DEFINE made == Result(c, job[c].read, TRUE, job[c].width)
    <3>3. /\ made \in Results /\ made.scratch /\ made.read = job[c].read
          /\ made.root \in {None, c} /\ made.width \in {None, job[c].width}
          BY <2>5, <3>2 DEF Result, Results
    <3> HIDE DEF made
    <3>4. r = made
          BY <3>1 DEF made
    <3> QED
        BY <2>1, <3>3, <3>4
  <2>7. \A j, x : /\ Unchanged(c, j, x)' <=> Unchanged(c, j, x)
                  /\ EntryKept(c, j, x)' <=> EntryKept(c, j, x)
        BY <1>1, <2>1, <2>2 DEF Unchanged, EntryKept, Script, Present
  <2>8. Began(c)'
        BY <1>1, <1>2, <2>1, <2>2, <2>3 DEF RunInv, Began, At
  <2>9. OutputsRead(c)'
    <3>1. \A i \in Inputs :
            Unchanged(c, i, job[c].read[i]) /\ EntryKept(c, i, job[c].read[i] # Absent)
          BY <1>1, <1>2, <2>3 DEF RunInv, At
    <3> QED
        BY <1>3, <2>1, <2>2, <2>6, <2>7, <3>1 DEF OutputsRead
  <2>10. RecordedSoFar(c)'
    <3>1. rec = IF Script THEN Listing(c) \cup {Listed} ELSE Inputs
          BY DEF rec, Recorded
    <3>2. /\ Script' = Script /\ job'[c].left = rec /\ DOMAIN job'[c].files = {}
          /\ \A i : Present(c, i)' <=> Present(c, i)
          BY <1>1, <2>1, <2>2, <2>3 DEF Script, Present
    <3>3. Listed \notin Inputs
          BY CachedRunAssumption DEF Listed
    <3>4. ToRecord(c)' = rec \ {Listed}
          BY <3>2 DEF ToRecord
    <3>5. \A i \in Inputs : EntryKept(c, i, i \in ToRecord(c))'
          BY <3>1, <3>2, <3>4, <3>3 DEF EntryKept, Listing
    <3> QED
        BY <3>1, <3>2, <3>3, <3>4, <3>5 DEF RecordedSoFar, Listing
  <2>11. CheckoutInv(c)'
    <3>1. Tidy(c)'
          BY <2>1, <2>2, <2>3 DEF Tidy, Capturing
    <3> QED
        BY <1>1, <2>1, <2>2, <2>8, <2>9, <2>10, <3>1, MemoKept
        DEF CheckoutInv, HitInv, RunInv, CaptureInv
  <2> QED
      BY <1>1, <1>3, <1>4, <2>1, <2>2, <2>11, MemoKept, JobMoves
<1> QED
    BY <1>5, <1>6 DEF Ran, RunsInv, Shapes

-----------------------------------------------------------------------------
(***************************************************************************)
(* Once the directory is found unchanged, what is to be recorded is what   *)
(* was there for the execution; once an input is found unchanged, it is    *)
(* what the execution read.                                                *)
(***************************************************************************)
LEMMA DirectoryUnchanged ==
  ASSUME RunsInv, NEW c \in Checkouts, Check(c, Listed)
  PROVE  EntriesRead(c) /\ Listing(c) = ToRecord(c)
<1>1. OutputsRead(c) /\ RecordedSoFar(c) /\ ~ChangedSince(c, Listed) /\ Listed \in job[c].left
      BY DEF RunsInv, CheckoutInv, CaptureInv, Capturing, Check, At
<1>2. Script
      BY <1>1 DEF RecordedSoFar
<1>3. ASSUME NEW i \in Inputs, NEW there \in BOOLEAN, EntryKept(c, i, there)
      PROVE  there <=> Present(c, i)
  <2>1. CASE watch = "package"
    <3>1. i \in Listing(c) <=> i \in job[c].listing
          BY <1>1, <2>1 DEF ChangedSince
    <3> QED
        BY <1>2, <1>3, <2>1, <3>1 DEF EntryKept, Listing
  <2>2. CASE watch # "package"
        BY <1>1, <1>2, <1>3, <2>2 DEF EntryKept, ChangedSince
  <2> QED
      BY <2>1, <2>2
<1>4. \A i \in Inputs : i \in ToRecord(c) <=> Present(c, i)
  <2>1. \A i \in Inputs : EntryKept(c, i, i \in ToRecord(c)) /\ (i \in ToRecord(c)) \in BOOLEAN
        BY <1>1 DEF RecordedSoFar
  <2> QED
      BY <1>3, <2>1, Zenon
<1>5. \A i \in Inputs, o \in Outputs : out[c][o].read[i] # Absent <=> Present(c, i)
      BY <1>1, <1>3 DEF OutputsRead
<1>6. ToRecord(c) \subseteq Inputs
      BY <1>1 DEF RecordedSoFar, ToRecord
<1> QED
    BY <1>4, <1>5, <1>6 DEF EntriesRead, Listing

LEMMA InputUnchanged ==
  ASSUME RunsInv, NEW c \in Checkouts, NEW i \in Inputs, Check(c, i), NEW o \in Outputs
  PROVE  out[c][o].read[i] = file[c][i].val
<1>1. OutputsRead(c) /\ ~ChangedSince(c, i)
      BY DEF RunsInv, CheckoutInv, CaptureInv, Capturing, Check, At
<1>2. i # Listed
      BY CachedRunAssumption DEF Listed
<1>3. i \in Produced \/ ~ (file[c][i].ctime >= job[c].started - Slack)
      BY <1>1, <1>2 DEF ChangedSince, Changed
<1> QED
    BY <1>1, <1>3 DEF OutputsRead, Unchanged

LEMMA CheckStep ==
  ASSUME RunsInv, NEW c \in Checkouts, NEW i \in Inputs \cup {Listed}, Check(c, i)
  PROVE  RunsInv'
<1> DEFINE w == [job[c] EXCEPT !.pc = "hash", !.at = i]
<1>1. /\ job' = [job EXCEPT ![c] = w] /\ i \in job[c].left /\ (i # Listed => Listed \notin job[c].left)
      /\ UNCHANGED <<kind, watch, file, dir, memo, out, store, now>>
      BY DEF Check, RunsInv, Shapes
<1>2. DOMAIN job[c] = JobFields /\ At(c, "capture") /\ CheckoutInv(c)
      BY DEF RunsInv, Shapes, Check
<1>3. /\ DOMAIN w = JobFields /\ w.pc = "hash" /\ w.at = i /\ w.left = job[c].left
      /\ w.listing = job[c].listing /\ w.started = job[c].started
      /\ w.width = job[c].width /\ w.files = job[c].files
      BY <1>2 DEF JobFields
<1> HIDE DEF w
<1>4. ASSUME job'[c] = w PROVE CheckoutInv(c)'
  <2>1. Began(c) /\ OutputsRead(c) /\ RecordedSoFar(c)
        BY <1>2 DEF CheckoutInv, CaptureInv, Capturing, At
  <2>2. \A j, x : /\ Unchanged(c, j, x)' <=> Unchanged(c, j, x)
                  /\ EntryKept(c, j, x)' <=> EntryKept(c, j, x)
        BY <1>1, <1>3, <1>4 DEF Unchanged, EntryKept, Script, Present
  <2>3. Began(c)' /\ OutputsRead(c)'
        BY <1>1, <1>3, <1>4, <2>1, <2>2 DEF Began, OutputsRead
  <2>4. /\ ToRecord(c)' = ToRecord(c) /\ Listing(c)' = Listing(c)
        /\ EntriesRead(c)' <=> EntriesRead(c)
        BY <1>1, <1>3, <1>4 DEF ToRecord, Listing, Present, EntriesRead
  <2>5. RecordedSoFar(c)'
        BY <1>1, <1>3, <1>4, <2>1, <2>2, <2>4 DEF RecordedSoFar, Script
  <2>6. AboutToHash(c)'
    <3>1. CASE i = Listed
      <4>1. EntriesRead(c) /\ Listing(c) = ToRecord(c)
            BY <3>1, DirectoryUnchanged
      <4> QED
          BY <1>1, <1>3, <1>4, <2>4, <3>1, <4>1 DEF AboutToHash
    <3>2. CASE i # Listed
      <4>1. \A o \in Outputs : out[c][o].read[i] = file[c][i].val
            BY <3>2, InputUnchanged
      <4> QED
          BY <1>1, <1>3, <1>4, <3>2, <4>1 DEF AboutToHash
    <3> QED
        BY <3>1, <3>2
  <2>7. Tidy(c)'
        BY <1>2, <1>3, <1>4 DEF CheckoutInv, Tidy, Capturing
  <2> QED
      BY <1>1, <1>3, <1>4, <2>3, <2>5, <2>6, <2>7, MemoKept
      DEF CheckoutInv, HitInv, RunInv, CaptureInv
<1> QED
    BY <1>1, <1>3, <1>4, JobOnly

(* What is recorded of an input is what the execution read of it. *)
LEMMA HashStep ==
  ASSUME RunsInv, NEW c \in Checkouts, Hash(c)
  PROVE  RunsInv'
<1> DEFINE i == job[c].at
           f == IF i = Listed THEN Listing(c) ELSE Digest(c, i)
           files == [j \in DOMAIN job[c].files \cup {i} |-> IF j # i THEN job[c].files[j] ELSE f]
           w == [job[c] EXCEPT !.pc = "capture", !.at = None, !.left = @ \ {i}, !.files = files]
<1>1. DOMAIN job[c] = JobFields /\ At(c, "hash") /\ CheckoutInv(c) /\ (i # Listed => Present(c, i))
      BY DEF RunsInv, Shapes, Hash
<1>2. /\ job' = [job EXCEPT ![c] = w] /\ memo' = Kept(c, {i})
      /\ UNCHANGED <<kind, watch, file, dir, out, store, now>>
  <2>1. /\ job' = [job EXCEPT ![c].pc = "capture", ![c].at = None, ![c].left = @ \ {i},
              ![c].files = [j \in DOMAIN @ \cup {i} |-> IF j # i THEN @[j] ELSE f]]
        /\ memo' = Kept(c, {i})
        /\ UNCHANGED <<kind, watch, file, dir, out, store, now>>
        BY DEF Hash
  <2> HIDE DEF f, i
  <2>2. DOMAIN job = Checkouts
        BY DEF RunsInv, Shapes
  <2> QED
      BY <1>1, <2>1, <2>2 DEF JobFields
<1> HIDE DEF i, f
<1>3. /\ DOMAIN files = DOMAIN job[c].files \cup {i} /\ files[i] = f
      /\ \A j \in DOMAIN job[c].files \ {i} : files[j] = job[c].files[j]
      OBVIOUS
<1> HIDE DEF files
<1>4. /\ DOMAIN w = JobFields /\ w.pc = "capture" /\ w.left = job[c].left \ {i} /\ w.files = files
      /\ w.listing = job[c].listing /\ w.started = job[c].started /\ w.width = job[c].width
      BY <1>1 DEF JobFields
<1> HIDE DEF w
<1>5. /\ DOMAIN job' = Checkouts /\ job'[c] = w
      /\ \A d \in Checkouts \ {c} : job'[d] = job[d]
      BY <1>2 DEF RunsInv, Shapes
<1>6. /\ MemoSound(c)' /\ DOMAIN memo' = Checkouts
      /\ \A d \in Checkouts \ {c} : memo'[d] = memo[d]
      BY <1>2, MemoGrows
<1>7. Began(c) /\ OutputsRead(c) /\ RecordedSoFar(c) /\ AboutToHash(c)
      BY <1>1 DEF CheckoutInv, CaptureInv, Capturing, At
<1>8. \A j, x : /\ Unchanged(c, j, x)' <=> Unchanged(c, j, x)
                /\ EntryKept(c, j, x)' <=> EntryKept(c, j, x)
      BY <1>2, <1>4, <1>5 DEF Unchanged, EntryKept, Script, Present
<1>9. Began(c)' /\ OutputsRead(c)'
      BY <1>2, <1>4, <1>5, <1>7, <1>8 DEF Began, OutputsRead
<1>10. i \in job[c].left
       BY <1>7 DEF AboutToHash, i
<1>11. job'[c].left \cup DOMAIN job'[c].files = job[c].left \cup DOMAIN job[c].files
       BY <1>3, <1>4, <1>5, <1>10
<1>12. /\ ToRecord(c)' = ToRecord(c) /\ (EntriesRead(c)' <=> EntriesRead(c))
       BY <1>2, <1>11 DEF ToRecord, EntriesRead
<1>13. RecordedSoFar(c)'
  <2>1. ASSUME NEW j \in Inputs, NEW o \in Outputs, j \in DOMAIN files
        PROVE  files[j] = out[c][o].read[j]
    <3>1. CASE j # i
          BY <1>3, <1>7, <2>1, <3>1 DEF RecordedSoFar
    <3>2. CASE j = i
      <4>1. i # Listed
            BY <3>2, CachedRunAssumption DEF Listed
      <4>2. f = file[c][i].val
            BY <1>1, <3>2, <4>1, DigestIsContent DEF f, CheckoutInv
      <4> QED
          BY <1>1, <1>3, <1>7, <3>2, <4>1, <4>2 DEF AboutToHash, i
    <3> QED
        BY <3>1, <3>2
  <2>2. ASSUME Script, Listed \notin w.left
        PROVE  EntriesRead(c) /\ files[Listed] = ToRecord(c)
    <3>1. CASE i = Listed
          BY <1>3, <1>7, <3>1 DEF AboutToHash, i, f
    <3>2. CASE i # Listed
      <4>1. Listed \notin job[c].left
            BY <1>4, <2>2, <3>2
      <4>2. Listed \in DOMAIN job[c].files
            BY <1>7, <2>2, <4>1 DEF RecordedSoFar
      <4> QED
          BY <1>3, <1>7, <2>2, <3>2, <4>1, <4>2 DEF RecordedSoFar
    <3> QED
        BY <3>1, <3>2
  <2>3. Script' = Script
        BY <1>2 DEF Script
  <2>4. ~Script => ToRecord(c)' = Inputs /\ Listed \notin w.left
        BY <1>4, <1>7, <1>12 DEF RecordedSoFar
  <2>5. \A j \in Inputs : EntryKept(c, j, j \in ToRecord(c))'
        BY <1>7, <1>8, <1>12 DEF RecordedSoFar
  <2>6. /\ w.left \cup DOMAIN files \subseteq Inputs \cup {Listed}
        /\ Script => Listed \in w.left \cup DOMAIN files
        BY <1>4, <1>5, <1>7, <1>11 DEF RecordedSoFar
  <2>7. \A j \in Inputs, o \in Outputs : j \in DOMAIN files => files[j] = out'[c][o].read[j]
        BY <1>2, <2>1
  <2> QED
      BY <1>4, <1>5, <1>12, <2>2, <2>3, <2>4, <2>5, <2>6, <2>7 DEF RecordedSoFar
<1>14. CheckoutInv(c)'
  <2>1. Tidy(c)'
        BY <1>1, <1>4, <1>5 DEF CheckoutInv, Tidy, Capturing
  <2> QED
      BY <1>4, <1>5, <1>6, <1>9, <1>13, <2>1 DEF CheckoutInv, HitInv, RunInv, CaptureInv
<1>15. DOMAIN store' = Checkouts \cup {Remote} /\ StoresSound'
       BY <1>2, StoreKept
<1>16. DOMAIN out' = Checkouts /\ DOMAIN out'[c] = Outputs
       BY <1>2 DEF RunsInv, Shapes
<1> QED
    BY <1>2, <1>4, <1>5, <1>6, <1>14, <1>15, <1>16, JobMoves

-----------------------------------------------------------------------------
(* A capture that is complete makes a sound candidate. *)
LEMMA CapturedIsSound ==
  ASSUME RunsInv, NEW c \in Checkouts, Captured(c)
  PROVE  Sound(Candidate(c))
<1> DEFINE k == Candidate(c)
<1>1. OutputsRead(c) /\ RecordedSoFar(c) /\ job[c].left = {}
      BY DEF RunsInv, CheckoutInv, CaptureInv, Capturing, Captured, At
<1>2. /\ k.files = job[c].files /\ k.out = out[c]
      /\ k.pin = IF Leaked(c) THEN c ELSE None
      /\ k.width = IF \E o \in Outputs : out[c][o].width # None THEN job[c].width ELSE AnyWidth
      BY DEF Candidate
<1> HIDE DEF k
<1>3. Listed \notin Inputs
      BY CachedRunAssumption DEF Listed
<1>4. \A i \in Inputs : i \in ToRecord(c) <=> i \in DOMAIN k.files
      BY <1>1, <1>2, <1>3 DEF ToRecord
<1>5. ASSUME NEW o \in Outputs, NEW i \in Inputs
      PROVE  k.out[o].read[i] = IF i \in DOMAIN k.files THEN k.files[i] ELSE Absent
  <2>1. CASE i \in DOMAIN k.files
        BY <1>1, <1>2, <2>1 DEF RecordedSoFar
  <2>2. CASE i \notin DOMAIN k.files
    <3>1. Script
          BY <1>1, <1>4, <2>2 DEF RecordedSoFar
    <3>2. EntriesRead(c)
          BY <1>1, <3>1 DEF RecordedSoFar
    <3> QED
        BY <1>2, <1>4, <2>2, <3>2 DEF EntriesRead
  <2> QED
      BY <2>1, <2>2
<1>6. ASSUME NEW o \in Outputs
      PROVE  /\ k.out[o] \in Results /\ k.out[o].scratch /\ k.out[o].root \in {None, k.pin}
             /\ k.out[o].width # None => k.width = k.out[o].width
  <2>1. /\ out[c][o] \in Results /\ out[c][o].scratch
        /\ out[c][o].root \in {None, c} /\ out[c][o].width \in {None, job[c].width}
        BY <1>1 DEF OutputsRead
  <2>2. out[c][o].root # None => k.pin = c
        BY <1>2 DEF Leaked
  <2>3. out[c][o].width # None => k.width = job[c].width
        BY <1>2
  <2> QED
      BY <1>2, <2>1, <2>2, <2>3
<1>7. \A o, p \in Outputs : k.out[o] = k.out[p]
      BY <1>1, <1>2 DEF OutputsRead
<1>8. Script => Listed \in DOMAIN k.files /\ \A i \in Inputs : i \in k.files[Listed] => i \in DOMAIN k.files
      BY <1>1, <1>2, <1>4 DEF RecordedSoFar
<1>9. ~Script => Inputs \subseteq DOMAIN k.files
      BY <1>1, <1>4 DEF RecordedSoFar
<1>10. Sound(k)
       BY <1>5, <1>6, <1>7, <1>8, <1>9 DEF Sound
<1> QED
    BY <1>10 DEF k

(* A candidate on its way to a store. *)
LEMMA Publishing ==
  ASSUME RunsInv, NEW c \in Checkouts, MemoSound(c)', kind' = kind,
         job'[c].pc \in {"publish", "send"}, job'[c].width \in Widths \cup {None},
         DOMAIN job'[c].files = {}, Sound(job'[c].cand)
  PROVE  CheckoutInv(c)'
<1>1. Sound(job[c].cand)'
      BY DEF Sound, Script
<1> QED
    BY <1>1 DEF CheckoutInv, Tidy, Capturing, HitInv, RunInv, CaptureInv

LEMMA CapturedStep ==
  ASSUME RunsInv, NEW c \in Checkouts, Captured(c)
  PROVE  RunsInv'
<1> DEFINE k == Candidate(c)
           w == [Idle EXCEPT !.pc = "publish", !.cand = k]
<1>1. /\ job' = [job EXCEPT ![c] = w]
      /\ UNCHANGED <<kind, watch, file, dir, memo, out, store, now>>
      BY DEF Captured
<1>2. Sound(k)
      BY CapturedIsSound
<1> HIDE DEF k
<1>3. /\ DOMAIN w = JobFields /\ w.pc = "publish" /\ w.cand = k
      /\ w.width = None /\ DOMAIN w.files = {}
      BY DEF Idle, JobFields
<1> HIDE DEF w
<1>4. ASSUME job'[c] = w PROVE CheckoutInv(c)'
      BY <1>1, <1>2, <1>3, <1>4, MemoKept, Publishing
<1> QED
    BY <1>1, <1>3, <1>4, JobOnly

LEMMA PublishLocalStep ==
  ASSUME RunsInv, NEW c \in Checkouts, PublishLocal(c)
  PROVE  RunsInv'
<1> DEFINE w == [job[c] EXCEPT !.pc = "send"]
<1>1. /\ job' = [job EXCEPT ![c] = w] /\ store' = [store EXCEPT ![c] = @ \cup {job[c].cand}]
      /\ UNCHANGED <<kind, watch, file, dir, memo, out, now>>
      BY DEF PublishLocal, Publish
<1>2. /\ DOMAIN job[c] = JobFields /\ Sound(job[c].cand)
      /\ job[c].width \in Widths \cup {None} /\ DOMAIN job[c].files = {}
      BY DEF RunsInv, Shapes, PublishLocal, At, CheckoutInv, CaptureInv, Tidy, Capturing
<1>3. /\ DOMAIN w = JobFields /\ w.pc = "send" /\ w.cand = job[c].cand
      /\ w.width = job[c].width /\ w.files = job[c].files
      BY <1>2 DEF JobFields
<1> HIDE DEF w
<1>4. /\ DOMAIN job' = Checkouts /\ job'[c] = w
      /\ \A d \in Checkouts \ {c} : job'[d] = job[d]
      BY <1>1 DEF RunsInv, Shapes
<1>5. CheckoutInv(c)'
      BY <1>1, <1>2, <1>3, <1>4, MemoKept, Publishing
<1>6. DOMAIN store' = Checkouts \cup {Remote} /\ StoresSound'
      BY <1>1, <1>2, StoreGrows
<1>7. DOMAIN out' = Checkouts /\ DOMAIN out'[c] = Outputs
      BY <1>1 DEF RunsInv, Shapes
<1> QED
    BY <1>1, <1>3, <1>4, <1>5, <1>6, <1>7, MemoKept, JobMoves

LEMMA PublishFailsStep ==
  ASSUME RunsInv, NEW c \in Checkouts, PublishFails(c)
  PROVE  RunsInv'
<1> DEFINE w == [job[c] EXCEPT !.pc = "send"]
<1>1. UNCHANGED <<kind, watch, file, dir, memo, out, store, now>>
      BY DEF PublishFails
<1>2. /\ DOMAIN job[c] = JobFields /\ Sound(job[c].cand)
      /\ job[c].width \in Widths \cup {None} /\ DOMAIN job[c].files = {}
      BY DEF RunsInv, Shapes, PublishFails, At, CheckoutInv, CaptureInv, Tidy, Capturing
<1>3. CASE job' = [job EXCEPT ![c] = Uncached]
  <2>1. ASSUME job'[c] = Uncached PROVE CheckoutInv(c)'
    <3>1. now \in Nat
          BY DEF RunsInv, Shapes
    <3>2. job'[c].started \in Nat /\ job'[c].started <= now
          BY <2>1, <3>1, UncachedShape
    <3>3. job'[c].scratch \in BOOLEAN
          BY <2>1, UncachedShape, Zenon
    <3>4. MemoSound(c)'
          BY <1>1, MemoKept
    <3>5. job'[c].width \in Widths \cup {None}
          BY <2>1, UncachedShape
    <3> QED
        BY <1>1, <2>1, <3>2, <3>3, <3>4, <3>5, UncachedShape, RunBegins
  <2> QED
      BY <1>1, <1>3, <2>1, UncachedShape, JobOnly
<1>4. CASE job' = [job EXCEPT ![c] = w]
  <2>1. /\ DOMAIN w = JobFields /\ w.pc = "send" /\ w.cand = job[c].cand
        /\ w.width = job[c].width /\ w.files = job[c].files
        BY <1>2 DEF JobFields
  <2> HIDE DEF w
  <2>2. ASSUME job'[c] = w PROVE CheckoutInv(c)'
        BY <1>1, <1>2, <2>1, <2>2, MemoKept, Publishing
  <2> QED
      BY <1>1, <1>4, <2>1, <2>2, JobOnly
<1>5. CASE job' = [job EXCEPT ![c] = Idle]
  <2>1. DOMAIN store' = Checkouts \cup {Remote} /\ StoresSound'
        BY <1>1, StoreKept
  <2>2. DOMAIN out' = Checkouts /\ DOMAIN out'[c] = Outputs
        BY <1>1 DEF RunsInv, Shapes
  <2> QED
      BY <1>1, <1>5, <2>1, <2>2, EndsIdle
<1>6. \/ job' = [job EXCEPT ![c] = Uncached]
      \/ job' = [job EXCEPT ![c] = w]
      \/ job' = [job EXCEPT ![c] = Idle]
      BY DEF PublishFails, At
<1> QED
    BY <1>3, <1>4, <1>5, <1>6

LEMMA JobStep ==
  ASSUME RunsInv, NEW c \in Checkouts, JobNext(c)
  PROVE  RunsInv'
BY IdentifyStep, BypassStep, LookupStep, AcceptStep, MissStep, FetchStep, RestoreFailsStep,
   HitStep, InstallStep, StartStep, RanStep, ReadStep, CheckStep, HashStep, CapturedStep,
   PublishLocalStep, PublishRemoteStep, PublishFailsStep, EndingSteps
   DEF JobNext

-----------------------------------------------------------------------------
LEMMA CleanStep ==
  ASSUME RunsInv, NEW c \in Checkouts, Clean(c)
  PROVE  RunsInv'
<1> DEFINE none == [o \in Outputs |-> None]
<1>1. /\ out' = [out EXCEPT ![c] = none] /\ At(c, "idle")
      /\ UNCHANGED <<kind, watch, file, dir, memo, store, job, now>>
      BY DEF Clean
<1>2. /\ DOMAIN out' = Checkouts /\ DOMAIN out'[c] = Outputs
      /\ \A d \in Checkouts \ {c} : out'[d] = out[d]
      BY <1>1 DEF RunsInv, Shapes
<1>3. CheckoutInv(c)'
  <2>1. Tidy(c)'
        BY <1>1 DEF RunsInv, CheckoutInv, Tidy, Capturing
  <2> QED
      BY <1>1, <2>1, MemoKept, AtRest DEF At
<1>4. DOMAIN store' = Checkouts \cup {Remote} /\ StoresSound'
      BY <1>1, StoreKept
<1>5. DOMAIN job' = Checkouts /\ DOMAIN job'[c] = JobFields
      BY <1>1 DEF RunsInv, Shapes
<1> QED
    BY <1>1, <1>2, <1>3, <1>4, <1>5, MemoKept, JobMoves

LEMMA TickStep ==
  ASSUME RunsInv, Tick
  PROVE  RunsInv'
<1>1. now \in Nat /\ now' = now + 1
      BY DEF RunsInv, Shapes, Tick
<1>2. now' \in Nat /\ now <= now'
      BY <1>1
<1>3. \A c \in Checkouts : CheckoutInv(c)'
      BY <1>1, <1>2, FrameKeeps DEF RunsInv, Tick
<1>4. StoresSound'
      BY StoreKept DEF Tick
<1>5. Shapes'
      BY <1>2 DEF RunsInv, Shapes, Tick, Present, Script
<1> QED
    BY <1>3, <1>4, <1>5 DEF RunsInv

-----------------------------------------------------------------------------
(***************************************************************************)
(* An edit, as the running job can tell it: it shows in the change time,   *)
(* and a file that comes or goes shows in the directory's stamp or in the  *)
(* listing from before the run.                                            *)
(***************************************************************************)
EditShape(c, i, v, stamp) ==
  /\ UNCHANGED <<kind, watch, memo, out, store, now>>
  /\ DOMAIN job' = Checkouts /\ DOMAIN job'[c] = JobFields
  /\ \A d \in Checkouts \ {c} : file'[d] = file[d] /\ dir'[d] = dir[d] /\ job'[d] = job[d]
  /\ \A x \in JobFields \ {"seen"} : job'[c][x] = job[c][x]
  /\ \A j \in Inputs \ {i} : file'[c][j] = file[c][j]
  /\ file'[c][i].val = v /\ file'[c][i].ctime = stamp
  /\ dir'[c] = stamp \/ ((v = Absent <=> ~Present(c, i)) /\ dir'[c] = dir[c])
  /\ DOMAIN job[c].seen = Inputs =>
       /\ DOMAIN job'[c].seen = Inputs /\ job'[c].seen[i] = job[c].seen[i] \cup {v}
       /\ \A j \in Inputs \ {i} : job'[c].seen[j] = job[c].seen[j]

LEMMA EditIsShaped ==
  ASSUME RunsInv, Calm, NEW c \in Checkouts, NEW i \in Inputs, NEW v \in Contents \cup {Absent},
         NEW stamp \in 0 .. MaxTime, NEW older \in BOOLEAN, Edit(c, i, v, stamp, older)
  PROVE  EditShape(c, i, v, stamp) /\ Shapes'
<1> USE CachedRunAssumption
<1> DEFINE new == [val |-> v, ctime |-> stamp, mtime |-> IF older THEN file[c][i].mtime ELSE stamp,
                   inode |-> file[c][i].inode]
<1>1. /\ UNCHANGED <<kind, watch, memo, out, store, now>> /\ v # file[c][i].val
      /\ v = Absent \/ ~Present(c, i) => Script
      /\ file' = [file EXCEPT ![c][i] = new]
      BY DEF Edit
<1>2. /\ file \in [Checkouts -> [Inputs -> Stamped]] /\ dir \in [Checkouts -> Int]
      /\ DOMAIN job = Checkouts /\ DOMAIN job[c] = JobFields
      BY DEF RunsInv, Shapes
<1>3. new \in Stamped
  <2>1. file[c][i] \in Stamped /\ stamp \in Int
        BY <1>2
  <2>2. file[c][i].mtime \in Int /\ file[c][i].inode \in Inodes
        BY <2>1 DEF Stamped
  <2> QED
      BY <2>1, <2>2 DEF Stamped
<1>4. new.val = v /\ new.ctime = stamp
      OBVIOUS
<1> HIDE DEF new
<1>5. /\ file' \in [Checkouts -> [Inputs -> Stamped]] /\ file'[c][i] = new
      /\ \A j \in Inputs \ {i} : file'[c][j] = file[c][j]
      /\ \A d \in Checkouts \ {c} : file'[d] = file[d]
      BY <1>1, <1>2, <1>3
<1>6. /\ dir' \in [Checkouts -> Int]
      /\ dir'[c] = stamp \/ ((v = Absent <=> ~Present(c, i)) /\ dir'[c] = dir[c])
      /\ \A d \in Checkouts \ {c} : dir'[d] = dir[d]
  <2>1. CASE v = Absent \/ ~Present(c, i)
    <3>1. dir' = [dir EXCEPT ![c] = stamp]
          BY <2>1 DEF Edit, Calm
    <3> QED
        BY <1>2, <3>1
  <2>2. CASE ~ (v = Absent \/ ~Present(c, i))
    <3>1. dir' = dir
          BY <2>2 DEF Edit
    <3> QED
        BY <1>2, <2>2, <3>1
  <2> QED
      BY <2>1, <2>2
<1>7. /\ DOMAIN job' = Checkouts /\ DOMAIN job'[c] = JobFields
      /\ \A d \in Checkouts \ {c} : job'[d] = job[d]
      /\ \A x \in JobFields \ {"seen"} : job'[c][x] = job[c][x]
      /\ DOMAIN job[c].seen = Inputs =>
           /\ DOMAIN job'[c].seen = Inputs /\ job'[c].seen[i] = job[c].seen[i] \cup {v}
           /\ \A j \in Inputs \ {i} : job'[c].seen[j] = job[c].seen[j]
  <2>1. CASE i \in DOMAIN job[c].seen
    <3> DEFINE seen == [job[c].seen EXCEPT ![i] = @ \cup {v}]
               w == [job[c] EXCEPT !.seen = seen]
    <3>1. job' = [job EXCEPT ![c] = w]
          BY <1>2, <2>1 DEF Edit, JobFields
    <3>2. /\ DOMAIN seen = DOMAIN job[c].seen /\ seen[i] = job[c].seen[i] \cup {v}
          /\ \A j \in DOMAIN job[c].seen \ {i} : seen[j] = job[c].seen[j]
          BY <2>1
    <3> HIDE DEF seen
    <3>3. DOMAIN w = JobFields /\ w.seen = seen /\ \A x \in JobFields \ {"seen"} : w[x] = job[c][x]
          BY <1>2 DEF JobFields
    <3> HIDE DEF w
    <3>4. DOMAIN job' = Checkouts /\ job'[c] = w /\ \A d \in Checkouts \ {c} : job'[d] = job[d]
          BY <1>2, <3>1
    <3> QED
        BY <3>2, <3>3, <3>4
  <2>2. CASE i \notin DOMAIN job[c].seen
    <3>1. job' = job
          BY <2>2 DEF Edit
    <3> QED
        BY <1>2, <2>2, <3>1
  <2> QED
      BY <2>1, <2>2
<1>8. Shapes'
  <2>1. DOMAIN out' = Checkouts /\ \A d \in Checkouts : DOMAIN out'[d] = Outputs
        BY <1>1 DEF RunsInv, Shapes
  <2>2. \A d \in Checkouts : DOMAIN job'[d] = JobFields
        BY <1>7 DEF RunsInv, Shapes
  <2>3. ~Script' => \A d \in Checkouts, j \in Inputs : Present(d, j)'
    <3>1. SUFFICES ASSUME ~Script', NEW d \in Checkouts, NEW j \in Inputs PROVE Present(d, j)'
          OBVIOUS
    <3>2. ~Script /\ Present(d, j)
          BY <1>1, <3>1 DEF Script, RunsInv, Shapes
    <3>3. CASE d = c /\ j = i
          BY <1>1, <1>4, <1>5, <3>2, <3>3 DEF Present
    <3>4. CASE d # c \/ j # i
          BY <1>5, <3>2, <3>4 DEF Present
    <3> QED
        BY <3>3, <3>4
  <2>4. now' \in Nat /\ DOMAIN memo' = Checkouts /\ DOMAIN store' = Checkouts \cup {Remote}
        BY <1>1 DEF RunsInv, Shapes
  <2> QED
      BY <1>5, <1>6, <1>7, <2>1, <2>2, <2>3, <2>4 DEF Shapes
<1> QED
    BY <1>1, <1>4, <1>5, <1>6, <1>7, <1>8 DEF EditShape

LEMMA EditStep ==
  ASSUME RunsInv, Calm, NEW c \in Checkouts, NEW i \in Inputs, NEW v \in Contents \cup {Absent},
         NEW stamp \in 0 .. MaxTime, NEW older \in BOOLEAN, Edit(c, i, v, stamp, older)
  PROVE  RunsInv'
<1> USE CachedRunAssumption
<1>1. EditShape(c, i, v, stamp) /\ Shapes' /\ CheckoutInv(c)
      BY EditIsShaped DEF RunsInv
<1>2. /\ UNCHANGED <<kind, watch, memo, out, store, now>> /\ now \in Nat
      /\ \A d \in Checkouts \ {c} : file'[d] = file[d] /\ dir'[d] = dir[d] /\ job'[d] = job[d]
      /\ \A j \in Inputs \ {i} : file'[c][j] = file[c][j]
      /\ file'[c][i].val = v /\ file'[c][i].ctime = stamp
      /\ dir'[c] = stamp \/ ((v = Absent <=> ~Present(c, i)) /\ dir'[c] = dir[c])
      BY <1>1 DEF EditShape, RunsInv, Shapes
<1>3. /\ job'[c].pc = job[c].pc /\ job'[c].width = job[c].width /\ job'[c].listing = job[c].listing
      /\ job'[c].index = job[c].index /\ job'[c].cand = job[c].cand /\ job'[c].left = job[c].left
      /\ job'[c].at = job[c].at /\ job'[c].started = job[c].started
      /\ job'[c].scratch = job[c].scratch /\ job'[c].read = job[c].read
      /\ job'[c].files = job[c].files
      BY <1>1 DEF EditShape, JobFields
<1>4. /\ stamp \in Int /\ stamp >= now - Slack /\ v # file[c][i].val /\ Undisturbed(c, i, v)
      /\ Script \/ i \notin Units
      BY DEF Edit
<1>5. \A k : Sound(k)' <=> Sound(k)
      BY <1>2 DEF Sound, Script
<1>6. MemoSound(c)'
  <2>1. ASSUME NEW j \in Inputs, NEW m \in memo[c][j]
        PROVE  /\ m.ctime \in Int /\ m.ctime <= file'[c][j].ctime
               /\ m.ctime < now - Slack \/ (j \in Units /\ ~Script)
               /\ Same(m, file'[c][j]) => m.val = file'[c][j].val
    <3>1. /\ m.ctime \in Int /\ m.ctime <= file[c][j].ctime
          /\ m.ctime < now - Slack \/ (j \in Units /\ ~Script)
          /\ Same(m, file[c][j]) => m.val = file[c][j].val
          BY <1>1 DEF CheckoutInv, MemoSound
    <3>2. CASE j = i
          BY <1>2, <1>4, <3>1, <3>2 DEF Same
    <3>3. CASE j # i
          BY <1>2, <3>1, <3>3
    <3> QED
        BY <3>2, <3>3
  <2>2. DOMAIN memo[c] = Inputs
        BY <1>1 DEF CheckoutInv, MemoSound
  <2> QED
      BY <1>2, <2>1, <2>2 DEF MemoSound, Script
<1>7. Tidy(c)'
      BY <1>1, <1>3 DEF CheckoutInv, Tidy, Capturing
<1>8. HitInv(c)'
  <2>1. CASE job[c].pc \in {"lookup", "try", "fetch", "install", "hit"}
    <3>1. Seen(c) /\ HitInv(c)
          BY <1>1, <2>1 DEF CheckoutInv, HitInv
    <3>2. /\ DOMAIN job'[c].seen = Inputs /\ job'[c].seen[i] = job[c].seen[i] \cup {v}
          /\ \A j \in Inputs \ {i} : job'[c].seen[j] = job[c].seen[j]
          BY <1>1, <3>1 DEF EditShape, Seen
    <3>3. \A j \in Inputs : job[c].seen[j] \subseteq job'[c].seen[j]
          BY <3>2
    <3>4. Seen(c)'
          BY <1>2, <3>1, <3>2, <3>3 DEF Seen
    <3>5. ListingSeen(c) => ListingSeen(c)'
          BY <1>2, <1>3, <3>3 DEF ListingSeen
    <3>6. \A r : Fitting(c, r) => Fitting(c, r)'
          BY <1>3, <3>3 DEF Fitting
    <3> QED
        BY <1>2, <1>3, <1>5, <3>1, <3>4, <3>5, <3>6 DEF HitInv
  <2>2. CASE job[c].pc \notin {"lookup", "try", "fetch", "install", "hit"}
        BY <1>3, <2>2 DEF HitInv
  <2> QED
      BY <2>1, <2>2
<1>9. ASSUME job[c].pc \in {"run", "capture", "hash"}, Began(c), NEW j \in Inputs
      PROVE  /\ \A x : Unchanged(c, j, x) => Unchanged(c, j, x)'
             /\ \A there \in BOOLEAN : EntryKept(c, j, there) => EntryKept(c, j, there)'
  <2>1. stamp >= job[c].started - Slack
        BY <1>2, <1>4, <1>9 DEF Began
  <2>2. \A x : Unchanged(c, j, x) => Unchanged(c, j, x)'
    <3>1. CASE j = i
      <4>1. i \notin Produced
            BY <1>4, <1>9 DEF Undisturbed, At
      <4> QED
          BY <1>2, <1>3, <2>1, <3>1, <4>1 DEF Unchanged
    <3>2. CASE j # i
          BY <1>2, <1>3, <3>2 DEF Unchanged
    <3> QED
        BY <3>1, <3>2
  <2>3. ASSUME NEW there \in BOOLEAN, EntryKept(c, j, there)
        PROVE  EntryKept(c, j, there)'
    <3>1. CASE watch = "package"
      <4>1. /\ v = Absent => i \in job[c].listing
            /\ ~Present(c, i) => i \notin job[c].listing
            BY <1>4, <1>9, <3>1 DEF Undisturbed, Calm
      <4>2. CASE j = i
            BY <1>2, <1>3, <2>3, <3>1, <4>1, <4>2 DEF EntryKept, Script, Present
      <4>3. CASE j # i
            BY <1>2, <1>3, <2>3, <3>1, <4>3 DEF EntryKept, Script, Present
      <4> QED
          BY <4>2, <4>3
    <3>2. CASE watch # "package"
      <4>1. CASE dir'[c] = stamp
            BY <1>2, <1>3, <2>1, <3>2, <4>1 DEF EntryKept
      <4>2. CASE (v = Absent <=> ~Present(c, i)) /\ dir'[c] = dir[c]
        <5>1. Present(c, j)' <=> Present(c, j)
              BY <1>2, <4>2 DEF Present
        <5> QED
            BY <1>2, <1>3, <2>3, <3>2, <4>2, <5>1 DEF EntryKept, Script
      <4> QED
          BY <1>2, <4>1, <4>2
    <3> QED
        BY <3>1, <3>2
  <2> QED
      BY <2>2, <2>3
<1>10. Began(c)' <=> Began(c)
       BY <1>2, <1>3 DEF Began
<1>11. RunInv(c)'
  <2>1. CASE job[c].pc = "run"
    <3>1. RunInv(c) /\ Began(c)
          BY <1>1, <2>1 DEF CheckoutInv, RunInv
    <3>2. \A j \in Inputs : (job[c].read[j] # Absent) \in BOOLEAN
          OBVIOUS
    <3>3. \A j \in Inputs \ job[c].left :
            Unchanged(c, j, job[c].read[j])' /\ EntryKept(c, j, job[c].read[j] # Absent)'
          BY <1>3, <1>9, <2>1, <3>1, <3>2 DEF RunInv
    <3> QED
        BY <1>3, <1>10, <2>1, <3>1, <3>3 DEF RunInv
  <2>2. CASE job[c].pc # "run"
        BY <1>3, <2>2 DEF RunInv
  <2> QED
      BY <2>1, <2>2
<1>12. CaptureInv(c)'
  <2>1. CASE job[c].pc \in {"capture", "hash"}
    <3>1. Began(c) /\ OutputsRead(c) /\ RecordedSoFar(c) /\ (job[c].pc = "hash" => AboutToHash(c))
          BY <1>1, <2>1 DEF CheckoutInv, CaptureInv, Capturing
    <3>2. OutputsRead(c)'
      <4>1. \A j \in Inputs, o \in Outputs :
              /\ Unchanged(c, j, out[c][o].read[j])'
              /\ EntryKept(c, j, out[c][o].read[j] # Absent)'
            BY <1>2, <1>9, <2>1, <3>1, ZenonT(60) DEF OutputsRead
      <4> QED
          BY <1>2, <1>3, <3>1, <4>1 DEF OutputsRead
    <3>3. ToRecord(c)' = ToRecord(c) /\ (EntriesRead(c)' <=> EntriesRead(c))
          BY <1>2, <1>3 DEF ToRecord, EntriesRead
    <3>4. RecordedSoFar(c)'
      <4>1. \A j \in Inputs : EntryKept(c, j, j \in ToRecord(c))'
        <5>1. \A j \in Inputs :
                EntryKept(c, j, j \in ToRecord(c)) /\ (j \in ToRecord(c)) \in BOOLEAN
              BY <3>1 DEF RecordedSoFar
        <5> QED
            BY <1>9, <2>1, <3>1, <3>3, <5>1
      <4> QED
          BY <1>2, <1>3, <3>1, <3>3, <4>1 DEF RecordedSoFar, Script
    <3>5. ASSUME job[c].pc = "hash" PROVE AboutToHash(c)'
      <4>1. /\ ~ (job[c].at = i /\ v # Absent)
            /\ ~ (job[c].at = Listed /\ (v = Absent \/ ~Present(c, i)))
            BY <1>4, <3>5 DEF Undisturbed, Calm, At
      <4>2. CASE job[c].at = Listed
        <5>1. Listing(c)' = Listing(c)
              BY <1>2, <4>1, <4>2 DEF Listing, Present
        <5> QED
            BY <1>3, <3>1, <3>3, <3>5, <4>2, <5>1 DEF AboutToHash
      <4>3. CASE job[c].at # Listed /\ job[c].at = i
            BY <1>2, <1>3, <3>1, <3>5, <4>1, <4>3 DEF AboutToHash, Present
      <4>4. CASE job[c].at # Listed /\ job[c].at # i
        <5>1. job[c].at \in Inputs
              BY <3>1, <3>5, <4>4 DEF AboutToHash, RecordedSoFar
        <5> QED
            BY <1>2, <1>3, <3>1, <3>5, <4>4, <5>1 DEF AboutToHash, Present
      <4> QED
          BY <4>2, <4>3, <4>4
    <3> QED
        BY <1>3, <1>10, <2>1, <3>1, <3>2, <3>4, <3>5 DEF CaptureInv
  <2>2. CASE job[c].pc \notin {"capture", "hash"}
        BY <1>1, <1>3, <1>5, <2>2 DEF CheckoutInv, CaptureInv, Capturing
  <2> QED
      BY <2>1, <2>2
<1>13. CheckoutInv(c)'
       BY <1>6, <1>7, <1>8, <1>11, <1>12 DEF CheckoutInv
<1>14. StoresSound'
       BY <1>2, StoreKept
<1> QED
    BY <1>1, <1>2, <1>13, <1>14, OneCheckout

-----------------------------------------------------------------------------
(* An earlier unit's output: no digest is kept for a file of its identity    *)
(* but the one that is remembered of it.                                     *)
LEMMA RebuildStep ==
  ASSUME RunsInv, Calm, NEW c \in Checkouts, NEW i \in Units, NEW v \in Contents,
         NEW stamp \in 0 .. MaxTime, NEW inode \in Inodes, NEW remembered \in BOOLEAN,
         Rebuild(c, i, v, stamp, inode, remembered)
  PROVE  RunsInv'
<1> USE CachedRunAssumption
<1> DEFINE built == [val |-> v, mtime |-> stamp, ctime |-> stamp, inode |-> inode]
<1>1. /\ UNCHANGED <<kind, watch, dir, out, store, job, now>> /\ ~Script /\ job[c].pc = "idle"
      /\ stamp \in Int /\ stamp >= file[c][i].ctime
      /\ \A m \in memo[c][i] : m.ctime = stamp => m.inode # inode
      /\ file' = [file EXCEPT ![c][i] = built]
      /\ memo' = memo \/ memo' = Remember(c, i, built)
      BY DEF Rebuild, At, Calm
<1>2. /\ file \in [Checkouts -> [Inputs -> Stamped]] /\ i \in Inputs
      /\ DOMAIN memo = Checkouts /\ DOMAIN memo[c] = Inputs
      BY DEF RunsInv, Shapes, CheckoutInv, MemoSound
<1>3. built \in Stamped /\ built.val = v /\ built.ctime = stamp /\ built.inode = inode
      BY <1>1 DEF Stamped
<1> HIDE DEF built
<1>4. /\ file' \in [Checkouts -> [Inputs -> Stamped]] /\ file'[c][i] = built
      /\ \A j \in Inputs \ {i} : file'[c][j] = file[c][j]
      /\ \A d \in Checkouts \ {c} : file'[d] = file[d]
      BY <1>1, <1>2, <1>3
<1>5. /\ DOMAIN memo' = Checkouts /\ DOMAIN memo'[c] = Inputs
      /\ \A m \in memo'[c][i] : m \in memo[c][i] \/ m = built
      /\ \A j \in Inputs \ {i} : memo'[c][j] = memo[c][j]
      /\ \A d \in Checkouts \ {c} : memo'[d] = memo[d]
  <2>1. CASE memo' = memo
        BY <1>2, <2>1
  <2>2. CASE memo' = Remember(c, i, built)
        BY <1>2, <2>2 DEF Remember
  <2> QED
      BY <1>1, <2>1, <2>2
<1>6. MemoSound(c)'
  <2>1. ASSUME NEW j \in Inputs, NEW m \in memo'[c][j]
        PROVE  /\ m.ctime \in Int /\ m.ctime <= file'[c][j].ctime
               /\ m.ctime < now - Slack \/ (j \in Units /\ ~Script)
               /\ Same(m, file'[c][j]) => m.val = file'[c][j].val
    <3>1. ASSUME m \in memo[c][j]
          PROVE  /\ m.ctime \in Int /\ m.ctime <= file[c][j].ctime
                 /\ m.ctime < now - Slack \/ (j \in Units /\ ~Script)
                 /\ Same(m, file[c][j]) => m.val = file[c][j].val
          BY <3>1 DEF RunsInv, CheckoutInv, MemoSound
    <3>2. CASE j # i
          BY <1>4, <1>5, <3>1, <3>2
    <3>3. CASE j = i /\ m = built
          BY <1>1, <1>3, <1>4, <3>3
    <3>4. CASE j = i /\ m \in memo[c][i]
      <4>1. file[c][i].ctime \in Int
            BY <1>2 DEF Stamped
      <4> QED
          BY <1>1, <1>3, <1>4, <3>1, <3>4, <4>1 DEF Same
    <3> QED
        BY <1>5, <3>2, <3>3, <3>4
  <2> QED
      BY <1>1, <1>5, <2>1 DEF MemoSound, Script
<1>7. CheckoutInv(c)'
  <2>1. Tidy(c)'
        BY <1>1 DEF RunsInv, CheckoutInv, Tidy, Capturing
  <2> QED
      BY <1>1, <1>6, <2>1, AtRest
<1>8. DOMAIN store' = Checkouts \cup {Remote} /\ StoresSound'
      BY <1>1, StoreKept
<1>9. Shapes'
  <2>1. \A d \in Checkouts, j \in Inputs : Present(d, j)'
    <3>1. \A d \in Checkouts, j \in Inputs : Present(d, j)
          BY <1>1 DEF RunsInv, Shapes
    <3>2. v # Absent
          OBVIOUS
    <3> QED
        BY <1>3, <1>4, <3>1, <3>2 DEF Present
  <2> QED
      BY <1>1, <1>4, <1>5, <1>8, <2>1 DEF RunsInv, Shapes
<1> QED
    BY <1>1, <1>4, <1>5, <1>7, <1>8, <1>9, OneCheckout

-----------------------------------------------------------------------------
LEMMA RunsInit ==
  ASSUME Init
  PROVE  RunsInv
<1> USE CachedRunAssumption
<1>1. Epoch - 1 \in Int /\ Epoch \in Nat
      OBVIOUS
<1>2. PICK v \in Contents :
        file = [c \in Checkouts |->
                  [i \in Inputs |-> [val |-> v, mtime |-> Epoch - 1, ctime |-> Epoch - 1,
                                     inode |-> CHOOSE n \in Inodes : TRUE]]]
      BY DEF Init
<1>3. [val |-> v, mtime |-> Epoch - 1, ctime |-> Epoch - 1,
       inode |-> CHOOSE n \in Inodes : TRUE] \in Stamped
  <2>1. (CHOOSE n \in Inodes : TRUE) \in Inodes
        OBVIOUS
  <2> QED
      BY <1>1, <2>1 DEF Stamped
<1>4. file \in [Checkouts -> [Inputs -> Stamped]]
      BY <1>2, <1>3
<1>5. /\ DOMAIN Idle = JobFields /\ Idle.pc = "idle" /\ Idle.width = None /\ DOMAIN Idle.files = {}
      BY DEF Idle, JobFields
<1>6. \A c \in Checkouts, i \in Inputs : Present(c, i)
      BY <1>2 DEF Present
<1>7. Shapes
      BY <1>1, <1>4, <1>5, <1>6 DEF Init, Shapes
<1>8. StoresSound
      BY DEF Init, StoresSound
<1>9. ASSUME NEW c \in Checkouts PROVE CheckoutInv(c)
  <2>1. job[c] = Idle
        BY DEF Init
  <2>2. /\ DOMAIN memo[c] = Inputs
        /\ \A i \in Inputs : \A m \in memo[c][i] : m = file[c][i] /\ i \in Units /\ ~Script
        BY DEF Init
  <2>3. \A i \in Inputs : file[c][i].ctime \in Int
        BY <1>4 DEF Stamped
  <2>4. MemoSound(c)
        BY <2>2, <2>3 DEF MemoSound
  <2> QED
      BY <1>5, <2>1, <2>4 DEF CheckoutInv, Tidy, HitInv, RunInv, CaptureInv, Capturing
<1> QED
    BY <1>7, <1>8, <1>9 DEF RunsInv

LEMMA RunsNext ==
  ASSUME RunsInv, Calm, [Next]_vars
  PROVE  RunsInv'
<1>1. CASE Next
      BY <1>1, JobStep, CleanStep, EditStep, RebuildStep, TickStep DEF Next
<1>2. CASE UNCHANGED vars
  <2>1. UNCHANGED <<kind, watch, file, dir, memo, out, store, job, now>>
        BY <1>2 DEF vars
  <2>2. \A c \in Checkouts : CheckoutInv(c)'
        BY <2>1, FrameKeeps DEF RunsInv, Shapes
  <2>3. StoresSound'
        BY <2>1, StoreKept
  <2>4. Shapes'
        BY <2>1 DEF RunsInv, Shapes, Present, Script
  <2> QED
      BY <2>2, <2>3, <2>4 DEF RunsInv
<1> QED
    BY <1>1, <1>2

(***************************************************************************)
(* What is stored with some digests was made from these contents and no    *)
(* others, from scratch, pinned to the checkout it embeds and marked with  *)
(* the width its diagnostics show (compile_and_capture, capture_outputs,   *)
(* publish).                                                               *)
(***************************************************************************)
THEOREM CandidatesAreSound == ASSUME Calm PROVE Spec => []CandidateSound
<1>1. Init => RunsInv
      BY RunsInit
<1>2. RunsInv /\ [Next]_vars => RunsInv'
      BY RunsNext
<1>3. RunsInv => CandidateSound
      BY DEF RunsInv, StoresSound, Sound, CandidateSound
<1> QED
    BY <1>1, <1>2, <1>3, PTL DEF Spec

(***************************************************************************)
(* What a hit leaves on disk is one whole result of contents the inputs    *)
(* had while the job ran, from scratch, with no other checkout's paths and *)
(* for this terminal's width (validate_candidate, restore_with, the memo   *)
(* of digests.rs).                                                         *)
(***************************************************************************)
THEOREM HitsAreSound == ASSUME Calm PROVE Spec => []HitSound
<1>1. Init => RunsInv
      BY RunsInit
<1>2. RunsInv /\ [Next]_vars => RunsInv'
      BY RunsNext
<1>3. RunsInv => HitSound
      BY DEF RunsInv, CheckoutInv, HitInv, Fitting, At, HitSound
<1> QED
    BY <1>1, <1>2, <1>3, PTL DEF Spec
=============================================================================
