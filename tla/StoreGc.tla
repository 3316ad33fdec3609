------------------------------ MODULE StoreGc -------------------------------
(***************************************************************************)
(* The store of a bellowsd server and its collection:                      *)
(* crates/bellows-core/src/lib.rs (Store), crates/bellows-core/src/gc.rs   *)
(* (collect) and the publishing handlers of                                *)
(* crates/bellows-server/src/main.rs.                                      *)
(*                                                                         *)
(* Publishers offer the blobs of a record one by one and then send the     *)
(* record; the server verifies the blobs and writes it under its write     *)
(* lock.  A collection rotates the access journal, reads the store without *)
(* a lock, plans, and applies the plan in steps that each take the write   *)
(* lock and the store's mutation lock.  Everything else interleaves.       *)
(***************************************************************************)
EXTENDS GcPlan, Sequences

CONSTANTS
  Keys, Actions,   \* static keys and action keys of compiler candidates
  Names,           \* declared actions and archives: records with a name
  Archives,        \* the names that are archives
  Blobs,
  Publishers,
  Requests,        \* what publishers publish, see below
  Budgets,         \* the max_bytes of collections
  MaxCandidates,   \* candidates kept per static key
  Slack,           \* COARSE_CLOCK_SLACK_MS
  Batch,           \* BATCH: files visited under one hold of the locks
  MaxTime,         \* bound: the clock stops here
  MaxPublications, \* bound: publications begun
  MaxUses,         \* bound: hits recorded
  MaxCollections,  \* bound: collections begun
  MaxFaults,       \* bound: crashes, failed collections, bad and missing disk blocks
  None

ASSUME BoundsAssumption ==
  /\ MaxCandidates \in Nat /\ Slack \in Nat /\ Batch \in Nat \ {0}
  /\ MaxTime \in Nat
  /\ MaxPublications \in Nat /\ MaxUses \in Nat
  /\ MaxCollections \in Nat /\ MaxFaults \in Nat
  /\ Grace \in Nat /\ Archives \subseteq Names

(***************************************************************************)
(* Record files and blob files are in directories of their own, one for    *)
(* each kind, and no publisher is the collection; None is nothing else.    *)
(***************************************************************************)
ASSUME DistinctAssumption ==
  /\ Keys \cap Names = {} /\ (Keys \cup Names) \cap Blobs = {}
  /\ None \notin Publishers \cup Blobs \cup {"gc"} /\ "gc" \notin Publishers

(***************************************************************************)
(* A request is [kind, key, action, inputs, blobs].  Kind "candidate" is a *)
(* compiler result; "named" a declared action run by the client, or an     *)
(* archive, with its name as key; "execute" a declared action the server   *)
(* runs: its inputs are offered, the rest of its blobs are the outputs.    *)
(***************************************************************************)
ASSUME RequestsAssumption ==
  \A r \in Requests :
    /\ r.kind \in {"candidate", "named", "execute"}
    /\ r.kind = "candidate" => r.key \in Keys /\ r.action \in Actions
    /\ r.kind # "candidate" => r.key \in Names
    /\ r.inputs \subseteq r.blobs /\ r.blobs \subseteq Blobs

VARIABLES
  file,      \* blob files: [state, mtime]; "absent" ones were never there or
             \* collected, "removed" ones went bad and are being replaced
  index,     \* candidate indexes, newest first: [action, created, blobs]
  named,     \* declared and archive records: [created, written, blobs], or None
  journal,   \* access journal: [current, rotated]
  use,       \* the hit being recorded: an open journal, or None
  writer,    \* who holds the server's write lock: a publisher, "gc", or None
  pub,       \* publishers: [pc, request, left, created, log, moving]
  gc,        \* the collection
  now,       \* the clock
  begun      \* counts what the bounds bound

vars == <<file, index, named, journal, use, writer, pub, gc, now, begun>>

-----------------------------------------------------------------------------
(* A journal opened for append: the line, and what became of the file. *)
Open(key, action) == [line |-> <<key, action, now>>, into |-> "current"]

(* Appending a whole line to the open journal; a removed file keeps nothing. *)
Appended(log) ==
  CASE log.into = "current" -> [journal EXCEPT !.current = Append(@, log.line)]
    [] log.into = "rotated" -> [journal EXCEPT !.rotated = @ \cup {log.line}]
    [] OTHER -> journal

(* Every open journal, when the files of the directory are moved or removed. *)
Moved(log, from, to) ==
  IF log # None /\ log.into = from THEN [log EXCEPT !.into = to] ELSE log

MoveJournals(from, to) ==
  /\ use' = Moved(use, from, to)
  /\ pub' = [p \in Publishers |-> [pub[p] EXCEPT !.log = Moved(@, from, to)]]

Good(b) == file[b].state = "good"
OnDisk(b) == file[b].state \in {"good", "corrupt"}
AllGood(B) == \A b \in B : Good(b)

(* Store::with_mutation_lock and the server's write lock are free. *)
Unlocked == writer = None /\ \A p \in Publishers : pub[p].moving = None

IdlePublisher ==
  [pc |-> "idle", request |-> None, left |-> {}, created |-> 0, log |-> None, moving |-> None]

IdleGc ==
  [pc |-> "idle", started |-> 0, max_bytes |-> 0, journal |-> {}, listed |-> None,
   unread |-> {}, units |-> <<>>, evicted |-> {}, doomed |-> {}, batch |-> {}, removing |-> None,
   offset |-> 0, uses |-> {}, blobs |-> {}]

Init ==
  /\ file = [b \in Blobs |-> [state |-> "absent", mtime |-> 0]]
  /\ index = [k \in Keys |-> <<>>]
  /\ named = [n \in Names |-> None]
  /\ journal = [current |-> <<>>, rotated |-> {}]
  /\ use = None
  /\ writer = None
  /\ pub = [p \in Publishers |-> IdlePublisher]
  /\ gc = IdleGc
  /\ now = 0
  /\ begun = [publications |-> 0, uses |-> 0, collections |-> 0, faults |-> 0, unlogged |-> 0]

-----------------------------------------------------------------------------
(* Counts one more of a bounded kind of step. *)
Bounded(kind, bound) ==
  begun[kind] < bound /\ begun' = [begun EXCEPT ![kind] = @ + 1]

(* A client has a result to publish. *)
Begin(p, r) ==
  /\ pub[p].pc = "idle"
  /\ Bounded("publications", MaxPublications)
  /\ pub' = [pub EXCEPT ![p] =
       [pc |-> "offer", request |-> r, created |-> now, log |-> None, moving |-> None,
        left |-> IF r.kind = "execute" THEN r.inputs ELSE r.blobs]]
  /\ UNCHANGED <<file, index, named, journal, use, writer, gc, now>>

Offered(p, b) == pub' = [pub EXCEPT ![p].left = @ \ {b}, ![p].moving = None]

(* Blob b is the next one of p's to be looked at or uploaded. *)
Offering(p, b) == b \in pub[p].left /\ pub[p].moving = None

(* HEAD of a blob: a good copy is refreshed, without any lock. *)
HeadBlob(p, b) ==
  /\ pub[p].pc = "offer" /\ Offering(p, b)
  /\ Good(b)
  /\ file' = [file EXCEPT ![b].mtime = now]
  /\ Offered(p, b)
  /\ UNCHANGED <<index, named, journal, use, writer, gc, now, begun>>

(* Store::commit_blob, for an upload (PUT) or an output of an execution: a   *)
(* good copy is refreshed, an absent one moved into place ...                *)
CommitBlob(p, b) ==
  /\ pub[p].pc \in {"offer", "outputs"} /\ Offering(p, b)
  /\ Unlocked
  /\ file[b].state # "corrupt"
  /\ file' = [file EXCEPT ![b] = [state |-> "good", mtime |-> now]]
  /\ Offered(p, b)
  /\ UNCHANGED <<index, named, journal, use, writer, gc, now, begun>>

(* ... and a corrupt one removed first, with the mutation lock held until    *)
(* the new copy is in place.                                                 *)
RemoveCorrupt(p, b) ==
  /\ pub[p].pc \in {"offer", "outputs"} /\ Offering(p, b)
  /\ Unlocked
  /\ file[b].state = "corrupt"
  /\ file' = [file EXCEPT ![b].state = "removed"]
  /\ pub' = [pub EXCEPT ![p].moving = b]
  /\ UNCHANGED <<index, named, journal, use, writer, gc, now, begun>>

MoveBlob(p) ==
  /\ pub[p].pc \in {"offer", "outputs"} /\ pub[p].moving # None
  /\ file' = [file EXCEPT ![pub[p].moving] = [state |-> "good", mtime |-> now]]
  /\ Offered(p, pub[p].moving)
  /\ UNCHANGED <<index, named, journal, use, writer, gc, now, begun>>

Sending(p, kind) ==
  /\ pub[p].pc = "offer" /\ pub[p].left = {}
  /\ pub[p].request.kind = kind

(* The publication ended, well or not. *)
Ended(p) == pub' = [pub EXCEPT ![p] = IdlePublisher]

(* Vec::retain: the elements of s that are in T, in their order. *)
Retained(s, T) ==
  LET kept[n \in 0 .. Len(s)] ==
        IF n = 0 THEN <<>>
        ELSE IF s[n] \in T THEN Append(kept[n - 1], s[n])
        ELSE kept[n - 1] IN
  kept[Len(s)]

(* The index with the candidate in front, the record it replaces dropped. *)
WithCandidate(ix, c) ==
  LET new == <<c>> \o Retained(ix, {d \in ToSet(ix) : d.action # c.action}) IN
  SubSeq(new, 1, Min({Len(new), Max({MaxCandidates, 1})}))

(* store_candidate: verify every blob, write the index, keep both locks for  *)
(* the journal.                                                              *)
PutCandidate(p) ==
  LET r == pub[p].request IN
  /\ Sending(p, "candidate")
  /\ Unlocked
  /\ AllGood(r.blobs)
  /\ index' = [index EXCEPT ![r.key] = WithCandidate(@,
       [action |-> r.action, created |-> pub[p].created, blobs |-> r.blobs])]
  /\ writer' = p
  /\ pub' = [pub EXCEPT ![p].pc = "journal"]
  /\ UNCHANGED <<file, named, journal, use, gc, now, begun>>

(* Store::record_use of a publication, in two system calls. *)
OpenJournal(p) ==
  /\ pub[p].pc = "journal" /\ pub[p].log = None
  /\ pub' = [pub EXCEPT ![p].log =
               Open(pub[p].request.key, pub[p].request.action)]
  /\ UNCHANGED <<file, index, named, journal, use, writer, gc, now, begun>>

AppendJournal(p) ==
  /\ pub[p].pc = "journal" /\ pub[p].log # None
  /\ journal' = Appended(pub[p].log)
  /\ writer' = None
  /\ Ended(p)
  /\ UNCHANGED <<file, index, named, use, gc, now, begun>>

(* The disk is full: the index is written and its line is not. *)
JournalFails(p) ==
  /\ pub[p].pc = "journal"
  /\ begun.faults < MaxFaults
  /\ begun' = [begun EXCEPT !.faults = @ + 1, !.unlogged = @ + 1]
  /\ writer' = None
  /\ Ended(p)
  /\ UNCHANGED <<file, index, named, journal, use, gc, now>>

(* Writes over what the name is bound to. *)
WrittenOver(p) ==
  LET r == pub[p].request IN
  named' = [named EXCEPT ![r.key] =
              [created |-> pub[p].created, written |-> now, blobs |-> r.blobs]]

(* put_declared_unlocked and put_archive_unlocked: a name is bound once; a   *)
(* second record is acknowledged or refused, and changes nothing.            *)
Written(p) ==
  LET r == pub[p].request IN
  named' = IF named[r.key] # None THEN named
           ELSE [named EXCEPT ![r.key] =
                   [created |-> pub[p].created, written |-> now, blobs |-> r.blobs]]

(* PUT of a declared action or an archive: verified and written under the    *)
(* write lock.                                                               *)
PutNamed(p) ==
  /\ Sending(p, "named")
  /\ Unlocked
  /\ AllGood(pub[p].request.blobs)
  /\ Written(p)
  /\ Ended(p)
  /\ UNCHANGED <<file, index, journal, use, writer, gc, now, begun>>

(* A record that names an absent or corrupt blob is refused, under the       *)
(* write lock alone.                                                         *)
Refuse(p) ==
  /\ Sending(p, "candidate") \/ Sending(p, "named")
  /\ writer = None
  /\ ~AllGood(pub[p].request.blobs)
  /\ Ended(p)
  /\ UNCHANGED <<file, index, named, journal, use, writer, gc, now, begun>>

(* execute: one execution per key; a record that exists is the answer.       *)
(* Otherwise the inputs are read and the command runs.                       *)
Execute(p) ==
  LET r == pub[p].request IN
  /\ Sending(p, "execute")
  /\ \A q \in Publishers : pub[q].pc = "outputs" => pub[q].request.key # r.key
  /\ IF named[r.key] # None \/ ~AllGood(r.inputs)
     THEN Ended(p)
     ELSE pub' = [pub EXCEPT ![p].pc = "outputs", ![p].left = r.blobs \ r.inputs,
                             ![p].created = now]
  /\ UNCHANGED <<file, index, named, journal, use, writer, gc, now, begun>>

(* The end of execute_declared: put_declared alone, unverified and outside   *)
(* the server's write lock.                                                  *)
PutExecuted(p) ==
  /\ pub[p].pc = "outputs" /\ pub[p].left = {}
  /\ Unlocked
  /\ Written(p)
  /\ Ended(p)
  /\ UNCHANGED <<file, index, journal, use, writer, gc, now, begun>>

(* A client gives up: an upload failed, at the move into place perhaps, or   *)
(* the command, or it was killed.                                            *)
GiveUp(p) ==
  /\ pub[p].pc \in {"offer", "outputs"}
  /\ Ended(p)
  /\ UNCHANGED <<file, index, named, journal, use, writer, gc, now, begun>>

-----------------------------------------------------------------------------
(* Store::record_use of a hit: no lock, and no look at the index. *)
UseCandidate(k, c) ==
  /\ use = None
  /\ Bounded("uses", MaxUses)
  /\ use' = Open(k, c.action)
  /\ UNCHANGED <<file, index, named, journal, writer, pub, gc, now>>

AppendUse ==
  /\ use # None
  /\ journal' = Appended(use)
  /\ use' = None
  /\ UNCHANGED <<file, index, named, writer, pub, gc, now, begun>>

-----------------------------------------------------------------------------
(* Store::collect takes its time, then rotates the journal. *)
GcBegin(max) ==
  /\ gc.pc = "idle"
  /\ Bounded("collections", MaxCollections)
  /\ gc' = [IdleGc EXCEPT !.pc = "rotate", !.started = now, !.max_bytes = max]
  /\ UNCHANGED <<file, index, named, journal, use, writer, pub, now>>

GcRotate ==
  /\ gc.pc = "rotate"
  /\ journal' = [current |-> <<>>, rotated |-> journal.rotated \cup ToSet(journal.current)]
  /\ MoveJournals("current", "rotated")
  /\ gc' = [gc EXCEPT !.pc = "journal"]
  /\ UNCHANGED <<file, index, named, writer, now, begun>>

(* Snapshot::read: the journals, then the blobs, then record by record. *)
GcReadJournal ==
  /\ gc.pc = "journal"
  /\ gc' = [gc EXCEPT !.pc = "list",
                      !.journal = journal.rotated \cup ToSet(journal.current)]
  /\ UNCHANGED <<file, index, named, journal, use, writer, pub, now, begun>>

GcListBlobs ==
  /\ gc.pc = "list"
  /\ gc' = [gc EXCEPT !.pc = "indexes", !.unread = Keys, !.listed =
       [b \in {x \in Blobs : OnDisk(x)} |->
          [bytes |-> 1, modified |-> file[b].mtime]]]
  /\ UNCHANGED <<file, index, named, journal, use, writer, pub, now, begun>>

(* Last use of a candidate: its creation or its newest line. *)
LastUsed(k, c) ==
  Max({c.created} \cup {l[3] : l \in {m \in gc.journal : m[1] = k /\ m[2] = c.action}})

CandidateUnit(k, c) ==
  [path |-> k, action |-> c.action, created |-> c.created,
   candidate |-> TRUE, protocol |-> 1, kind |-> "library",
   last |-> LastUsed(k, c), blobs |-> c.blobs \cap DOMAIN gc.listed]

NamedUnit(n) ==
  [path |-> n, action |-> None, created |-> named[n].created,
   candidate |-> FALSE, protocol |-> 1, kind |-> "declared",
   last |-> IF n \in Archives THEN Max({named[n].written, named[n].created})
            ELSE named[n].written,
   blobs |-> named[n].blobs \cap DOMAIN gc.listed]

GcReadIndex(k) ==
  /\ gc.pc = "indexes" /\ k \in gc.unread
  /\ gc' = [gc EXCEPT !.unread = @ \ {k}, !.units = @ \o
       [i \in DOMAIN index[k] |-> CandidateUnit(k, index[k][i])]]
  /\ UNCHANGED <<file, index, named, journal, use, writer, pub, now, begun>>

GcReadNames ==
  /\ gc.pc = "indexes" /\ gc.unread = {}
  /\ gc' = [gc EXCEPT !.pc = "names", !.unread = Names]
  /\ UNCHANGED <<file, index, named, journal, use, writer, pub, now, begun>>

GcReadNamed(n) ==
  /\ gc.pc = "names" /\ n \in gc.unread
  /\ gc' = [gc EXCEPT !.unread = @ \ {n}, !.units =
       IF named[n] = None THEN @ ELSE Append(@, NamedUnit(n))]
  /\ UNCHANGED <<file, index, named, journal, use, writer, pub, now, begun>>

(* Plan::new; unread becomes the record files to visit. *)
GcMakePlan ==
  /\ gc.pc = "names" /\ gc.unread = {}
  /\ LET plan == Plan([units |-> gc.units, blobs |-> gc.listed],
                      [max_bytes |-> gc.max_bytes, min_protocol |-> 0,
                       max_executable_bytes |-> NoBudget], gc.started) IN
     gc' = [gc EXCEPT !.pc = "records", !.evicted = plan.evicted,
              !.journal = {}, !.listed = None,
              !.unread = {gc.units[i].path : i \in plan.evicted},
              !.doomed = {f[1] : f \in plan.freed} \cup plan.unreferenced]
  /\ UNCHANGED <<file, index, named, journal, use, writer, pub, now, begun>>

(* A refresh that trusts the lines and does not reread their indexes. *)
RefreshedUsesOnly(g) ==
  LET new == {journal.current[i] : i \in g.offset + 1 .. Len(journal.current)} IN
  [g EXCEPT !.offset = Len(journal.current),
            !.uses = @ \cup {<<l[1], l[2]>> : l \in new}]

(* Recent::refresh: the lines since the last look, and every blob of the     *)
(* indexes they name.                                                        *)
Refreshed(g) ==
  LET new  == {journal.current[i] : i \in g.offset + 1 .. Len(journal.current)}
      read == UNION {ToSet(index[l[1]]) : l \in new} IN
  [g EXCEPT !.offset = Len(journal.current),
            !.uses = @ \cup {<<l[1], l[2]>> : l \in new},
            !.blobs = @ \cup UNION {c.blobs : c \in read}]

Planned(g, path) == {g.units[i] : i \in {j \in g.evicted : g.units[j].path = path}}

(* Evicts what the plan says, used since or not. *)
SurvivesByPlan(g, k, c) ==
  ~ \E u \in Planned(g, k) : u.action = c.action

(* evict_from: a planned candidate goes unless it was used or replaced. *)
Survives(g, k, c) ==
  ~ \E u \in Planned(g, k) :
      u.action = c.action /\ u.created = c.created /\ <<k, c.action>> \notin g.uses

(* The files a batch is taken from, the blobs before the records. *)
RemainingBlobsFirst == IF gc.doomed # {} THEN gc.doomed ELSE gc.unread

(* The files a batch is taken from: the records, then the blobs. *)
Remaining == IF gc.unread # {} THEN gc.unread ELSE gc.doomed

(* Plan::apply takes both locks and rereads the journal for each batch. *)
GcLock(files) ==
  /\ gc.pc = "records"
  /\ Unlocked
  /\ files # {} /\ Cardinality(files) = Min({Batch, Cardinality(Remaining)})
  /\ gc' = [Refreshed(gc) EXCEPT !.batch = files]
  /\ writer' = "gc"
  /\ UNCHANGED <<file, index, named, journal, use, pub, now, begun>>

(* The locks go with the last file of the batch. *)
Visited(f) == writer' = IF gc.batch = {f} THEN None ELSE writer

(* One record file of the batch. *)
GcEvict(path) ==
  /\ path \in gc.batch \cap gc.unread
  /\ gc' = [gc EXCEPT !.unread = @ \ {path}, !.batch = @ \ {path}]
  /\ Visited(path)
  /\ IF path \in Keys
     THEN /\ index' = [index EXCEPT ![path] =
                         Retained(@, {c \in ToSet(@) : Survives(gc, path, c)})]
          /\ UNCHANGED named
     ELSE /\ named' = [named EXCEPT ![path] = None]
          /\ UNCHANGED index
  /\ UNCHANGED <<file, journal, use, pub, now, begun>>

(* One blob file of the batch is looked at: kept ...                         *)
GcCheckBlob(b) ==
  /\ b \in gc.batch \cap gc.doomed /\ gc.removing = None
  /\ LET keep == \/ ~OnDisk(b)
                 \/ file[b].mtime + Slack >= gc.started
                 \/ b \in gc.blobs IN
     \/ /\ keep
        /\ gc' = [gc EXCEPT !.doomed = @ \ {b}, !.batch = @ \ {b}]
        /\ Visited(b)
     \/ /\ ~keep
        /\ gc' = [gc EXCEPT !.doomed = @ \ {b}, !.removing = b]
        /\ UNCHANGED writer
  /\ UNCHANGED <<file, index, named, journal, use, pub, now, begun>>

(* Removed, with the lock never given back. *)
GcRemoveBlobLocked ==
  /\ gc.removing # None
  /\ file' = [file EXCEPT ![gc.removing].state = "absent"]
  /\ gc' = [gc EXCEPT !.batch = @ \ {gc.removing}, !.removing = None]
  /\ UNCHANGED <<index, named, journal, use, writer, pub, now, begun>>

(* ... or removed. *)
GcRemoveBlob ==
  /\ gc.removing # None
  /\ file' = [file EXCEPT ![gc.removing].state = "absent"]
  /\ gc' = [gc EXCEPT !.batch = @ \ {gc.removing}, !.removing = None]
  /\ Visited(gc.removing)
  /\ UNCHANGED <<index, named, journal, use, pub, now, begun>>

(* compact_journal: one line per candidate that stays and was used. *)
GcCompact ==
  /\ gc.pc = "records" /\ gc.unread = {} /\ gc.doomed = {} /\ gc.batch = {}
  /\ journal' = [journal EXCEPT !.rotated =
       {<<gc.units[i].path, gc.units[i].action, gc.units[i].last>> :
          i \in {j \in DOMAIN gc.units \ gc.evicted :
                   gc.units[j].candidate /\ gc.units[j].last > gc.units[j].created}}]
  /\ MoveJournals("rotated", "removed")
  /\ gc' = IdleGc
  /\ UNCHANGED <<file, index, named, writer, now, begun>>

(* The collection fails: a file cannot be read, decoded or removed. *)
GcFail ==
  /\ gc.pc # "idle"
  /\ Bounded("faults", MaxFaults)
  /\ gc' = IdleGc
  /\ writer' = IF writer = "gc" THEN None ELSE writer
  /\ UNCHANGED <<file, index, named, journal, use, pub, now>>

-----------------------------------------------------------------------------
(* The server dies and is started again: only the files are left, and the   *)
(* clients between two requests.                                             *)
Crash ==
  /\ Bounded("faults", MaxFaults)
  /\ pub' = [p \in Publishers |->
               IF pub[p].pc = "offer" THEN [pub[p] EXCEPT !.moving = None]
               ELSE IdlePublisher]
  /\ gc' = IdleGc
  /\ use' = None
  /\ writer' = None
  /\ UNCHANGED <<file, index, named, journal, now>>

(* A blob file goes bad on disk. *)
Decay(b) ==
  /\ Good(b)
  /\ Bounded("faults", MaxFaults)
  /\ file' = [file EXCEPT ![b].state = "corrupt"]
  /\ UNCHANGED <<index, named, journal, use, writer, pub, gc, now>>

Tick ==
  /\ now < MaxTime
  /\ now' = now + 1
  /\ UNCHANGED <<file, index, named, journal, use, writer, pub, gc, begun>>

PublisherNext(p) ==
  \/ \E r \in Requests : Begin(p, r)
  \/ \E b \in Blobs : HeadBlob(p, b) \/ CommitBlob(p, b) \/ RemoveCorrupt(p, b)
  \/ MoveBlob(p)
  \/ PutCandidate(p) \/ OpenJournal(p) \/ AppendJournal(p) \/ JournalFails(p)
  \/ PutNamed(p) \/ Execute(p) \/ PutExecuted(p)
  \/ Refuse(p) \/ GiveUp(p)

GcNext ==
  \/ \E max \in Budgets : GcBegin(max)
  \/ GcRotate \/ GcReadJournal \/ GcListBlobs
  \/ \E k \in Keys : GcReadIndex(k)
  \/ GcReadNames
  \/ \E n \in Names : GcReadNamed(n)
  \/ GcMakePlan
  \/ \E files \in SUBSET Remaining : GcLock(files)
  \/ \E path \in Keys \cup Names : GcEvict(path)
  \/ \E b \in Blobs : GcCheckBlob(b)
  \/ GcRemoveBlob \/ GcCompact \/ GcFail

Next ==
  \/ \E p \in Publishers : PublisherNext(p)
  \/ \E k \in Keys : \E c \in ToSet(index[k]) : UseCandidate(k, c)
  \/ AppendUse
  \/ GcNext
  \/ Crash
  \/ \E b \in Blobs : Decay(b)
  \/ Tick

Spec == Init /\ [][Next]_vars

-----------------------------------------------------------------------------
Lines == Keys \X Actions \X (0 .. MaxTime)

OpenJournals == [line : Lines, into : {"current", "rotated", "removed"}]
Logs == OpenJournals \cup {None}

ASSUME LogsAssumption == None \notin OpenJournals

Candidates == [action : Actions, created : 0 .. MaxTime, blobs : SUBSET Blobs]
Records    == [created : 0 .. MaxTime, written : 0 .. MaxTime, blobs : SUBSET Blobs]

Publications ==
  [pc : {"offer", "journal", "outputs"}, request : Requests, left : SUBSET Blobs,
   created : 0 .. MaxTime, log : Logs, moving : Blobs \cup {None}]

(* The types of the store, its publishers and its locks; an index holds at  *)
(* most MaxCandidates candidates, one for an action key (put_candidate), and *)
(* the write lock is held by the step that is inside it.                     *)
StoreTypeOK ==
  /\ file \in [Blobs -> [state : {"absent", "good", "corrupt", "removed"}, mtime : 0 .. MaxTime]]
  /\ \A k \in Keys :
       /\ index[k] \in Seq(Candidates)
       /\ Len(index[k]) <= Max({MaxCandidates, 1})
       /\ \A i, j \in DOMAIN index[k] : index[k][i].action = index[k][j].action => i = j
  /\ named \in [Names -> Records \cup {None}]
  /\ journal.current \in Seq(Lines) /\ journal.rotated \subseteq Lines
  /\ use \in Logs
  /\ pub \in [Publishers -> Publications \cup {IdlePublisher}]
  /\ \A p \in Publishers : writer = p <=> pub[p].pc = "journal"
  /\ writer = "gc" <=> gc.batch # {}
  /\ gc.removing # None => gc.removing \in gc.batch

(***************************************************************************)
(* A compiler candidate a client can be answered has all its blobs on      *)
(* disk, whatever a collection does while it is published, used, replaced  *)
(* or evicted, and wherever the server dies, except a blob that went bad   *)
(* on disk and that commit_blob removed to replace it (no use to a client  *)
(* before, and gone if the rename fails): gc.rs deletes blobs after        *)
(* records and rereads the journal under the lock.  It rests on the        *)
(* journal: one line that could not be appended and a running collection   *)
(* does not see the candidate.                                             *)
(***************************************************************************)
NoDanglingCandidate ==
  begun.unlogged = 0 =>
    \A k \in Keys : \A c \in ToSet(index[k]) : \A b \in c.blobs : file[b].state # "absent"

(***************************************************************************)
(* A collection never evicts a candidate that was published again or whose *)
(* use was journalled between the rotation of the journal and the batch's  *)
(* look at it under the lock (evict_from, gc.rs:621-666), although it      *)
(* planned with what it read before.                                       *)
(***************************************************************************)
EvictsOnlyUnused ==
  [][gc.pc = "records" =>
       \A k \in Keys : \A c \in ToSet(index[k]) \ ToSet(index'[k]) :
         (\A p \in Publishers : pub'[p] = pub[p]) =>
           \A i \in 1 .. gc.offset :
             journal.current[i][1] = k => journal.current[i][2] # c.action]_vars

(* What name n is bound to changes in no step but an eviction. *)
StaysBound(n) ==
  named[n] # None => named'[n] = named[n] \/ (named'[n] = None /\ gc.pc = "records")

(***************************************************************************)
(* A name stays bound to what was published under it until a collection    *)
(* evicts the record: no publication and no execution replaces another's   *)
(* (put_declared_unlocked, put_archive_unlocked).                          *)
(***************************************************************************)
PublishedOnce == [][\A n \in Names : StaysBound(n)]_vars

(* The collection deletes blob b in this step. *)
Deleted(b) == file[b].state # "absent" /\ file'[b].state = "absent"

(***************************************************************************)
(* "A blob is deleted only when no record references it" (gc.rs:10).       *)
(***************************************************************************)
DeletedIsUnreferenced ==
  [][\A b \in Blobs : Deleted(b) =>
       /\ \A k \in Keys : \A c \in ToSet(index[k]) : b \notin c.blobs
       /\ \A n \in Names : named[n] # None => b \notin named[n].blobs]_vars
=============================================================================
