---------------------------- MODULE RelayProofs -----------------------------
(***************************************************************************)
(* For any wrappers, blobs, limits of the spool and of the uploads: the    *)
(* relay's order of publication, the truth of a clean end, and the spool's *)
(* accounts.                                                               *)
(***************************************************************************)
EXTENDS Relay, FiniteSetTheorems, TLAPS

WrapperStates == [pc : {"blobs", "release", "other", "end"}, other : BOOLEAN, horizon : Nat,
                  stored : BOOLEAN]
PutStates     == Waits \cup {"todo", "ok", "failed"}
Orders        == [next : Nat, open : SUBSET Nat]
DeferredTasks == [kind : {"record", "release"}, by : Wrappers, blobs : Nat, records : Nat,
                  sequence : Nat \cup {None}]

(* The types of what a proof refers to.                                      *)
RelayTypes ==
  /\ wrapper \in [Wrappers -> WrapperStates]
  /\ put = [w \in Wrappers |-> put[w]] /\ \A w \in Wrappers : put[w] \in [Needs[w] -> PutStates]
  /\ state \in [Blobs -> {None, "pending", "done", "failed"}]
  /\ blob_order \in Orders /\ record_order \in Orders
  /\ spool \in [bytes : Int, files : Int]
  /\ upload \subseteq Tasks
  /\ deferred \subseteq DeferredTasks
  /\ stats \in [blobs : SUBSET Blobs, records : SUBSET Wrappers]
  /\ relay \in {"listening", "draining", "drained", "abandoned"}
  /\ server \in [blobs : SUBSET Blobs, records : SUBSET Wrappers, refused : SUBSET Wrappers,
                 released : SUBSET Wrappers, evictions : Nat]

-----------------------------------------------------------------------------
(***************************************************************************)
(* Records and releases.  A record under way is an open sequence number of *)
(* its own, and a release of the same wrapper waits for all numbers up to  *)
(* and including it; a wrapper that has sent its release sends no record.  *)
(***************************************************************************)
RecordTasks  == {t \in deferred : t.kind = "record"}
ReleaseTasks == {t \in deferred : t.kind = "release"}

RecordsOpen ==
  /\ \A s \in record_order.open : s < record_order.next
  /\ \A t \in RecordTasks :
       t.sequence \in record_order.open /\ ~At(t.by, "blobs") /\ wrapper[t.by].stored
  /\ \A t, u \in RecordTasks : t.sequence = u.sequence => t = u

ReleasesLast ==
  /\ \A w \in server.released : At(w, "end")
  /\ \A t \in ReleaseTasks : At(t.by, "end")
  /\ \A t \in ReleaseTasks, u \in RecordTasks : u.by = t.by => u.sequence < t.records

(* What a wrapper was told is stored is under way, settled or lost with the  *)
(* process; a request that passes through is never told so.                  *)
StoredSettled ==
  \A w \in Wrappers :
    wrapper[w].stored =>
      /\ ~wrapper[w].other
      /\ \/ relay = "abandoned"
         \/ w \in server.records \cup stats.records
         \/ \E t \in RecordTasks : t.by = w

-----------------------------------------------------------------------------
(***************************************************************************)
(* Blobs.  An upload task is an open sequence number of its own.  A blob   *)
(* is safe before the horizon h when its upload failed, when the server    *)
(* has it or has collected something, or when its upload is one of those h *)
(* waits for.                                                              *)
(***************************************************************************)
UploadsOpen ==
  /\ \A s \in blob_order.open : s < blob_order.next
  /\ \A t \in upload : t.sequence \in blob_order.open
  /\ \A t, u \in upload : t.sequence = u.sequence => t = u

Unsettled(t) == t.step \in {"queued", "sending"}

Safe(b, h) ==
  \/ b \in stats.blobs
  \/ b \in server.blobs
  \/ server.evictions # 0
  \/ \E t \in upload : t.digest = b /\ Unsettled(t) /\ t.sequence < h

(* Every blob that was answered for is safe before the horizon of whatever   *)
(* names it.                                                                 *)
BlobsSafe ==
  relay # "abandoned" =>
    /\ \A b \in Blobs : Known(b) => Safe(b, blob_order.next)
    /\ \A w \in Wrappers : \A b \in Needs[w] : put[w][b] = "ok" => Safe(b, blob_order.next)
    /\ \A t \in RecordTasks : \A b \in Needs[t.by] : Safe(b, t.blobs)
    /\ \A w \in Wrappers : At(w, "other") => \A b \in Needs[w] : Safe(b, wrapper[w].horizon)

-----------------------------------------------------------------------------
(* The spool counts the uploads that have not freed their file, and no       *)
(* wrapper has more than fetch_concurrency puts under way.                   *)
Held == {t \in upload : t.step # "freed"}

SpoolCounts ==
  /\ IsFiniteSet(upload)
  /\ relay # "abandoned" =>
       spool.bytes = Cardinality(Held) /\ spool.files = Cardinality(Held)

PutsBounded ==
  \A w \in Wrappers :
    /\ IsFiniteSet(Open(w)) /\ Cardinality(Open(w)) <= Fetches
    /\ wrapper[w].stored => AllOk(w)

-----------------------------------------------------------------------------
(* What the steps are made of: one put changes, an order begins or ends a    *)
(* number, the server answers for a record.                                  *)
LEMMA PutStep ==
  ASSUME RelayTypes, NEW w \in Wrappers, NEW b \in Needs[w], NEW step \in PutStates,
         Put(w, b, step)
  PROVE  /\ put' = [v \in Wrappers |-> put'[v]]
         /\ \A v \in Wrappers : put'[v] \in [Needs[v] -> PutStates]
         /\ \A v \in Wrappers \ {w} : put'[v] = put[v]
         /\ \A c \in Needs[w] : put'[w][c] = IF c = b THEN step ELSE put[w][c]
<1>1. put' = [put EXCEPT ![w] = [put[w] EXCEPT ![b] = step]]
  BY DEF Put
<1>2. put[w] \in [Needs[w] -> PutStates] /\ put = [v \in Wrappers |-> put[v]]
  BY DEF RelayTypes
<1>3. put'[w] = [put[w] EXCEPT ![b] = step]
  BY <1>1, <1>2
<1>4. \A v \in Wrappers \ {w} : put'[v] = put[v]
  BY <1>1, <1>2
<1>5. put' = [v \in Wrappers |-> put'[v]]
  BY <1>1, <1>2
<1>6. put'[w] \in [Needs[w] -> PutStates]
  BY <1>2, <1>3
<1>7. \A v \in Wrappers : put'[v] \in [Needs[v] -> PutStates]
  BY <1>4, <1>6 DEF RelayTypes
<1>8. \A c \in Needs[w] : put'[w][c] = IF c = b THEN step ELSE put[w][c]
  BY <1>2, <1>3
<1> QED BY <1>4, <1>5, <1>7, <1>8

(* Order::begin and Order::finish.                                           *)
LEMMA BeginStep ==
  ASSUME NEW o \in Orders
  PROVE  Begun(o) \in Orders /\ Begun(o).next = o.next + 1 /\ Begun(o).open = o.open \cup {o.next}
BY DEF Orders, Begun

LEMMA DoneStep ==
  ASSUME NEW o \in Orders, NEW s
  PROVE  Done(o, s) \in Orders /\ Done(o, s).next = o.next /\ Done(o, s).open = o.open \ {s}
BY DEF Orders, Done

(* The answer settles the record of a compile one way or another, and is a   *)
(* refusal only when a blob of it is absent.                                 *)
LEMMA VerdictStep ==
  ASSUME RelayTypes, NEW w \in Wrappers, Verdict(w)
  PROVE  /\ stats' \in [blobs : SUBSET Blobs, records : SUBSET Wrappers]
         /\ server' \in [blobs : SUBSET Blobs, records : SUBSET Wrappers,
                         refused : SUBSET Wrappers, released : SUBSET Wrappers, evictions : Nat]
         /\ stats'.blobs = stats.blobs /\ stats.records \subseteq stats'.records
         /\ server'.blobs = server.blobs /\ server.records \subseteq server'.records
         /\ server'.released = server.released /\ server'.evictions = server.evictions
         /\ \/ server'.refused = server.refused
            \/ server'.refused = server.refused \cup {w} /\ ~ Needs[w] \subseteq server.blobs
         /\ ~wrapper[w].other => w \in server'.records \cup stats'.records
<1>1. stats \in [blobs : SUBSET Blobs, records : SUBSET Wrappers]
  BY DEF RelayTypes
<1>2. server \in [blobs : SUBSET Blobs, records : SUBSET Wrappers, refused : SUBSET Wrappers,
                  released : SUBSET Wrappers, evictions : Nat]
  BY DEF RelayTypes
<1>3. Noted(w) => /\ stats' \in [blobs : SUBSET Blobs, records : SUBSET Wrappers]
                  /\ stats'.blobs = stats.blobs /\ stats.records \subseteq stats'.records
                  /\ ~wrapper[w].other => w \in stats'.records
  BY <1>1 DEF Noted
<1>4. CASE UNCHANGED stats /\ server' = [server EXCEPT !.records = @ \cup {w}]
  BY <1>1, <1>2, <1>4
<1>5. CASE /\ Noted(w) /\ ~ Needs[w] \subseteq server.blobs
           /\ server' = [server EXCEPT !.refused = @ \cup {w}]
  BY <1>2, <1>3, <1>5
<1>6. CASE Noted(w) /\ UNCHANGED server
  BY <1>2, <1>3, <1>6
<1> QED BY <1>4, <1>5, <1>6 DEF Verdict

(* A wrapper goes on with another value in two of its fields.                *)
LEMMA WrapperFields ==
  ASSUME NEW p \in WrapperStates, NEW h \in Nat
  PROVE  /\ [p EXCEPT !.pc = "other", !.horizon = h] \in WrapperStates
         /\ [p EXCEPT !.pc = "release", !.stored = TRUE] \in WrapperStates
<1>1. [p EXCEPT !.pc = "other"] \in WrapperStates /\ [p EXCEPT !.pc = "release"] \in WrapperStates
  BY DEF WrapperStates
<1>2. \A q \in WrapperStates : [q EXCEPT !.horizon = h] \in WrapperStates
  BY DEF WrapperStates
<1>3. \A q \in WrapperStates : [q EXCEPT !.stored = TRUE] \in WrapperStates
  BY DEF WrapperStates
<1> QED BY <1>1, <1>2, <1>3

(* The relay starts with the types of its state.                             *)
LEMMA TypesInit == Init => RelayTypes
<1> SUFFICES ASSUME Init PROVE RelayTypes
  OBVIOUS
<1>1. put = [w \in Wrappers |-> put[w]] /\ \A w \in Wrappers : put[w] \in [Needs[w] -> PutStates]
  BY DEF Init, PutStates, Waits
<1> QED BY <1>1 DEF Init, RelayTypes, WrapperStates, EmptyOrder, Orders, Tasks, DeferredTasks

(* Every step keeps the types.                                               *)
LEMMA TypesNext == RelayTypes /\ [Next]_vars => RelayTypes'
<1> SUFFICES ASSUME RelayTypes, [Next]_vars PROVE RelayTypes'
  OBVIOUS
<1> USE RelayAssumption
<1>1. ASSUME NEW w \in Wrappers, NEW b \in Blobs,
             KnownBlob(w, b) \/ PutBlob(w, b) \/ Recheck(w, b) \/ SpoolFails(w, b)
      PROVE  RelayTypes'
  <2>1. PICK step \in PutStates : b \in Needs[w] /\ Put(w, b, step)
    BY <1>1 DEF KnownBlob, PutBlob, Recheck, SpoolFails, Takes, Spooling, PutStates, Waits
  <2> QED
    BY <1>1, <2>1, PutStep DEF RelayTypes, KnownBlob, PutBlob, Recheck, SpoolFails
<1>2. ASSUME NEW w \in Wrappers, NEW b \in Blobs, Accept(w, b) PROVE RelayTypes'
  <2>1. b \in Needs[w] /\ Put(w, b, "ok") /\ "ok" \in PutStates
    BY <1>2 DEF Accept, Spooling, PutStates
  <2>2. /\ state' \in [Blobs -> {None, "pending", "done", "failed"}]
        /\ spool' \in [bytes : Int, files : Int]
    BY <1>2 DEF Accept, RelayTypes
  <2>3. blob_order' \in Orders /\ upload' \subseteq Tasks
    <3>1. blob_order.next \in Nat
      BY DEF RelayTypes, Orders
    <3>2. [digest |-> b, sequence |-> blob_order.next, step |-> "queued"] \in Tasks
      BY <3>1 DEF Tasks
    <3> QED BY <1>2, <3>2, BeginStep DEF Accept, RelayTypes
  <2> QED
    BY <1>2, <2>1, <2>2, <2>3, PutStep DEF Accept, RelayTypes
<1>3. ASSUME NEW w \in Wrappers, PublishFails(w) \/ OtherRequest(w) PROVE RelayTypes'
  <2>1. wrapper' \in [Wrappers -> WrapperStates]
    <3>1. blob_order.next \in Nat
      BY DEF RelayTypes, Orders
    <3>2. CASE PublishFails(w)
      BY <3>2, SMTT(30) DEF RelayTypes, WrapperStates, PublishFails
    <3>3. CASE OtherRequest(w)
      <4>1. wrapper' = [wrapper EXCEPT ![w] = [wrapper[w] EXCEPT !.pc = "other",
                                                                !.horizon = blob_order.next]]
        BY <3>3 DEF RelayTypes, OtherRequest
      <4>2. [wrapper[w] EXCEPT !.pc = "other", !.horizon = blob_order.next] \in WrapperStates
        BY <3>1, WrapperFields DEF RelayTypes
      <4> QED BY <4>1, <4>2 DEF RelayTypes
    <3> QED BY <1>3, <3>2, <3>3
  <2> QED BY <1>3, <2>1 DEF RelayTypes, PublishFails, OtherRequest
<1>4. ASSUME NEW w \in Wrappers, DeferRecord(w) PROVE RelayTypes'
  <2>1. Deferred(w, "record", record_order.next) \in DeferredTasks
    BY DEF RelayTypes, Orders, Deferred, DeferredTasks
  <2>2. wrapper' \in [Wrappers -> WrapperStates]
    <3>1. wrapper' = [wrapper EXCEPT ![w] = [wrapper[w] EXCEPT !.pc = "release", !.stored = TRUE]]
      BY <1>4 DEF RelayTypes, DeferRecord
    <3>2. [wrapper[w] EXCEPT !.pc = "release", !.stored = TRUE] \in WrapperStates
      BY WrapperFields DEF RelayTypes
    <3> QED BY <3>1, <3>2 DEF RelayTypes
  <2> QED BY <1>4, <2>1, <2>2, BeginStep DEF RelayTypes, DeferRecord
<1>5. ASSUME NEW w \in Wrappers, DeferRelease(w) PROVE RelayTypes'
  <2>1. Deferred(w, "release", None) \in DeferredTasks
    BY DEF RelayTypes, Orders, Deferred, DeferredTasks
  <2> QED BY <1>5, <2>1 DEF RelayTypes, WrapperStates, DeferRelease
<1>6. ASSUME NEW w \in Wrappers, ForwardOther(w) PROVE RelayTypes'
  BY <1>6, VerdictStep, SMTT(30) DEF RelayTypes, WrapperStates, ForwardOther
<1>7. ASSUME NEW t \in upload,
             \/ StartUpload(t) \/ UploadOk(t) \/ UploadFails(t) \/ FreeSpool(t)
      PROVE  RelayTypes'
  <2>1. t \in Tasks
    BY DEF RelayTypes
  <2>2. upload' \subseteq Tasks
    BY <1>7, <2>1 DEF RelayTypes, Tasks, StartUpload, UploadOk, UploadFails, FreeSpool
  <2>3. /\ state' \in [Blobs -> {None, "pending", "done", "failed"}]
        /\ spool' \in [bytes : Int, files : Int]
    BY <1>7, <2>1 DEF RelayTypes, Tasks, StartUpload, UploadOk, UploadFails, FreeSpool
  <2>4. /\ stats' \in [blobs : SUBSET Blobs, records : SUBSET Wrappers]
        /\ server' \in [blobs : SUBSET Blobs, records : SUBSET Wrappers,
                        refused : SUBSET Wrappers, released : SUBSET Wrappers, evictions : Nat]
    BY <1>7, <2>1, SMTT(30) DEF RelayTypes, Tasks, StartUpload, UploadOk, UploadFails, FreeSpool
  <2> QED
    BY <1>7, <2>2, <2>3, <2>4 DEF RelayTypes, StartUpload, UploadOk, UploadFails, FreeSpool
<1>8. ASSUME NEW t \in upload, FinishUpload(t) PROVE RelayTypes'
  <2>1. /\ put' = [w \in Wrappers |-> put'[w]]
        /\ \A w \in Wrappers : put'[w] \in [Needs[w] -> PutStates]
    BY <1>8 DEF FinishUpload, RelayTypes, PutStates, Waits
  <2> QED BY <1>8, <2>1, DoneStep DEF RelayTypes, FinishUpload
<1>9. ASSUME NEW t \in deferred, SendRecord(t) PROVE RelayTypes'
  <2>1. t.by \in Wrappers
    BY DEF RelayTypes, DeferredTasks
  <2> QED BY <1>9, <2>1, VerdictStep, DoneStep DEF RelayTypes, SendRecord
<1>10. ASSUME NEW t \in deferred, SendRelease(t) PROVE RelayTypes'
  <2>1. t.by \in Wrappers
    BY DEF RelayTypes, DeferredTasks
  <2> QED BY <1>10, <2>1, SMTT(30) DEF RelayTypes, SendRelease
<1>11. CASE StopListening \/ Drained \/ DrainTimeout \/ UNCHANGED vars
  BY <1>11 DEF RelayTypes, StopListening, Drained, DrainTimeout, vars
<1>12. ASSUME NEW b \in Blobs, ServerEvicts(b) PROVE RelayTypes'
  <2>1. server' \in [blobs : SUBSET Blobs, records : SUBSET Wrappers, refused : SUBSET Wrappers,
                     released : SUBSET Wrappers, evictions : Nat]
    <3>1. server.blobs \ {b} \in SUBSET Blobs /\ server.evictions + 1 \in Nat
      BY DEF RelayTypes
    <3>2. server' = [server EXCEPT !.blobs = server.blobs \ {b}, !.evictions = server.evictions + 1]
      BY <1>12 DEF ServerEvicts
    <3> QED BY <3>1, <3>2 DEF RelayTypes
  <2> QED BY <1>12, <2>1 DEF RelayTypes, ServerEvicts
<1> QED
  BY <1>1, <1>2, <1>3, <1>4, <1>5, <1>6, <1>7, <1>8, <1>9, <1>10, <1>11, <1>12
  DEF Next, WrapperStep, TaskStep
-----------------------------------------------------------------------------
(* A wrapper never goes back: it sends its blobs once, ends once, and what   *)
(* it was told is stored stays told (Publication::publish).                  *)
LEMMA WrapperOnward ==
  ASSUME RelayTypes, [Next]_vars, NEW w \in Wrappers
  PROVE  /\ At(w, "blobs")' => At(w, "blobs")
         /\ At(w, "end") => At(w, "end")'
         /\ wrapper[w].stored => wrapper'[w].stored
         /\ wrapper'[w].other = wrapper[w].other
<1> USE DEF At
<1>1. CASE UNCHANGED wrapper
  BY <1>1
<1>2. ASSUME NEW v \in Wrappers,
             \/ PublishFails(v) \/ DeferRecord(v) \/ DeferRelease(v) \/ OtherRequest(v)
             \/ ForwardOther(v)
      PROVE  /\ wrapper'[w].pc = "blobs" => wrapper[w].pc = "blobs"
             /\ wrapper[w].pc = "end" => wrapper'[w].pc = "end"
             /\ wrapper[w].stored => wrapper'[w].stored
             /\ wrapper'[w].other = wrapper[w].other
  BY <1>2 DEF PublishFails, DeferRecord, DeferRelease, OtherRequest, ForwardOther,
              RelayTypes, WrapperStates
<1> QED
  BY <1>1, <1>2 DEF Next, WrapperStep, TaskStep, vars, KnownBlob, PutBlob, Recheck, Accept,
    SpoolFails, StartUpload, UploadOk, UploadFails, FreeSpool, FinishUpload, SendRecord,
    SendRelease, StopListening, Drained, DrainTimeout, ServerEvicts

ReleaseInv == RecordsOpen /\ ReleasesLast /\ ReleasedAfterRecord

(* Nothing is deferred at first.                                             *)
LEMMA ReleaseInit == Init => ReleaseInv
BY DEF Init, ReleaseInv, RecordsOpen, ReleasesLast, ReleasedAfterRecord, RecordTasks,
       ReleaseTasks, EmptyOrder

(* No step lets a release overtake the record of its wrapper: a new record   *)
(* takes a new number, a release is sent only when no number below its       *)
(* horizon is open.                                                          *)
LEMMA ReleaseNext ==
  ASSUME RelayTypes, ReleaseInv, [Next]_vars
  PROVE  ReleaseInv'
<1> USE DEF RecordTasks, ReleaseTasks, At
<1>0. /\ \A w \in Wrappers : /\ At(w, "blobs")' => At(w, "blobs")
                             /\ At(w, "end") => At(w, "end")'
                             /\ wrapper[w].stored => wrapper'[w].stored
      /\ deferred \subseteq DeferredTasks /\ \A t \in deferred : t.by \in Wrappers
      /\ server.released \subseteq Wrappers
      /\ record_order \in Orders /\ record_order.next \in Nat /\ record_order.open \subseteq Nat
  <2>1. \A w \in Wrappers : /\ At(w, "blobs")' => At(w, "blobs")
                            /\ At(w, "end") => At(w, "end")'
                            /\ wrapper[w].stored => wrapper'[w].stored
    BY WrapperOnward
  <2> QED BY <2>1 DEF RelayTypes, DeferredTasks, Orders
<1>1. ASSUME UNCHANGED record_order, deferred' \subseteq deferred,
             server'.released = server.released
      PROVE  ReleaseInv'
  BY <1>0, <1>1 DEF ReleaseInv, RecordsOpen, ReleasesLast, ReleasedAfterRecord
<1>2. ASSUME NEW w \in Wrappers, DeferRecord(w) PROVE ReleaseInv'
  <2> DEFINE new == Deferred(w, "record", record_order.next)
  <2>1. /\ new.kind = "record" /\ new.by = w /\ new.sequence = record_order.next
        /\ deferred' = deferred \cup {new} /\ server' = server /\ wrapper[w].pc = "blobs"
    BY <1>2 DEF DeferRecord, Deferred
  <2>2. wrapper'[w].pc = "release" /\ wrapper'[w].stored
    BY <1>2 DEF DeferRecord, RelayTypes, WrapperStates
  <2>3. /\ record_order'.next = record_order.next + 1
        /\ record_order'.open = record_order.open \cup {record_order.next}
    BY <1>0, <1>2, BeginStep DEF DeferRecord
  <2>4. RecordsOpen'
    BY <1>0, <2>1, <2>2, <2>3 DEF ReleaseInv, RecordsOpen
  <2>5. ReleasesLast' /\ ReleasedAfterRecord'
    BY <1>0, <2>1 DEF ReleaseInv, ReleasesLast, ReleasedAfterRecord
  <2> QED BY <2>4, <2>5 DEF ReleaseInv
<1>3. ASSUME NEW w \in Wrappers, DeferRelease(w) PROVE ReleaseInv'
  <2> DEFINE new == Deferred(w, "release", None)
  <2>1. /\ new.kind = "release" /\ new.by = w /\ new.records = record_order.next
        /\ deferred' = deferred \cup {new} /\ server' = server /\ record_order' = record_order
    BY <1>3 DEF DeferRelease, Deferred
  <2>2. wrapper'[w].pc = "end"
    BY <1>3 DEF DeferRelease, RelayTypes, WrapperStates
  <2>3. RecordsOpen' /\ ReleasedAfterRecord'
    BY <1>0, <2>1 DEF ReleaseInv, RecordsOpen, ReleasedAfterRecord
  <2>4. ReleasesLast'
    BY <1>0, <2>1, <2>2 DEF ReleaseInv, RecordsOpen, ReleasesLast
  <2> QED BY <2>3, <2>4 DEF ReleaseInv
<1>4. ASSUME NEW t \in deferred, SendRecord(t) PROVE ReleaseInv'
  <2>1. /\ server'.released = server.released /\ deferred' = deferred \ {t} /\ t.kind = "record"
    BY <1>0, <1>4, VerdictStep DEF SendRecord
  <2>2. record_order'.next = record_order.next /\ record_order'.open = record_order.open \ {t.sequence}
    BY <1>0, <1>4, DoneStep DEF SendRecord
  <2> QED BY <1>0, <2>1, <2>2 DEF ReleaseInv, RecordsOpen, ReleasesLast, ReleasedAfterRecord
<1>5. ASSUME NEW t \in deferred, SendRelease(t) PROVE ReleaseInv'
  <2>1. /\ server'.released \in {server.released, server.released \cup {t.by}}
        /\ deferred' = deferred \ {t} /\ record_order' = record_order /\ t.kind = "release"
        /\ \A s \in record_order.open : s >= t.records
    BY <1>5 DEF SendRelease, Passed, RelayTypes
  <2>2. \A u \in deferred : u.kind = "record" => u.by # t.by
    BY <1>0, <2>1 DEF ReleaseInv, RecordsOpen, ReleasesLast, DeferredTasks
  <2> QED BY <1>0, <2>1, <2>2 DEF ReleaseInv, RecordsOpen, ReleasesLast, ReleasedAfterRecord
<1>6. ASSUME NEW w \in Wrappers, ForwardOther(w) PROVE ReleaseInv'
  BY <1>1, <1>6, VerdictStep DEF ForwardOther
<1>7. ASSUME NEW t \in upload, UploadOk(t) PROVE ReleaseInv'
  BY <1>1, <1>7 DEF UploadOk, RelayTypes
<1>8. ASSUME NEW b \in Blobs, ServerEvicts(b) PROVE ReleaseInv'
  BY <1>1, <1>8 DEF ServerEvicts, RelayTypes
<1>9. CASE UNCHANGED <<record_order, server>> /\ deferred' \subseteq deferred
  BY <1>1, <1>9
<1> QED
  BY <1>2, <1>3, <1>4, <1>5, <1>6, <1>7, <1>8, <1>9
  DEF Next, WrapperStep, TaskStep, vars, KnownBlob, PutBlob, Recheck, Accept, SpoolFails,
    PublishFails, OtherRequest, StartUpload, UploadFails, FreeSpool, FinishUpload,
    StopListening, Drained, DrainTimeout

(* Whatever is lost, delayed or refused, the server sees the release of a    *)
(* lease only when the record published under it is no longer under way      *)
(* (Order::wait_before in defer).                                            *)
THEOREM ReleaseFollowsRecord == Spec => []ReleasedAfterRecord
<1>1. RelayTypes /\ ReleaseInv /\ [Next]_vars => (RelayTypes /\ ReleaseInv)'
  BY TypesNext, ReleaseNext
<1>2. ReleaseInv => ReleasedAfterRecord
  BY DEF ReleaseInv
<1> QED BY <1>1, <1>2, TypesInit, ReleaseInit, PTL DEF Spec
-----------------------------------------------------------------------------
(* Nobody was told anything at first.                                        *)
LEMMA StoredInit == Init => StoredSettled
BY DEF Init, StoredSettled

(* A stored record leaves the deferred tasks only by the server's answer or  *)
(* by a drain that timed out.                                                *)
LEMMA StoredNext ==
  ASSUME RelayTypes, StoredSettled, [Next]_vars
  PROVE  StoredSettled'
<1> USE DEF RecordTasks
<1>0. \A w \in Wrappers : wrapper'[w].other = wrapper[w].other
  BY WrapperOnward
<1>1. ASSUME deferred \subseteq deferred', relay = "abandoned" => relay' = "abandoned",
             server.records \subseteq server'.records, stats.records \subseteq stats'.records,
             \A w \in Wrappers : wrapper'[w].stored = wrapper[w].stored
      PROVE  StoredSettled'
  BY <1>0, <1>1 DEF StoredSettled
<1>2. ASSUME NEW w \in Wrappers, DeferRecord(w) PROVE StoredSettled'
  <2> DEFINE new == Deferred(w, "record", record_order.next)
  <2>1. /\ new.kind = "record" /\ new.by = w /\ deferred' = deferred \cup {new}
        /\ ~wrapper[w].other /\ UNCHANGED <<server, stats, relay>>
    BY <1>2 DEF DeferRecord, Deferred
  <2>2. \A v \in Wrappers \ {w} : wrapper'[v] = wrapper[v]
    BY <1>2 DEF DeferRecord, RelayTypes
  <2> QED BY <1>0, <2>1, <2>2 DEF StoredSettled
<1>3. ASSUME NEW t \in deferred, SendRecord(t) PROVE StoredSettled'
  <2>1. /\ t.by \in Wrappers /\ t.kind = "record" /\ Verdict(t.by)
        /\ deferred' = deferred \ {t} /\ UNCHANGED <<wrapper, relay>>
    BY <1>3 DEF SendRecord, RelayTypes, DeferredTasks
  <2>2. /\ server.records \subseteq server'.records /\ stats.records \subseteq stats'.records
        /\ ~wrapper[t.by].other => t.by \in server'.records \cup stats'.records
    BY <2>1, VerdictStep
  <2> QED BY <2>1, <2>2 DEF StoredSettled
<1>4. ASSUME NEW t \in deferred, SendRelease(t) PROVE StoredSettled'
  <2>1. /\ t.kind = "release" /\ deferred' = deferred \ {t}
        /\ UNCHANGED <<wrapper, relay, stats>> /\ server'.records = server.records
    BY <1>4 DEF SendRelease, RelayTypes
  <2> QED BY <2>1 DEF StoredSettled
<1>5. ASSUME NEW w \in Wrappers, ForwardOther(w) PROVE StoredSettled'
  <2>1. /\ server.records \subseteq server'.records /\ stats.records \subseteq stats'.records
        /\ UNCHANGED <<deferred, relay>>
    BY <1>5, VerdictStep DEF ForwardOther
  <2>2. \A v \in Wrappers : wrapper'[v].stored = wrapper[v].stored
    BY <1>5 DEF ForwardOther, RelayTypes, WrapperStates
  <2> QED BY <1>1, <2>1, <2>2
<1>6. ASSUME NEW w \in Wrappers, PublishFails(w) \/ DeferRelease(w) \/ OtherRequest(w)
      PROVE  StoredSettled'
  <2>1. \A v \in Wrappers : wrapper'[v].stored = wrapper[v].stored
    <3>1. CASE PublishFails(w) \/ DeferRelease(w)
      BY <3>1 DEF PublishFails, DeferRelease, RelayTypes, WrapperStates
    <3>2. CASE OtherRequest(w)
      BY <3>2 DEF OtherRequest, RelayTypes, WrapperStates
    <3> QED BY <1>6, <3>1, <3>2
  <2> QED BY <1>1, <1>6, <2>1 DEF PublishFails, DeferRelease, OtherRequest
<1>7. ASSUME NEW t \in upload, UploadOk(t) \/ UploadFails(t) PROVE StoredSettled'
  BY <1>1, <1>7 DEF UploadOk, UploadFails, RelayTypes
<1>8. ASSUME NEW b \in Blobs, ServerEvicts(b) PROVE StoredSettled'
  BY <1>1, <1>8 DEF ServerEvicts, RelayTypes
<1>9. CASE DrainTimeout
  BY <1>9 DEF DrainTimeout, StoredSettled
<1>10. CASE StopListening \/ Drained
  BY <1>1, <1>10 DEF StopListening, Drained, Listening
<1>11. CASE UNCHANGED <<wrapper, deferred, stats, relay, server>>
  BY <1>11 DEF StoredSettled
<1> QED
  BY <1>2, <1>3, <1>4, <1>5, <1>6, <1>7, <1>8, <1>9, <1>10, <1>11
  DEF Next, WrapperStep, TaskStep, vars, KnownBlob, PutBlob, Recheck, Accept, SpoolFails,
    StartUpload, FreeSpool, FinishUpload

(* Relay::finish ends when no task is left, or takes the tasks with it.      *)
DrainedEmpty == relay \in {"drained", "abandoned"} => deferred = {}

(* After the drain nothing is deferred any more: the listener is gone.       *)
LEMMA DrainedNext == DrainedEmpty /\ [Next]_vars => DrainedEmpty'
BY ZenonT(60)
DEF DrainedEmpty, Next, WrapperStep, TaskStep, vars, KnownBlob, PutBlob, Recheck, Accept,
  SpoolFails, PublishFails, DeferRecord, DeferRelease, OtherRequest, ForwardOther, Takes,
  Listening, StartUpload, UploadOk, UploadFails, FreeSpool, FinishUpload, SendRecord,
  SendRelease, StopListening, Drained, DrainTimeout, ServerEvicts

(* For any session, a drain that did not time out leaves no record behind    *)
(* that a wrapper was told is stored: it is on the server or in the summary  *)
(* (Relay::finish).                                                          *)
THEOREM CleanEndIsTrue == Spec => []NothingDropped
<1> DEFINE I == RelayTypes /\ StoredSettled /\ DrainedEmpty
<1>1. Init => I
  BY TypesInit, StoredInit DEF Init, DrainedEmpty
<1>2. I /\ [Next]_vars => I'
  BY TypesNext, StoredNext, DrainedNext
<1>3. I => NothingDropped
  BY DEF DrainedEmpty, StoredSettled, NothingDropped, RecordTasks
<1> QED BY <1>1, <1>2, <1>3, PTL DEF Spec
-----------------------------------------------------------------------------
(* No blob is under way at first.                                            *)
LEMMA UploadsInit == Init => UploadsOpen
BY DEF Init, UploadsOpen, EmptyOrder

(* Every upload task keeps an open number of its own (begin_blob,            *)
(* upload_blob).                                                             *)
LEMMA UploadsNext ==
  ASSUME RelayTypes, UploadsOpen, [Next]_vars
  PROVE  UploadsOpen'
<1>0. /\ blob_order \in Orders /\ blob_order.next \in Nat /\ blob_order.open \subseteq Nat
      /\ \A t \in upload : t.sequence \in Nat
  BY DEF RelayTypes, Orders, Tasks
<1>1. ASSUME NEW w \in Wrappers, NEW b \in Blobs, Accept(w, b) PROVE UploadsOpen'
  <2>1. CASE Known(b)
    BY <1>1, <2>1 DEF Accept, UploadsOpen
  <2>2. CASE ~Known(b)
    <3> DEFINE new == [digest |-> b, sequence |-> blob_order.next, step |-> "queued"]
    <3>1. /\ blob_order'.next = blob_order.next + 1
          /\ blob_order'.open = blob_order.open \cup {blob_order.next}
      BY <1>0, <1>1, <2>2, BeginStep DEF Accept
    <3>2. upload' = upload \cup {new} /\ new.sequence = blob_order.next
      BY <1>1, <2>2 DEF Accept
    <3> QED BY <1>0, <3>1, <3>2 DEF UploadsOpen
  <2> QED BY <2>1, <2>2
<1>2. ASSUME NEW t \in upload, StartUpload(t) \/ UploadOk(t) \/ UploadFails(t) \/ FreeSpool(t)
      PROVE  UploadsOpen'
  <2>1. /\ blob_order' = blob_order
        /\ \E step : upload' = (upload \ {t}) \cup {[t EXCEPT !.step = step]}
    BY <1>2 DEF StartUpload, UploadOk, UploadFails, FreeSpool
  <2>2. PICK step : upload' = (upload \ {t}) \cup {[t EXCEPT !.step = step]}
    BY <2>1
  <2>3. [t EXCEPT !.step = step].sequence = t.sequence
    BY DEF RelayTypes, Tasks
  <2> QED BY <2>1, <2>2, <2>3 DEF UploadsOpen
<1>3. ASSUME NEW t \in upload, FinishUpload(t) PROVE UploadsOpen'
  <2>1. blob_order'.next = blob_order.next /\ blob_order'.open = blob_order.open \ {t.sequence}
    BY <1>0, <1>3, DoneStep DEF FinishUpload
  <2>2. upload' = upload \ {t}
    BY <1>3 DEF FinishUpload
  <2> QED BY <2>1, <2>2 DEF UploadsOpen
<1>4. CASE UNCHANGED blob_order /\ upload' \subseteq upload
  BY <1>4 DEF UploadsOpen
<1> QED
  BY <1>1, <1>2, <1>3, <1>4
  DEF Next, WrapperStep, TaskStep, vars, KnownBlob, PutBlob, Recheck, SpoolFails,
    PublishFails, DeferRecord, DeferRelease, OtherRequest, ForwardOther, SendRecord,
    SendRelease, StopListening, Drained, DrainTimeout, ServerEvicts

(* A blob that is safe before a horizon stays so until the drain times out,  *)
(* and a later horizon is as good.                                           *)
LEMMA SafeStays ==
  ASSUME RelayTypes, [Next]_vars, relay' # "abandoned", NEW b, NEW h \in Nat, Safe(b, h),
         NEW k \in Nat, h <= k
  PROVE  Safe(b, k)'
<1> USE DEF Unsettled
<1>0. \A t \in upload : t \in Tasks /\ t.sequence \in Nat
  BY DEF RelayTypes, Tasks
<1>1. ASSUME upload \subseteq upload', stats.blobs \subseteq stats'.blobs,
             server'.evictions # 0 \/
               (server'.evictions = server.evictions /\ server.blobs \subseteq server'.blobs)
      PROVE  Safe(b, k)'
  BY <1>0, <1>1 DEF Safe
<1>2. ASSUME NEW t \in upload, StartUpload(t) PROVE Safe(b, k)'
  <2> DEFINE new == [t EXCEPT !.step = "sending"]
  <2>1. upload' = (upload \ {t}) \cup {new} /\ UNCHANGED <<stats, server>>
    BY <1>2 DEF StartUpload
  <2>2. new.digest = t.digest /\ new.sequence = t.sequence /\ new.step = "sending"
    BY <1>0 DEF Tasks
  <2>3. ASSUME NEW u \in upload, u.digest = b, Unsettled(u), u.sequence < h PROVE Safe(b, k)'
    <3>1. u.sequence < k
      BY <1>0, <2>3
    <3>2. CASE u = t
      <4> HIDE DEF new
      <4> QED BY <2>1, <2>2, <2>3, <3>1, <3>2 DEF Safe
    <3>3. CASE u # t
      BY <2>1, <2>3, <3>1, <3>3 DEF Safe
    <3> QED BY <3>2, <3>3
  <2> QED BY <2>1, <2>3 DEF Safe
<1>3. ASSUME NEW t \in upload, UploadOk(t) PROVE Safe(b, k)'
  <2>1. /\ upload \ {t} \subseteq upload' /\ stats' = stats
        /\ server'.blobs = server.blobs \cup {t.digest} /\ server'.evictions = server.evictions
    BY <1>3 DEF UploadOk, RelayTypes
  <2> QED BY <1>0, <2>1 DEF Safe
<1>4. ASSUME NEW t \in upload, UploadFails(t) PROVE Safe(b, k)'
  <2>1. /\ upload \ {t} \subseteq upload' /\ server' = server
        /\ stats'.blobs = stats.blobs \cup {t.digest}
    BY <1>4 DEF UploadFails, RelayTypes
  <2> QED BY <1>0, <2>1 DEF Safe
<1>5. ASSUME NEW t \in upload, FreeSpool(t) \/ FinishUpload(t) PROVE Safe(b, k)'
  <2>1. upload \ {t} \subseteq upload' /\ UNCHANGED <<stats, server>> /\ ~Unsettled(t)
    BY <1>5 DEF FreeSpool, FinishUpload
  <2> QED BY <1>0, <2>1 DEF Safe
<1>6. ASSUME NEW w \in Wrappers, ForwardOther(w) PROVE Safe(b, k)'
  BY <1>1, <1>6, VerdictStep DEF ForwardOther
<1>7. ASSUME NEW t \in deferred, SendRecord(t) PROVE Safe(b, k)'
  BY <1>1, <1>7, VerdictStep DEF SendRecord, RelayTypes, DeferredTasks
<1>8. ASSUME NEW t \in deferred, SendRelease(t) PROVE Safe(b, k)'
  BY <1>1, <1>8 DEF SendRelease, RelayTypes
<1>9. ASSUME NEW c \in Blobs, ServerEvicts(c) PROVE Safe(b, k)'
  <2>1. server'.evictions = server.evictions + 1 /\ server.evictions \in Nat
    BY <1>9 DEF ServerEvicts, RelayTypes
  <2> QED BY <2>1 DEF Safe
<1>10. CASE UNCHANGED <<stats, server>> /\ upload \subseteq upload'
  BY <1>1, <1>10
<1> QED
  BY <1>2, <1>3, <1>4, <1>5, <1>6, <1>7, <1>8, <1>9, <1>10
  DEF Next, WrapperStep, TaskStep, vars, KnownBlob, PutBlob, Recheck, Accept, SpoolFails,
    PublishFails, DeferRecord, DeferRelease, OtherRequest, StopListening, Drained, DrainTimeout

(* A drain that timed out is the end of the process.                         *)
LEMMA AbandonedStays == relay = "abandoned" /\ [Next]_vars => relay' = "abandoned"
BY DEF Next, WrapperStep, TaskStep, vars, KnownBlob, PutBlob, Recheck, Accept, SpoolFails,
  PublishFails, DeferRecord, DeferRelease, OtherRequest, ForwardOther, StartUpload, UploadOk,
  UploadFails, FreeSpool, FinishUpload, SendRecord, SendRelease, StopListening, Listening,
  Drained, DrainTimeout, ServerEvicts

(* Nothing is known, put or sent at first.                                   *)
LEMMA SafeInit == Init => BlobsSafe /\ RefusedOnlyIfFailed
<1> SUFFICES ASSUME Init PROVE BlobsSafe /\ RefusedOnlyIfFailed
  OBVIOUS
<1>1. \A b \in Blobs : ~Known(b)
  BY RelayAssumption DEF Init, Known
<1>2. \A w \in Wrappers : wrapper[w].pc = "blobs" /\ \A b \in Needs[w] : put[w][b] = "todo"
  BY DEF Init
<1> QED BY <1>1, <1>2 DEF Init, BlobsSafe, RefusedOnlyIfFailed, RecordTasks, At

(* A blob is answered for only when it is known or has just been accepted;   *)
(* whatever then names it takes a horizon beyond its number.                 *)
LEMMA SafeNext ==
  ASSUME RelayTypes, BlobsSafe, [Next]_vars
  PROVE  BlobsSafe'
<1> USE RelayAssumption DEF RecordTasks
<1> SUFFICES ASSUME relay' # "abandoned" PROVE BlobsSafe'
  BY DEF BlobsSafe
<1>0. /\ blob_order \in Orders /\ blob_order.next \in Nat
      /\ \A t \in deferred : t.by \in Wrappers /\ t.blobs \in Nat
      /\ \A w \in Wrappers : wrapper[w].horizon \in Nat /\ Needs[w] \subseteq Blobs
  BY DEF RelayTypes, Orders, DeferredTasks, WrapperStates
<1>1. relay # "abandoned"
  BY AbandonedStays
<1>2. \A b : \A h, k \in Nat : Safe(b, h) /\ h <= k => Safe(b, k)'
  BY SafeStays
<1>3. blob_order'.next \in Nat /\ blob_order.next <= blob_order'.next
  <2>1. CASE blob_order' = Begun(blob_order)
    BY <1>0, <2>1, BeginStep
  <2>2. ASSUME NEW s, blob_order' = Done(blob_order, s)
        PROVE  blob_order'.next \in Nat /\ blob_order.next <= blob_order'.next
    BY <1>0, <2>2, DoneStep
  <2>3. CASE UNCHANGED blob_order
    BY <1>0, <2>3
  <2> QED
    BY <2>1, <2>2, <2>3 DEF Next, WrapperStep, TaskStep, vars, KnownBlob, PutBlob, Recheck,
      Accept, SpoolFails, PublishFails, DeferRecord, DeferRelease, OtherRequest, ForwardOther,
      StartUpload, UploadOk, UploadFails, FreeSpool, FinishUpload, SendRecord, SendRelease,
      StopListening, Drained, DrainTimeout, ServerEvicts
<1> DEFINE KnownSafe == \A b \in Blobs : Known(b) => Safe(b, blob_order.next)
           OkSafe    == \A w \in Wrappers : \A b \in Needs[w] :
                          put[w][b] = "ok" => Safe(b, blob_order.next)
           TaskSafe  == \A t \in deferred : t.kind = "record" =>
                          \A b \in Needs[t.by] : Safe(b, t.blobs)
           OtherSafe == \A w \in Wrappers : At(w, "other") =>
                          \A b \in Needs[w] : Safe(b, wrapper[w].horizon)
<1>4. KnownSafe /\ OkSafe /\ TaskSafe /\ OtherSafe
  BY <1>1 DEF BlobsSafe
<1>5. KnownSafe'
  <2> SUFFICES ASSUME NEW b \in Blobs, Known(b)' PROVE Safe(b, blob_order.next)'
    OBVIOUS
  <2>1. CASE Known(b)
    BY <1>0, <1>2, <1>3, <1>4, <2>1
  <2>2. ASSUME NEW w \in Wrappers, NEW c \in Blobs, Accept(w, c), ~Known(b)
        PROVE  Safe(b, blob_order.next)'
    <3>1. ~Known(c) /\ c = b
      BY <2>2 DEF Accept, Known, RelayTypes
    <3> DEFINE new == [digest |-> b, sequence |-> blob_order.next, step |-> "queued"]
    <3>2. new \in upload' /\ blob_order' = Begun(blob_order)
      BY <2>2, <3>1 DEF Accept
    <3>3. new.digest = b /\ Unsettled(new) /\ new.sequence < blob_order'.next
      BY <1>0, <3>2, BeginStep DEF Unsettled
    <3> HIDE DEF new
    <3> QED BY <3>2, <3>3 DEF Safe
  <2>3. ASSUME NEW t \in upload, UploadOk(t), ~Known(b) PROVE Safe(b, blob_order.next)'
    <3>1. t.digest = b
      BY <2>3 DEF UploadOk, Known, RelayTypes
    <3>2. server'.blobs = server.blobs \cup {t.digest}
      BY <2>3 DEF UploadOk, RelayTypes
    <3> QED BY <3>1, <3>2 DEF Safe
  <2>4. ASSUME NEW t \in upload, UploadFails(t), ~Known(b) PROVE FALSE
    BY <2>4 DEF UploadFails, Known, RelayTypes
  <2>5. ASSUME UNCHANGED state, ~Known(b) PROVE FALSE
    BY <2>5 DEF Known
  <2> QED
    BY <2>1, <2>2, <2>3, <2>4, <2>5 DEF Next, WrapperStep, TaskStep, vars, KnownBlob, PutBlob,
      Recheck, SpoolFails, PublishFails, DeferRecord, DeferRelease, OtherRequest, ForwardOther,
      StartUpload, FreeSpool, FinishUpload, SendRecord, SendRelease, StopListening, Drained,
      DrainTimeout, ServerEvicts
<1>6. OkSafe'
  <2> SUFFICES ASSUME NEW w \in Wrappers, NEW b \in Needs[w], put'[w][b] = "ok"
               PROVE  Safe(b, blob_order.next)'
    OBVIOUS
  <2>1. CASE put[w][b] = "ok"
    BY <1>0, <1>2, <1>3, <1>4, <2>1
  <2>2. CASE Known(b)'
    BY <1>0, <1>5, <2>2
  <2>3. ASSUME NEW v \in Wrappers, NEW c \in Blobs,
               KnownBlob(v, c) \/ PutBlob(v, c) \/ Recheck(v, c) \/ Accept(v, c) \/ SpoolFails(v, c),
               put[w][b] # "ok"
        PROVE  Known(b)'
    <3>1. PICK step \in PutStates : c \in Needs[v] /\ Put(v, c, step)
      BY <2>3 DEF KnownBlob, PutBlob, Recheck, SpoolFails, Accept, Takes, Spooling, PutStates, Waits
    <3>2. v = w /\ c = b /\ step = "ok"
      BY <2>3, <3>1, PutStep
    <3>3. KnownBlob(v, c) \/ Accept(v, c)
      <4>1. \A x \in {"full", "spooling", "failed"} : ~Put(v, c, x)
        BY <2>3, <3>1, <3>2, PutStep DEF PutStates, Waits
      <4> QED BY <2>3, <4>1 DEF PutBlob, Recheck, SpoolFails
    <3> QED BY <3>2, <3>3 DEF KnownBlob, Accept, Known, RelayTypes
  <2>4. ASSUME NEW t \in upload, FinishUpload(t), put[w][b] # "ok" PROVE FALSE
    BY <2>4 DEF FinishUpload
  <2>5. ASSUME UNCHANGED put, put[w][b] # "ok" PROVE FALSE
    BY <2>5
  <2> QED
    BY <2>1, <2>2, <2>3, <2>4, <2>5 DEF Next, WrapperStep, TaskStep, vars,
      PublishFails, DeferRecord, DeferRelease, OtherRequest, ForwardOther,
      StartUpload, UploadOk, UploadFails, FreeSpool, SendRecord, SendRelease, StopListening,
      Drained, DrainTimeout, ServerEvicts
<1>7. TaskSafe'
  <2> SUFFICES ASSUME NEW t \in deferred', t.kind = "record", NEW b \in Needs[t.by]
               PROVE  Safe(b, t.blobs)'
    OBVIOUS
  <2>1. CASE t \in deferred
    BY <1>0, <1>2, <1>4, <2>1
  <2>2. ASSUME NEW w \in Wrappers, DeferRecord(w), t \notin deferred PROVE Safe(b, t.blobs)'
    <3>1. t.by = w /\ t.blobs = blob_order.next
      BY <2>2 DEF DeferRecord, Deferred
    <3>2. put[w][b] = "ok"
      BY <2>2, <3>1 DEF DeferRecord, AllOk
    <3> QED BY <1>0, <1>2, <1>4, <3>1, <3>2
  <2>3. ASSUME NEW w \in Wrappers, DeferRelease(w), t \notin deferred PROVE FALSE
    BY <2>3 DEF DeferRelease, Deferred
  <2>4. ASSUME deferred' \subseteq deferred, t \notin deferred PROVE FALSE
    BY <2>4
  <2> QED
    BY <2>1, <2>2, <2>3, <2>4 DEF Next, WrapperStep, TaskStep, vars, KnownBlob, PutBlob, Recheck,
      Accept, SpoolFails, PublishFails, OtherRequest, ForwardOther,
      StartUpload, UploadOk, UploadFails, FreeSpool, FinishUpload, SendRecord, SendRelease,
      StopListening, Drained, DrainTimeout, ServerEvicts
<1>8. OtherSafe'
  <2> SUFFICES ASSUME NEW w \in Wrappers, At(w, "other")', NEW b \in Needs[w]
               PROVE  Safe(b, wrapper[w].horizon)'
    OBVIOUS
  <2>1. CASE wrapper'[w] = wrapper[w]
    BY <1>0, <1>2, <1>4, <2>1 DEF At
  <2>2. ASSUME NEW v \in Wrappers, OtherRequest(v), wrapper'[w] # wrapper[w]
        PROVE  Safe(b, wrapper[w].horizon)'
    <3>1. v = w /\ wrapper'[w].horizon = blob_order.next
      BY <2>2 DEF OtherRequest, RelayTypes, WrapperStates
    <3>2. put[w][b] = "ok"
      BY <2>2, <3>1 DEF OtherRequest, AllOk
    <3> QED BY <1>0, <1>2, <1>4, <3>1, <3>2
  <2>3. ASSUME NEW v \in Wrappers,
               PublishFails(v) \/ DeferRecord(v) \/ DeferRelease(v) \/ ForwardOther(v),
               wrapper'[w] # wrapper[w]
        PROVE  FALSE
    BY <2>3 DEF PublishFails, DeferRecord, DeferRelease, ForwardOther, At, RelayTypes, WrapperStates
  <2> QED
    BY <2>1, <2>2, <2>3 DEF Next, WrapperStep, TaskStep, vars, KnownBlob, PutBlob, Recheck,
      Accept, SpoolFails, StartUpload, UploadOk, UploadFails, FreeSpool, FinishUpload, SendRecord,
      SendRelease, StopListening, Drained, DrainTimeout, ServerEvicts
<1> QED BY <1>5, <1>6, <1>7, <1>8 DEF BlobsSafe

(* Past its horizon, no upload of a safe blob is under way any more.         *)
LEMMA PassedIsSettled ==
  ASSUME RelayTypes, UploadsOpen, NEW b, NEW h \in Nat, Safe(b, h), Passed(blob_order, h)
  PROVE  b \in stats.blobs \/ b \in server.blobs \/ server.evictions # 0
<1>1. \A t \in upload : t.sequence \in blob_order.open /\ t.sequence \in Nat
  BY DEF UploadsOpen, RelayTypes, Tasks
<1> QED BY <1>1 DEF Safe, Passed

(* So the server refuses only a record with a failed blob.                   *)
LEMMA RefusedNext ==
  ASSUME RelayTypes, DrainedEmpty, UploadsOpen, BlobsSafe, RefusedOnlyIfFailed, [Next]_vars
  PROVE  RefusedOnlyIfFailed'
<1> USE RelayAssumption DEF RecordTasks
<1>0. \A w \in Wrappers : wrapper[w].horizon \in Nat
  BY DEF RelayTypes, WrapperStates
<1>1. ASSUME server'.refused = server.refused, stats.blobs \subseteq stats'.blobs,
             server'.evictions = 0 => server.evictions = 0
      PROVE  RefusedOnlyIfFailed'
  BY <1>1 DEF RefusedOnlyIfFailed
<1>2. ASSUME NEW w \in Wrappers, Verdict(w), NEW h \in Nat, Passed(blob_order, h),
             \A b \in Needs[w] : Safe(b, h)
      PROVE  RefusedOnlyIfFailed'
  <2>1. /\ stats'.blobs = stats.blobs /\ server'.evictions = server.evictions
        /\ \/ server'.refused = server.refused
           \/ server'.refused = server.refused \cup {w} /\ ~ Needs[w] \subseteq server.blobs
    BY <1>2, VerdictStep
  <2>2. \A b \in Needs[w] : b \in stats.blobs \/ b \in server.blobs \/ server.evictions # 0
    BY <1>2, PassedIsSettled
  <2> QED BY <2>1, <2>2 DEF RefusedOnlyIfFailed
<1>3. ASSUME NEW w \in Wrappers, ForwardOther(w) PROVE RefusedOnlyIfFailed'
  <2>1. \A b \in Needs[w] : Safe(b, wrapper[w].horizon)
    BY <1>3 DEF ForwardOther, BlobsSafe, Running
  <2> QED BY <1>0, <1>2, <1>3, <2>1 DEF ForwardOther
<1>4. ASSUME NEW t \in deferred, SendRecord(t) PROVE RefusedOnlyIfFailed'
  <2>1. \A b \in Needs[t.by] : Safe(b, t.blobs)
    BY <1>4 DEF SendRecord, BlobsSafe, DrainedEmpty
  <2>2. t.by \in Wrappers /\ t.blobs \in Nat
    BY DEF RelayTypes, DeferredTasks
  <2> QED BY <1>2, <1>4, <2>1, <2>2 DEF SendRecord
<1>5. ASSUME NEW t \in deferred, SendRelease(t) PROVE RefusedOnlyIfFailed'
  BY <1>1, <1>5 DEF SendRelease, RelayTypes
<1>6. ASSUME NEW t \in upload, UploadOk(t) \/ UploadFails(t) PROVE RefusedOnlyIfFailed'
  BY <1>1, <1>6 DEF UploadOk, UploadFails, RelayTypes
<1>7. ASSUME NEW b \in Blobs, ServerEvicts(b) PROVE RefusedOnlyIfFailed'
  BY <1>1, <1>7 DEF ServerEvicts, RelayTypes
<1>8. CASE UNCHANGED <<stats, server>>
  BY <1>1, <1>8
<1> QED
  BY <1>3, <1>4, <1>5, <1>6, <1>7, <1>8
  DEF Next, WrapperStep, TaskStep, vars, KnownBlob, PutBlob, Recheck, Accept, SpoolFails,
    PublishFails, DeferRecord, DeferRelease, OtherRequest, StartUpload, FreeSpool, FinishUpload,
    StopListening, Drained, DrainTimeout

(* For any wrappers that share blobs in any way, a record is refused only if *)
(* an upload of one of its blobs failed, as long as the server collects      *)
(* nothing: whichever request carried a blob, every record that names it     *)
(* waits for its upload (begin_blob, defer, Order::wait_before).             *)
THEOREM RefusalMeansFailure == Spec => []RefusedOnlyIfFailed
<1> DEFINE I == RelayTypes /\ DrainedEmpty /\ UploadsOpen /\ BlobsSafe /\ RefusedOnlyIfFailed
<1>1. Init => I
  BY TypesInit, UploadsInit, SafeInit DEF Init, DrainedEmpty
<1>2. I /\ [Next]_vars => I'
  BY TypesNext, DrainedNext, UploadsNext, SafeNext, RefusedNext
<1>3. I => RefusedOnlyIfFailed
  OBVIOUS
<1> QED BY <1>1, <1>2, <1>3, PTL DEF Spec
-----------------------------------------------------------------------------
(* The spool and the open puts are empty at first.                           *)
LEMMA CountsInit == Init => SpoolCounts /\ PutsBounded
<1> SUFFICES ASSUME Init PROVE SpoolCounts /\ PutsBounded
  OBVIOUS
<1>1. Held = {} /\ \A w \in Wrappers : Open(w) = {} /\ ~wrapper[w].stored
  BY DEF Init, Held, Open, Waits
<1>2. IsFiniteSet({}) /\ Cardinality({}) = 0
  BY FS_EmptySet
<1>3. SpoolCounts
  BY <1>1, <1>2 DEF Init, SpoolCounts
<1>4. PutsBounded
  BY <1>1, <1>2, RelayAssumption DEF PutsBounded
<1> QED BY <1>3, <1>4

(* A put of one blob opens at most that one, and never undoes an answer.     *)
LEMMA OpenStep ==
  ASSUME RelayTypes, PutsBounded, NEW w \in Wrappers, NEW b \in Needs[w], NEW step \in PutStates,
         Put(w, b, step), put[w][b] # "ok",
         put[w][b] \in Waits \/ Cardinality(Open(w)) < Fetches, UNCHANGED wrapper
  PROVE  PutsBounded'
<1> USE RelayAssumption
<1>1. /\ \A v \in Wrappers \ {w} : put'[v] = put[v]
      /\ \A c \in Needs[w] : put'[w][c] = IF c = b THEN step ELSE put[w][c]
  BY PutStep
<1>2. ASSUME NEW v \in Wrappers \ {w}
      PROVE  Open(v)' = Open(v) /\ (AllOk(v) => AllOk(v)')
  BY <1>1 DEF Open, AllOk
<1>3. ~AllOk(w)
  BY DEF AllOk
<1>4. IsFiniteSet(Open(w)) /\ Cardinality(Open(w)) <= Fetches /\ Cardinality(Open(w)) \in Nat
  BY FS_CardinalityType DEF PutsBounded
<1>5. IsFiniteSet(Open(w)') /\ Cardinality(Open(w)') <= Fetches
  <2>1. CASE Open(w)' = Open(w)
    BY <1>4, <2>1
  <2>2. CASE Open(w)' = Open(w) \ {b}
    <3>1. /\ IsFiniteSet(Open(w) \ {b})
          /\ \/ Cardinality(Open(w) \ {b}) = Cardinality(Open(w))
             \/ Cardinality(Open(w) \ {b}) = Cardinality(Open(w)) - 1
      BY <1>4, FS_RemoveElement, Zenon
    <3> QED BY <1>4, <2>2, <3>1
  <2>3. CASE Open(w)' = Open(w) \cup {b} /\ Cardinality(Open(w)) < Fetches
    <3>1. /\ IsFiniteSet(Open(w) \cup {b})
          /\ \/ Cardinality(Open(w) \cup {b}) = Cardinality(Open(w))
             \/ Cardinality(Open(w) \cup {b}) = Cardinality(Open(w)) + 1
      BY <1>4, FS_AddElement, Zenon
    <3> QED BY <1>4, <2>3, <3>1
  <2>4. \/ Open(w)' = Open(w) \/ Open(w)' = Open(w) \ {b}
        \/ Open(w)' = Open(w) \cup {b} /\ put[w][b] \notin Waits
    BY <1>1 DEF Open
  <2> QED BY <2>1, <2>2, <2>3, <2>4
<1> QED BY <1>2, <1>3, <1>5 DEF PutsBounded

(* fetch_concurrency bounds the puts of a wrapper under way.                 *)
LEMMA PutsNext ==
  ASSUME RelayTypes, PutsBounded, [Next]_vars
  PROVE  PutsBounded'
<1>1. ASSUME NEW w \in Wrappers, NEW b \in Blobs,
             KnownBlob(w, b) \/ PutBlob(w, b) \/ Recheck(w, b) \/ Accept(w, b) \/ SpoolFails(w, b)
      PROVE  PutsBounded'
  <2>1. PICK step \in PutStates : b \in Needs[w] /\ Put(w, b, step)
    BY <1>1 DEF KnownBlob, PutBlob, Recheck, SpoolFails, Accept, Takes, Spooling, PutStates, Waits
  <2>2. /\ put[w][b] # "ok" /\ (put[w][b] \in Waits \/ Cardinality(Open(w)) < Fetches)
        /\ UNCHANGED wrapper
    BY <1>1 DEF KnownBlob, PutBlob, Recheck, SpoolFails, Accept, Takes, Spooling, Waits
  <2> QED BY <2>1, <2>2, OpenStep
<1>2. ASSUME UNCHANGED put,
             \A w \in Wrappers : wrapper'[w].stored => wrapper[w].stored \/ AllOk(w)
      PROVE  PutsBounded'
  BY <1>2 DEF PutsBounded, Open, AllOk
<1>3. ASSUME NEW w \in Wrappers,
             \/ PublishFails(w) \/ DeferRelease(w) \/ ForwardOther(w)
      PROVE  PutsBounded'
  <2>1. \A v \in Wrappers : wrapper'[v].stored = wrapper[v].stored
    BY <1>3 DEF PublishFails, DeferRelease, ForwardOther, RelayTypes, WrapperStates
  <2> QED BY <1>2, <1>3, <2>1 DEF PublishFails, DeferRelease, ForwardOther
<1>4. ASSUME NEW w \in Wrappers, OtherRequest(w) PROVE PutsBounded'
  <2>1. \A v \in Wrappers : wrapper'[v].stored = wrapper[v].stored
    BY <1>4 DEF OtherRequest, RelayTypes, WrapperStates
  <2> QED BY <1>2, <1>4, <2>1 DEF OtherRequest
<1>5. ASSUME NEW w \in Wrappers, DeferRecord(w) PROVE PutsBounded'
  <2>1. \A v \in Wrappers \ {w} : wrapper'[v] = wrapper[v]
    BY <1>5 DEF DeferRecord, RelayTypes
  <2> QED BY <1>2, <1>5, <2>1 DEF DeferRecord
<1>6. ASSUME NEW t \in upload, FinishUpload(t) PROVE PutsBounded'
  <2>1. \A w \in Wrappers : \A b \in Needs[w] :
          put'[w][b] = IF put[w][b] = "full" THEN "woken" ELSE put[w][b]
    BY <1>6 DEF FinishUpload
  <2>2. \A w \in Wrappers : Open(w)' = Open(w) /\ (AllOk(w) => AllOk(w)')
    BY <2>1 DEF Open, AllOk, Waits
  <2> QED BY <1>6, <2>2 DEF FinishUpload, PutsBounded
<1>7. CASE UNCHANGED <<wrapper, put>>
  BY <1>2, <1>7
<1> QED
  BY <1>1, <1>3, <1>4, <1>5, <1>6, <1>7
  DEF Next, WrapperStep, TaskStep, vars, StartUpload, UploadOk, UploadFails, FreeSpool,
    SendRecord, SendRelease, StopListening, Drained, DrainTimeout, ServerEvicts

(* The spool's counters follow the tasks: a task that changes its step       *)
(* without freeing its file is counted once before and once after.           *)
LEMMA SpoolNext ==
  ASSUME RelayTypes, UploadsOpen, SpoolCounts, [Next]_vars
  PROVE  SpoolCounts'
<1>0. IsFiniteSet(Held) /\ Cardinality(Held) \in Nat
  <2>1. Held \subseteq upload
    BY DEF Held
  <2> QED BY <2>1, FS_Subset, FS_CardinalityType DEF SpoolCounts
<1>1. relay' # "abandoned" => relay # "abandoned"
  BY AbandonedStays
<1>2. ASSUME NEW w \in Wrappers, NEW b \in Blobs, Accept(w, b) PROVE SpoolCounts'
  <2>1. CASE Known(b)
    BY <1>2, <2>1 DEF Accept, SpoolCounts, Held
  <2>2. CASE ~Known(b)
    <3> DEFINE new == [digest |-> b, sequence |-> blob_order.next, step |-> "queued"]
    <3>1. /\ upload' = upload \cup {new} /\ relay' = relay
          /\ spool'.bytes = spool.bytes + 1 /\ spool'.files = spool.files + 1
      BY <1>2, <2>2 DEF Accept
    <3>2. new \notin upload /\ new.step # "freed"
      BY DEF UploadsOpen, RelayTypes, Orders
    <3> HIDE DEF new
    <3>3. Held' = Held \cup {new} /\ new \notin Held
      BY <3>1, <3>2 DEF Held
    <3>4. Cardinality(Held') = Cardinality(Held) + 1
      BY <1>0, <3>3, FS_AddElement, Zenon
    <3>5. IsFiniteSet(upload')
      BY <3>1, FS_AddElement, Zenon DEF SpoolCounts
    <3> QED BY <1>1, <3>1, <3>4, <3>5 DEF SpoolCounts
  <2> QED BY <2>1, <2>2
<1>3. ASSUME NEW t \in upload, StartUpload(t) \/ UploadOk(t) \/ UploadFails(t) PROVE SpoolCounts'
  <2>1. PICK step \in {"sending", "settled"} :
          upload' = (upload \ {t}) \cup {[t EXCEPT !.step = step]}
    BY <1>3 DEF StartUpload, UploadOk, UploadFails
  <2> DEFINE new == [t EXCEPT !.step = step]
  <2>2. new.sequence = t.sequence /\ new.step = step
    BY DEF RelayTypes, Tasks
  <2>3. upload' = (upload \ {t}) \cup {new}
    BY <2>1
  <2> HIDE DEF new
  <2>4. t.step # "freed" /\ new.step # "freed"
    BY <1>3, <2>2 DEF StartUpload, UploadOk, UploadFails
  <2>5. new \notin upload \ {t}
    BY <2>2 DEF UploadsOpen
  <2>6. Held' = (Held \ {t}) \cup {new} /\ t \in Held /\ new \notin Held \ {t}
    BY <2>3, <2>4, <2>5 DEF Held
  <2>7. IsFiniteSet(Held \ {t}) /\ Cardinality(Held \ {t}) = Cardinality(Held) - 1
    BY <1>0, <2>6, FS_RemoveElement, Zenon
  <2>8. Cardinality(Held') = Cardinality(Held \ {t}) + 1
    BY <2>6, <2>7, FS_AddElement, Zenon
  <2>9. IsFiniteSet(upload')
    BY <2>3, FS_RemoveElement, FS_AddElement, Zenon DEF SpoolCounts
  <2>10. UNCHANGED <<spool, relay>>
    BY <1>3 DEF StartUpload, UploadOk, UploadFails
  <2> QED BY <1>0, <2>7, <2>8, <2>9, <2>10 DEF SpoolCounts
<1>4. ASSUME NEW t \in upload, FreeSpool(t) PROVE SpoolCounts'
  <2> DEFINE new == [t EXCEPT !.step = "freed"]
  <2>1. new.step = "freed"
    BY DEF RelayTypes, Tasks
  <2>2. upload' = (upload \ {t}) \cup {new}
    BY <1>4 DEF FreeSpool
  <2> HIDE DEF new
  <2>3. Held' = Held \ {t} /\ t \in Held
    BY <1>4, <2>1, <2>2 DEF FreeSpool, Held
  <2>4. Cardinality(Held') = Cardinality(Held) - 1
    BY <1>0, <2>3, FS_RemoveElement, Zenon
  <2>5. IsFiniteSet(upload')
    BY <2>2, FS_RemoveElement, FS_AddElement, Zenon DEF SpoolCounts
  <2>6. spool'.bytes = spool.bytes - 1 /\ spool'.files = spool.files - 1 /\ relay' = relay
    BY <1>4 DEF FreeSpool
  <2> QED BY <2>4, <2>5, <2>6 DEF SpoolCounts
<1>5. ASSUME NEW t \in upload, FinishUpload(t) PROVE SpoolCounts'
  <2>1. Held' = Held /\ upload' = upload \ {t}
    BY <1>5 DEF FinishUpload, Held
  <2>2. IsFiniteSet(upload')
    BY <2>1, FS_RemoveElement, Zenon DEF SpoolCounts
  <2> QED BY <1>5, <2>1, <2>2 DEF FinishUpload, SpoolCounts
<1>6. CASE DrainTimeout
  BY <1>6, FS_EmptySet DEF DrainTimeout, SpoolCounts
<1>7. CASE UNCHANGED <<upload, spool>>
  BY <1>1, <1>7 DEF SpoolCounts, Held
<1> QED
  BY <1>2, <1>3, <1>4, <1>5, <1>6, <1>7
  DEF Next, WrapperStep, TaskStep, vars, KnownBlob, PutBlob, Recheck, SpoolFails,
    PublishFails, DeferRecord, DeferRelease, OtherRequest, ForwardOther, SendRecord,
    SendRelease, StopListening, Drained, ServerEvicts

(* For any spool limit and any number of uploads at a time, the spool's      *)
(* counters are exactly the accepted files not yet freed, so that they never *)
(* wrap around, and a wrapper never has more puts under way than             *)
(* fetch_concurrency (begin_blob, upload_blob, put_blobs).                   *)
THEOREM RelayTypeCorrect == Spec => []RelayTypeOK
<1> DEFINE I == RelayTypes /\ UploadsOpen /\ SpoolCounts /\ PutsBounded
<1>1. Init => I
  BY TypesInit, UploadsInit, CountsInit
<1>2. I /\ [Next]_vars => I'
  BY TypesNext, UploadsNext, SpoolNext, PutsNext
<1>3. ASSUME I PROVE RelayTypeOK
  <2>1. relay # "abandoned" => spool = [bytes |-> Cardinality(Held), files |-> Cardinality(Held)]
    BY <1>3 DEF RelayTypes, SpoolCounts
  <2>2. \A w \in Wrappers : wrapper[w].pc \in {"blobs", "release", "other", "end"}
    BY <1>3 DEF RelayTypes, WrapperStates
  <2> QED BY <1>3, <2>1, <2>2 DEF RelayTypes, PutsBounded, PutStates, Held, RelayTypeOK
<1> QED BY <1>1, <1>2, <1>3, PTL DEF Spec
=============================================================================
