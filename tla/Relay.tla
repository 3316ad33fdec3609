------------------------------- MODULE Relay --------------------------------
(***************************************************************************)
(* The session relay, crates/bellows-cli/src/relay.rs: between the         *)
(* compiler wrappers of one build and a remote bellowsd.  It answers a     *)
(* wrapper's publications at once and sends them in the background, in     *)
(* dependency order.                                                       *)
(*                                                                         *)
(* A wrapper puts the blobs of its record, several at a time, sends the    *)
(* record and releases its single-flight lease; a wrapper of kind "other"  *)
(* sends a request that passes through (an archive, a declared action)     *)
(* after its blobs.  The server is external: it keeps blobs, refuses a     *)
(* record that names an absent blob, and its own collection may drop one.  *)
(***************************************************************************)
EXTENDS Integers, FiniteSets, FiniteSetsExt

CONSTANTS
  Blobs,
  Wrappers,
  Needs,        \* the blobs of each wrapper's record
  MayPass,      \* wrappers that may be of kind "other"
  Fetches,      \* fetch_concurrency: blobs a wrapper puts at a time
  SpoolLimit,   \* spool_limit_bytes; a blob is one byte
  Uploads,      \* upload_concurrency
  MaxEvictions, \* bound: blobs the server's collection drops
  None

ASSUME RelayAssumption ==
  /\ SpoolLimit \in Nat /\ Uploads \in Nat /\ MaxEvictions \in Nat
  /\ Fetches \in Nat \ {0}
  /\ Needs \in [Wrappers -> SUBSET Blobs]
  /\ MayPass \subseteq Wrappers
  /\ None \notin {"pending", "done", "failed"}

VARIABLES
  wrapper,      \* each wrapper: [pc, other, horizon, stored]
  put,          \* its blobs: "todo", "full", "woken", "spooling", "ok" or "failed"
  state,        \* BlobState of each digest; None is unknown
  blob_order,   \* Order of blob uploads: [next, open]
  record_order, \* Order of records
  spool,        \* [bytes, files] accepted and not yet uploaded
  upload,       \* upload tasks: [digest, sequence, step]
  deferred,     \* deferred requests: [kind, by, blobs, records, sequence]
  stats,        \* what failed: [blobs, records]
  relay,        \* "listening", "draining", "drained" or "abandoned"
  server        \* its blobs, and what it has stored, refused and released:
                \* [blobs, records, refused, released, evictions]

vars == <<wrapper, put, state, blob_order, record_order, spool, upload, deferred,
          stats, relay, server>>

-----------------------------------------------------------------------------
(* Order: sequence numbers of work begun and not finished. *)
EmptyOrder    == [next |-> 0, open |-> {}]
Begun(o)      == [next |-> o.next + 1, open |-> o.open \cup {o.next}]
Done(o, s)    == [o EXCEPT !.open = @ \ {s}]

(* Only the newest item before the horizon counts. *)
PassedNewest(o, horizon) == horizon - 1 \notin o.open

Passed(o, horizon) == \A s \in o.open : s >= horizon

(* Accepted in this session, so not asked for again. *)
Known(b) == state[b] \in {"pending", "done"}

Full == spool.bytes >= SpoolLimit /\ spool.files > 0

(* A permit of the upload semaphore is free. *)
PermitFree == Cardinality({t \in upload : t.step = "sending"}) < Max({Uploads, 1})

Init ==
  /\ \E Other \in SUBSET MayPass :
       wrapper = [w \in Wrappers |->
         [pc |-> "blobs", other |-> w \in Other, horizon |-> 0, stored |-> FALSE]]
  /\ put = [w \in Wrappers |-> [b \in Needs[w] |-> "todo"]]
  /\ state = [b \in Blobs |-> None]
  /\ blob_order = EmptyOrder /\ record_order = EmptyOrder
  /\ spool = [bytes |-> 0, files |-> 0]
  /\ upload = {} /\ deferred = {}
  /\ stats = [blobs |-> {}, records |-> {}]
  /\ relay = "listening"
  /\ server = [blobs |-> {}, records |-> {}, refused |-> {}, released |-> {},
               evictions |-> 0]

(* New requests are taken; requests taken go on until the process ends. *)
Listening == relay = "listening"
Running   == relay \in {"listening", "draining"}

At(w, pc) == wrapper[w].pc = pc

Put(w, b, step) == put' = [put EXCEPT ![w][b] = step]

(* Puts that have no answer yet, and wrappers that have all their answers. *)
Waits      == {"full", "woken", "spooling"}
Open(w)    == {b \in Needs[w] : put[w][b] \in Waits}
AllOk(w)   == \A b \in Needs[w] : put[w][b] = "ok"
SomeBad(w) == /\ \A b \in Needs[w] : put[w][b] \in {"ok", "failed"}
              /\ \E b \in Needs[w] : put[w][b] = "failed"

(* A worker of put_blobs takes the next blob. *)
Takes(w, b) ==
  /\ Listening /\ At(w, "blobs")
  /\ b \in Needs[w] /\ put[w][b] = "todo" /\ Cardinality(Open(w)) < Fetches

-----------------------------------------------------------------------------
(* HEAD or PUT of a blob the session knows: answered from memory. *)
KnownBlob(w, b) ==
  /\ Takes(w, b)
  /\ Known(b)
  /\ Put(w, b, "ok")
  /\ UNCHANGED <<wrapper, state, blob_order, record_order, spool, upload, deferred, stats, relay, server>>

(* PUT of another blob: the handler subscribes to the order's changes and    *)
(* looks at the spool.                                                       *)
PutBlob(w, b) ==
  /\ Takes(w, b)
  /\ ~Known(b)
  /\ Put(w, b, IF Full THEN "full" ELSE "spooling")
  /\ UNCHANGED <<wrapper, state, blob_order, record_order, spool, upload, deferred, stats, relay, server>>

(* The handler slept on a full spool and the order has changed since. *)
Recheck(w, b) ==
  /\ Running /\ b \in Needs[w] /\ put[w][b] = "woken"
  /\ Put(w, b, IF Full THEN "full" ELSE "spooling")
  /\ UNCHANGED <<wrapper, state, blob_order, record_order, spool, upload, deferred, stats, relay, server>>

Spooling(w, b) == Running /\ b \in Needs[w] /\ put[w][b] = "spooling"

(* Counts the spooled file of a request that came second, too. *)
AcceptCountsTwice(w, b) ==
  /\ Spooling(w, b)
  /\ spool' = [bytes |-> spool.bytes + 1, files |-> spool.files + 1]
  /\ IF Known(b)
     THEN UNCHANGED <<state, blob_order, upload>>
     ELSE /\ state' = [state EXCEPT ![b] = "pending"]
          /\ blob_order' = Begun(blob_order)
          /\ upload' = upload \cup
               {[digest |-> b, sequence |-> blob_order.next, step |-> "queued"]}
  /\ Put(w, b, "ok")
  /\ UNCHANGED <<wrapper, record_order, deferred, stats, relay, server>>

(* The blob is on local disk and verified: accepted, unless another request  *)
(* was faster.                                                               *)
Accept(w, b) ==
  /\ Spooling(w, b)
  /\ IF Known(b)
     THEN UNCHANGED <<state, spool, blob_order, upload>>
     ELSE /\ state' = [state EXCEPT ![b] = "pending"]
          /\ spool' = [bytes |-> spool.bytes + 1, files |-> spool.files + 1]
          /\ blob_order' = Begun(blob_order)
          /\ upload' = upload \cup
               {[digest |-> b, sequence |-> blob_order.next, step |-> "queued"]}
  /\ Put(w, b, "ok")
  /\ UNCHANGED <<wrapper, record_order, deferred, stats, relay, server>>

(* The spool cannot be written, or the body was cut short. *)
SpoolFails(w, b) ==
  /\ Spooling(w, b)
  /\ Put(w, b, "failed")
  /\ UNCHANGED <<wrapper, state, blob_order, record_order, spool, upload, deferred, stats, relay, server>>

(* put_blobs fails once every blob was tried: no record, and the wrapper     *)
(* goes on to release its lease.                                             *)
PublishFails(w) ==
  /\ At(w, "blobs") /\ SomeBad(w)
  /\ wrapper' = [wrapper EXCEPT ![w].pc = IF wrapper[w].other THEN "end" ELSE "release"]
  /\ UNCHANGED <<put, state, blob_order, record_order, spool, upload, deferred, stats, relay, server>>

-----------------------------------------------------------------------------
(* A task of `deferred`: what it waits for is fixed when it is accepted. *)
Deferred(w, kind, sequence) ==
  [kind |-> kind, by |-> w, blobs |-> blob_order.next, records |-> record_order.next,
   sequence |-> sequence]

DeferRecord(w) ==
  /\ Listening /\ At(w, "blobs") /\ AllOk(w) /\ ~wrapper[w].other
  /\ deferred' = deferred \cup {Deferred(w, "record", record_order.next)}
  /\ record_order' = Begun(record_order)
  /\ wrapper' = [wrapper EXCEPT ![w].pc = "release", ![w].stored = TRUE]
  /\ UNCHANGED <<put, state, blob_order, spool, upload, stats, relay, server>>

DeferRelease(w) ==
  /\ Listening /\ At(w, "release")
  /\ deferred' = deferred \cup {Deferred(w, "release", None)}
  /\ wrapper' = [wrapper EXCEPT ![w].pc = "end"]
  /\ UNCHANGED <<put, state, blob_order, record_order, spool, upload, stats, relay, server>>

(* Any other change waits, in its handler, for the blobs accepted before. *)
OtherRequest(w) ==
  /\ Listening /\ At(w, "blobs") /\ AllOk(w) /\ wrapper[w].other
  /\ wrapper' = [wrapper EXCEPT ![w].pc = "other", ![w].horizon = blob_order.next]
  /\ UNCHANGED <<put, state, blob_order, record_order, spool, upload, deferred, stats, relay, server>>

(* A failure goes to the summary; of another request only the client hears. *)
Noted(w) ==
  stats' = IF wrapper[w].other THEN stats ELSE [stats EXCEPT !.records = @ \cup {w}]

(* The server's verdict on a record, or none within the time-out. *)
Verdict(w) ==
  \/ /\ Needs[w] \subseteq server.blobs
     /\ server' = [server EXCEPT !.records = @ \cup {w}]
     /\ UNCHANGED stats
  \/ /\ ~ Needs[w] \subseteq server.blobs
     /\ server' = [server EXCEPT !.refused = @ \cup {w}]
     /\ Noted(w)
  \/ /\ Noted(w)
     /\ UNCHANGED server

ForwardOther(w) ==
  /\ Running /\ At(w, "other") /\ Passed(blob_order, wrapper[w].horizon)
  /\ Verdict(w)
  /\ wrapper' = [wrapper EXCEPT ![w].pc = "end"]
  /\ UNCHANGED <<put, state, blob_order, record_order, spool, upload, deferred, relay>>

-----------------------------------------------------------------------------
(* The background task of a blob: a permit, the upload, then the accounts. *)
StartUpload(t) ==
  /\ t \in upload /\ t.step = "queued" /\ PermitFree
  /\ upload' = (upload \ {t}) \cup {[t EXCEPT !.step = "sending"]}
  /\ UNCHANGED <<wrapper, put, state, blob_order, record_order, spool, deferred, stats, relay, server>>

(* Uploaded, or the server had it already. *)
UploadOk(t) ==
  /\ t \in upload /\ t.step = "sending"
  /\ server' = [server EXCEPT !.blobs = @ \cup {t.digest}]
  /\ state' = [state EXCEPT ![t.digest] = "done"]
  /\ upload' = (upload \ {t}) \cup {[t EXCEPT !.step = "settled"]}
  /\ UNCHANGED <<wrapper, put, blob_order, record_order, spool, deferred, stats, relay>>

(* Refused, too large, or three attempts without an answer. *)
UploadFails(t) ==
  /\ t \in upload /\ t.step = "sending"
  /\ state' = [state EXCEPT ![t.digest] = "failed"]
  /\ stats' = [stats EXCEPT !.blobs = @ \cup {t.digest}]
  /\ upload' = (upload \ {t}) \cup {[t EXCEPT !.step = "settled"]}
  /\ UNCHANGED <<wrapper, put, blob_order, record_order, spool, deferred, relay, server>>

FreeSpool(t) ==
  /\ t \in upload /\ t.step = "settled"
  /\ spool' = [bytes |-> spool.bytes - 1, files |-> spool.files - 1]
  /\ upload' = (upload \ {t}) \cup {[t EXCEPT !.step = "freed"]}
  /\ UNCHANGED <<wrapper, put, state, blob_order, record_order, deferred, stats, relay, server>>

(* Order::finish that tells nobody. *)
FinishQuietly(t) ==
  /\ t \in upload /\ t.step = "freed"
  /\ blob_order' = Done(blob_order, t.sequence)
  /\ upload' = upload \ {t}
  /\ UNCHANGED <<wrapper, put, state, record_order, spool, deferred, stats, relay, server>>

(* Order::finish: everything subscribed to the order is woken. *)
FinishUpload(t) ==
  /\ t \in upload /\ t.step = "freed"
  /\ blob_order' = Done(blob_order, t.sequence)
  /\ upload' = upload \ {t}
  /\ put' = [w \in Wrappers |-> [b \in Needs[w] |->
               IF put[w][b] = "full" THEN "woken" ELSE put[w][b]]]
  /\ UNCHANGED <<wrapper, state, record_order, spool, deferred, stats, relay, server>>

(* The background task of a record: after the blobs accepted before it. *)
SendRecord(t) ==
  /\ t \in deferred /\ t.kind = "record"
  /\ Passed(blob_order, t.blobs)
  /\ Verdict(t.by)
  /\ deferred' = deferred \ {t}
  /\ record_order' = Done(record_order, t.sequence)
  /\ UNCHANGED <<wrapper, put, state, blob_order, spool, upload, relay>>

(* A release that waits for blobs only. *)
SendReleaseEarly(t) ==
  /\ t \in deferred /\ t.kind = "release"
  /\ Passed(blob_order, t.blobs)
  /\ server' = [server EXCEPT !.released = @ \cup {t.by}]
  /\ deferred' = deferred \ {t}
  /\ UNCHANGED <<wrapper, put, state, blob_order, record_order, spool, upload, stats, relay>>

(* The background task of a release: after blobs and records; if it fails,   *)
(* the lease runs out on the server.                                         *)
SendRelease(t) ==
  /\ t \in deferred /\ t.kind = "release"
  /\ Passed(blob_order, t.blobs) /\ Passed(record_order, t.records)
  /\ \/ server' = [server EXCEPT !.released = @ \cup {t.by}]
     \/ UNCHANGED server
  /\ deferred' = deferred \ {t}
  /\ UNCHANGED <<wrapper, put, state, blob_order, record_order, spool, upload, stats, relay>>

-----------------------------------------------------------------------------
(* Relay::finish: no new requests, a moment for those under way, then the    *)
(* background tasks, for a bounded time.                                     *)
StopListening ==
  /\ Listening
  /\ relay' = "draining"
  /\ UNCHANGED <<wrapper, put, state, blob_order, record_order, spool, upload, deferred, stats, server>>

(* Reports a clean drain once the uploads are over. *)
DrainedUploads ==
  /\ relay = "draining" /\ upload = {}
  /\ relay' = "drained"
  /\ deferred' = {}
  /\ UNCHANGED <<wrapper, put, state, blob_order, record_order, spool, upload, stats, server>>

Drained ==
  /\ relay = "draining" /\ upload = {} /\ deferred = {}
  /\ relay' = "drained"
  /\ UNCHANGED <<wrapper, put, state, blob_order, record_order, spool, upload, deferred, stats, server>>

(* The drain timed out: the spool goes, and the tasks with the process. *)
DrainTimeout ==
  /\ relay = "draining" /\ upload \cup deferred # {}
  /\ relay' = "abandoned"
  /\ upload' = {} /\ deferred' = {}
  /\ UNCHANGED <<wrapper, put, state, blob_order, record_order, spool, stats, server>>

(* External: the server's collection evicts a record, and a blob of it. *)
ServerEvicts(b) ==
  /\ b \in server.blobs /\ server.evictions < MaxEvictions
  /\ \E w \in server.records : b \in Needs[w]
  /\ server' = [server EXCEPT !.blobs = @ \ {b}, !.evictions = @ + 1]
  /\ UNCHANGED <<wrapper, put, state, blob_order, record_order, spool, upload, deferred, stats, relay>>

WrapperStep(w) ==
  \/ \E b \in Blobs : KnownBlob(w, b) \/ PutBlob(w, b) \/ Recheck(w, b) \/ Accept(w, b)
  \/ PublishFails(w) \/ DeferRecord(w) \/ DeferRelease(w)
  \/ OtherRequest(w) \/ ForwardOther(w)

(* A step of some background task. *)
TaskStep ==
  \/ \E t \in upload : StartUpload(t)
  \/ \E t \in upload : UploadOk(t) \/ UploadFails(t)
  \/ \E t \in upload : FreeSpool(t)
  \/ \E t \in upload : FinishUpload(t)
  \/ \E t \in deferred : SendRecord(t)
  \/ \E t \in deferred : SendRelease(t)

Next ==
  \/ \E w \in Wrappers : WrapperStep(w) \/ \E b \in Blobs : SpoolFails(w, b)
  \/ TaskStep
  \/ StopListening \/ Drained \/ DrainTimeout
  \/ \E b \in Blobs : ServerEvicts(b)

Spec == Init /\ [][Next]_vars

(***************************************************************************)
(* The runtime polls every task, every request to the server ends by its   *)
(* time-out, and a wrapper's own requests go on.  Nothing makes the build  *)
(* end, so StopListening has no fairness.                                  *)
(***************************************************************************)
FairSpec == Spec /\ WF_vars(TaskStep) /\ \A w \in Wrappers : WF_vars(WrapperStep(w))

-----------------------------------------------------------------------------
Tasks == [digest : Blobs, sequence : Nat, step : {"queued", "sending", "settled", "freed"}]

(* Types, and the spool's counters: exactly the accepted blobs not yet freed *)
(* are counted, so the fetch_sub of relay.rs:563-564 never wraps around.     *)
RelayTypeOK ==
  /\ \A w \in Wrappers :
       /\ wrapper[w].pc \in {"blobs", "release", "other", "end"}
       /\ put[w] \in [Needs[w] -> Waits \cup {"todo", "ok", "failed"}]
       /\ Cardinality(Open(w)) <= Fetches
       /\ wrapper[w].stored => AllOk(w)
  /\ state \in [Blobs -> {None, "pending", "done", "failed"}]
  /\ upload \subseteq Tasks
  /\ relay \in {"listening", "draining", "drained", "abandoned"}
  /\ relay # "abandoned" =>
       LET held == {t \in upload : t.step # "freed"} IN
       spool = [bytes |-> Cardinality(held), files |-> Cardinality(held)]

(***************************************************************************)
(* A record reaches the server "only after every blob accepted before it"  *)
(* (relay.rs:11): without a collection on the server, it is refused only   *)
(* when an upload of one of its blobs failed, whichever wrapper's request  *)
(* had carried the blob.                                                   *)
(***************************************************************************)
RefusedOnlyIfFailed ==
  \A w \in server.refused : server.evictions = 0 => Needs[w] \cap stats.blobs # {}

(***************************************************************************)
(* A lease is released "only after every record before it" (relay.rs:12):  *)
(* when the server sees the release, the record published under the lease  *)
(* is no longer under way, so a waiting runner finds it.                   *)
(***************************************************************************)
ReleasedAfterRecord ==
  \A w \in server.released :
    \A t \in deferred : t.kind = "record" => t.by # w

(***************************************************************************)
(* A clean end is true: when the drain did not time out, every record a    *)
(* wrapper was told is stored is on the server or counted as a failure     *)
(* (Relay::finish and its summary).                                        *)
(***************************************************************************)
NothingDropped ==
  relay = "drained" =>
    \A w \in Wrappers : wrapper[w].stored => w \in server.records \cup stats.records

(***************************************************************************)
(* Nobody waits for ever: a request that found the spool full goes on,     *)
(* unless the session ends first, and a deferred record or release is sent *)
(* in the end, since the orders it waits for are never waiting for it      *)
(* (put_blob's back-pressure, Order::wait_before in defer).                *)
(***************************************************************************)
NobodyWaits ==
  \A w \in Wrappers :
    /\ \A b \in Needs[w] :
         put[w][b] \in {"full", "woken"} ~> (put[w][b] \in {"ok", "failed"} \/ ~Listening)
    /\ At(w, "end") ~> {t \in deferred : t.by = w} = {}
=============================================================================
