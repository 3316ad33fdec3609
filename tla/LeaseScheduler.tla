--------------------------- MODULE LeaseScheduler ---------------------------
(***************************************************************************)
(* The lease state machine of bellows-lease (scheduler.rs): a queue of     *)
(* requests per machine, at most one holder per machine, sessions whose    *)
(* token runs nested requests, administration, CI sharing.                 *)
(*                                                                         *)
(* The scheduler is one value, `sched`, and its methods are operators from *)
(* a scheduler value to the next, because the daemon (LeaseDaemon) calls   *)
(* several of them under one lock. The actions below call one each.        *)
(*                                                                         *)
(* Data abstraction: a label is the set of texts a reservation may look    *)
(* for in it; a session's token ("{id}-{seed}") is its id; times are ticks *)
(* of half a second, so an estimate of e seconds overruns after 3e ticks.  *)
(***************************************************************************)
EXTENDS Integers, FiniteSets, SequencesExt

CONSTANTS Machines,      \* config.machines
          Requests,      \* the requests clients make (without their token)
          Texts,         \* the texts reservations name
          CiJobs,        \* the CI jobs that register
          Queues,        \* the merge queues GitHub may report: pr -> position
          Positions,     \* the positions an administrator moves requests to
          FullJobs,      \* config.jobs
          SharedJobs,    \* config.ci_jobs
          CiExpiry,      \* config.ci_expiry_ms, in ticks
          Holds,         \* how long reservations last, in ticks
          MaxId,         \* bound: requests admitted in one behaviour
          MaxTime,       \* bound: ticks in one behaviour
          None           \* Rust's None

VARIABLES sched, now

Unranked == 1000         \* usize::MAX: behind every merge-queue position

Ids == Nat \ {0}
Option(S) == S \cup {None}

Waiting == [id : Ids, machine : Machines, label : SUBSET Texts, priority : Int,
            pr : Option(Nat), estimate : Nat, session : BOOLEAN, since : Nat,
            manual_position : Option(Nat)]
Holder == [id : Ids, label : SUBSET Texts, since : Nat, estimate : Nat,
           session : BOOLEAN, token : Option(Ids), preempting : BOOLEAN,
           overrun_logged : BOOLEAN]
Grant == [id : Ids, machine : Machines, jobs : {FullJobs, SharedJobs},
          token : Option(Ids), nested : BOOLEAN]

Reservation == [label : Texts, until : Nat]
Scheduler ==
  [ next_id     : Ids,
    waiting     : SUBSET Waiting,
    holders     : [Machines -> Option(Holder)],
    nested      : SUBSET [id : Ids, machine : Machines],
    paused      : SUBSET Machines,
    reserved    : [Machines -> Option(Reservation)],
    ci          : [Machines -> [CiJobs -> Option(Nat)]],
    merge_queue : Queues \cup {[p \in {} |-> 0]},
    unclaimed   : SUBSET Grant ]

ASSUME NoneAssumption ==
  /\ None \notin Nat
  /\ None \notin Holder
ASSUME ConfigAssumption ==
  /\ Machines \subseteq STRING
  /\ FullJobs \in Nat /\ SharedJobs \in Nat /\ CiExpiry \in Nat
  /\ MaxId \in Nat /\ MaxTime \in Nat
  /\ Holds \subseteq Nat /\ Positions \subseteq Nat
ASSUME RequestsAssumption ==
  \A r \in Requests :
    /\ DOMAIN r = {"machine", "label", "priority", "pr", "estimate", "session"}
    /\ r.label \subseteq Texts /\ r.priority \in Int /\ r.pr \in Option(Nat)
    /\ r.estimate \in Nat /\ r.session \in BOOLEAN
ASSUME MergeQueueAssumption == \A q \in Queues : \A pr \in DOMAIN q : q[pr] \in Nat
-----------------------------------------------------------------------------
(* Queries *)

Initial ==
  [ next_id     |-> 1,
    waiting     |-> {},
    holders     |-> [m \in Machines |-> None],
    nested      |-> {},
    paused      |-> {},
    reserved    |-> [m \in Machines |-> None],
    ci          |-> [m \in Machines |-> [j \in CiJobs |-> None]],
    merge_queue |-> [p \in {} |-> 0],
    unclaimed   |-> {} ]

knows(machine) == machine \in Machines

Held(s) == {m \in Machines : s.holders[m] # None}
HeldIds(s) == {s.holders[m].id : m \in Held(s)}
WaitingIds(s) == {w.id : w \in s.waiting}
NestedIds(s) == {n.id : n \in s.nested}

is_waiting(s, id) == id \in WaitingIds(s)
holds(s, id) == id \in HeldIds(s) \/ id \in NestedIds(s)

Rank(queue, w) == IF w.pr \in DOMAIN queue THEN queue[w.pr] ELSE Unranked

\* The sort key of order(): priority, then merge queue, then arrival.
Before(queue, v, w) ==
  \/ v.priority > w.priority
  \/ v.priority = w.priority /\ Rank(queue, v) < Rank(queue, w)
  \/ v.priority = w.priority /\ Rank(queue, v) = Rank(queue, w) /\ v.since < w.since
  \/ /\ v.priority = w.priority /\ Rank(queue, v) = Rank(queue, w) /\ v.since = w.since
     /\ v.id < w.id

EarlierMove(v, w) ==
  \/ v.manual_position < w.manual_position
  \/ v.manual_position = w.manual_position /\ v.id < w.id

Queue(s, machine) == {w \in s.waiting : w.machine = machine}

Automatic(s, machine) == {w \in Queue(s, machine) : w.manual_position = None}
Manual(s, machine) == {w \in Queue(s, machine) : w.manual_position # None}

\* The n-th in a total order is the one n - 1 others come before.
InGrantOrder(S, queue) ==
  [n \in 1..Cardinality(S) |->
     CHOOSE w \in S : Cardinality({v \in S : Before(queue, v, w)}) = n - 1]

SortedAutomatic(s, machine) == InGrantOrder(Automatic(s, machine), s.merge_queue)

SortedManual(s, machine) ==
  LET S == Manual(s, machine)
  IN  [n \in 1..Cardinality(S) |->
         CHOOSE w \in S : Cardinality({v \in S : EarlierMove(v, w)}) = n - 1]

\* MUTANT of Put: a moved request is put one place too late.
put_late(queue, w) == InsertAt(queue, Min({w.manual_position + 1, Len(queue)}) + 1, w)

\* A moved request goes to its position in what is there so far.
Put(queue, w) == InsertAt(queue, Min({w.manual_position, Len(queue)}) + 1, w)

PutAll(queue, moved) ==
  LET after[n \in 0..Len(moved)] == IF n = 0 THEN queue ELSE Put(after[n - 1], moved[n])
  IN  after[Len(moved)]

\* Requests for `machine` in grant order: the automatic ones sorted, then each
\* moved one put at its position.
order(s, machine) == PutAll(SortedAutomatic(s, machine), SortedManual(s, machine))

\* Zero-based, as in the code; w is waiting.
position(s, w) ==
  LET queue == order(s, w.machine) IN (CHOOSE i \in DOMAIN queue : queue[i] = w) - 1

ci_active(s, machine, time) ==
  \E j \in CiJobs : /\ s.ci[machine][j] # None
                    /\ time - s.ci[machine][j] < CiExpiry

jobs(s, machine, time) == IF ci_active(s, machine, time) THEN SharedJobs ELSE FullJobs

\* A waiting request that the machine's reservation, if any, lets through.
Eligible(s, machine, time) ==
  LET r == s.reserved[machine]
      open == r = None \/ r.until <= time
  IN  {w \in Queue(s, machine) : open \/ r.label \in w.label}

\* MUTANT of First: only the head of the queue is considered.
FirstIsHead(s, machine, time) ==
  LET queue == order(s, machine)
  IN  {w \in Eligible(s, machine, time) : Len(queue) > 0 /\ queue[1] = w}

\* The first eligible request in grant order, as a set of at most one.
First(s, machine, time) ==
  LET fit == Eligible(s, machine, time)
  IN  {w \in fit : \E queue \in {order(s, machine)} : \E i \in DOMAIN queue :
         /\ queue[i] = w
         /\ \A j \in 1..(i - 1) : queue[j] \notin fit}
-----------------------------------------------------------------------------
(* Operations: a scheduler value to the next *)

\* MUTANT of Admission: a preempted session still runs nested requests.
AdmissionIgnoresPreempt(s, r, token) ==
  IF ~knows(r.machine) THEN "refused"
  ELSE IF \/ token = None \/ s.holders[r.machine] = None
          \/ s.holders[r.machine].token # token THEN "queued"
  ELSE "nested"

\* What admit() answers to a request that carries `token`.
Admission(s, r, token) ==
  IF ~knows(r.machine) THEN "refused"
  ELSE IF \/ token = None \/ s.holders[r.machine] = None
          \/ s.holders[r.machine].token # token THEN "queued"
  ELSE IF s.holders[r.machine].preempting THEN "preempted"
  ELSE "nested"

AsWaiting(r, id, time) ==
  [id |-> id, machine |-> r.machine, label |-> r.label, priority |-> r.priority,
   pr |-> r.pr, estimate |-> r.estimate, session |-> r.session, since |-> time,
   manual_position |-> None]

\* MUTANT of admit: a request for an unknown machine is queued.
admit_unknown(s, r, token, time) ==
  [s EXCEPT !.next_id = @ + 1, !.waiting = @ \cup {AsWaiting(r, s.next_id, time)}]

\* Every request but one for an unknown machine uses up an id.
admit(s, r, token, time) ==
  CASE Admission(s, r, token) = "refused" -> s
    [] Admission(s, r, token) = "preempted" -> [s EXCEPT !.next_id = @ + 1]
    [] Admission(s, r, token) = "nested" ->
         [s EXCEPT !.next_id = @ + 1,
                   !.nested = @ \cup {[id |-> s.next_id, machine |-> r.machine]}]
    [] OTHER -> [s EXCEPT !.next_id = @ + 1,
                          !.waiting = @ \cup {AsWaiting(r, s.next_id, time)}]

\* The machines grant() hands out now, and the request each goes to.
Grantable(s, time) ==
  {m \in Machines : s.holders[m] = None /\ m \notin s.paused /\ First(s, m, time) # {}}

Winner(s, machine, time) == CHOOSE w \in First(s, machine, time) : TRUE

SessionToken(w) == IF w.session THEN w.id ELSE None

AsHolder(w, time) ==
  [id |-> w.id, label |-> w.label, since |-> time, estimate |-> w.estimate,
   session |-> w.session, token |-> SessionToken(w), preempting |-> FALSE,
   overrun_logged |-> FALSE]

AsGrant(s, w, time) ==
  [id |-> w.id, machine |-> w.machine, jobs |-> jobs(s, w.machine, time),
   token |-> SessionToken(w), nested |-> FALSE]

\* Grants every free machine to its first eligible request.
grant(s, time) ==
  LET won == Grantable(s, time)
      winner == [m \in won |-> Winner(s, m, time)]
  IN  [s EXCEPT !.waiting = @ \ {winner[m] : m \in won},
                !.holders = [m \in Machines |-> IF m \in won THEN AsHolder(winner[m], time)
                                                            ELSE s.holders[m]],
                !.unclaimed = @ \cup {AsGrant(s, winner[m], time) : m \in won}]

\* The grant made for `id` is taken once.
Unclaimed(s, id) == {g \in s.unclaimed : g.id = id}
claim(s, id) == [s EXCEPT !.unclaimed = @ \ Unclaimed(s, id)]

\* MUTANT of release: the grant of a request that left stays claimable.
release_keeps_grant(s, id) ==
  [s EXCEPT !.waiting = {w \in @ : w.id # id},
            !.nested = {n \in @ : n.id # id},
            !.holders = [m \in Machines |-> IF s.holders[m] # None /\ s.holders[m].id = id
                                            THEN None ELSE s.holders[m]]]

\* MUTANT of release: the machine goes to the next request at once.
release_hands_over(s, id) ==
  grant([s EXCEPT !.waiting = {w \in @ : w.id # id},
                  !.unclaimed = {g \in @ : g.id # id},
                  !.nested = {n \in @ : n.id # id},
                  !.holders = [m \in Machines |-> IF /\ id \notin NestedIds(s)
                                                     /\ s.holders[m] # None /\ s.holders[m].id = id
                                                  THEN None ELSE s.holders[m]]], now)

\* Ends a request or lease, whatever its state.
release(s, id) ==
  [s EXCEPT !.waiting = {w \in @ : w.id # id},
            !.unclaimed = {g \in @ : g.id # id},
            !.nested = {n \in @ : n.id # id},
            !.holders = [m \in Machines |-> IF /\ id \notin NestedIds(s)
                                               /\ s.holders[m] # None /\ s.holders[m].id = id
                                            THEN None ELSE s.holders[m]]]

reorder(s, id, at) ==
  [s EXCEPT !.waiting = {IF w.id = id THEN [w EXCEPT !.manual_position = at] ELSE w : w \in @}]

set_paused(s, machine, on) ==
  [s EXCEPT !.paused = IF on THEN @ \cup {machine} ELSE @ \ {machine}]

reserve(s, machine, reservation) == [s EXCEPT !.reserved[machine] = reservation]

preempt(s, id) ==
  [s EXCEPT !.holders = [m \in Machines |-> IF s.holders[m] # None /\ s.holders[m].id = id
                                            THEN [s.holders[m] EXCEPT !.preempting = TRUE]
                                            ELSE s.holders[m]]]

ci_start(s, machine, job, time) == [s EXCEPT !.ci[machine][job] = time]
ci_stop(s, machine, job) == [s EXCEPT !.ci[machine][job] = None]
set_merge_queue(s, queue) == [s EXCEPT !.merge_queue = queue]

Overdue(h, time) == ~h.overrun_logged /\ time - h.since > 3 * h.estimate

\* Marks the holders past 1.5 times their estimate as reported.
overruns(s, time) ==
  [s EXCEPT !.holders = [m \in Machines |-> IF s.holders[m] # None /\ Overdue(s.holders[m], time)
                                            THEN [s.holders[m] EXCEPT !.overrun_logged = TRUE]
                                            ELSE s.holders[m]]]
-----------------------------------------------------------------------------
(* The scheduler on its own: any caller, any order of calls *)

vars == <<sched, now>>

Init == sched = Initial /\ now = 0

KnownIds == 1..(sched.next_id - 1)

Admit ==
  /\ sched.next_id <= MaxId
  /\ \E r \in Requests, token \in Option(KnownIds) : sched' = admit(sched, r, token, now)
  /\ UNCHANGED now

GrantAll == sched' = grant(sched, now) /\ UNCHANGED now

Claim ==
  /\ \E id \in KnownIds : Unclaimed(sched, id) # {} /\ sched' = claim(sched, id)
  /\ UNCHANGED now

Release == (\E id \in KnownIds : sched' = release(sched, id)) /\ UNCHANGED now

Reorder ==
  /\ \E id \in WaitingIds(sched), at \in Positions : sched' = reorder(sched, id, at)
  /\ UNCHANGED now

SetPaused ==
  (\E m \in Machines, on \in BOOLEAN : sched' = set_paused(sched, m, on)) /\ UNCHANGED now

Reserve ==
  /\ \E m \in Machines :
       \/ sched' = reserve(sched, m, None)
       \/ \E text \in Texts, for \in Holds :
            sched' = reserve(sched, m, [label |-> text, until |-> now + for])
  /\ UNCHANGED now

Preempt == (\E id \in HeldIds(sched) : sched' = preempt(sched, id)) /\ UNCHANGED now

Ci ==
  /\ \E m \in Machines, j \in CiJobs : \/ sched' = ci_start(sched, m, j, now)
                                       \/ sched' = ci_stop(sched, m, j)
  /\ UNCHANGED now

SetMergeQueue == (\E q \in Queues : sched' = set_merge_queue(sched, q)) /\ UNCHANGED now

Overruns == sched' = overruns(sched, now) /\ UNCHANGED now

Tick == now < MaxTime /\ now' = now + 1 /\ UNCHANGED sched

Next == \/ Admit \/ GrantAll \/ Claim \/ Release
        \/ Reorder \/ SetPaused \/ Reserve \/ Preempt
        \/ Ci \/ SetMergeQueue \/ Overruns \/ Tick

Spec == Init /\ [][Next]_vars
-----------------------------------------------------------------------------
(* Properties *)

\* The scheduler's fields keep the types of scheduler.rs.
TypeOK == sched \in Scheduler /\ now \in Nat

\* Ids are handed out once: everything alive has an id below next_id, and two
\* queue entries never share one.
FreshIds ==
  /\ WaitingIds(sched) \cup HeldIds(sched) \cup NestedIds(sched) \subseteq KnownIds
  /\ \A v, w \in sched.waiting : v.id = w.id => v = w

\* A request is waiting, or holds one machine, or runs nested, and never two of
\* these: grant() and release() move it, they never copy it.
OneState ==
  /\ WaitingIds(sched) \cap HeldIds(sched) = {}
  /\ NestedIds(sched) \cap (WaitingIds(sched) \cup HeldIds(sched)) = {}
  /\ \A m, n \in Held(sched) : sched.holders[m].id = sched.holders[n].id => m = n

\* A grant that a connection may still claim is the lease of the machine's
\* present holder: claim() never returns a lease that release() ended.
UnclaimedIsHeld ==
  \A g \in sched.unclaimed :
    /\ sched.holders[g.machine] # None
    /\ sched.holders[g.machine].id = g.id
    /\ sched.holders[g.machine].token = g.token
    /\ ~g.nested

\* What admit, grant, claim and release keep between them, in any order of calls
\* and whoever makes them: ids, states and unclaimed grants agree.
LeasesAgree == FreshIds /\ OneState /\ UnclaimedIsHeld

Granted(m, w) == /\ sched.holders[m] = None
                 /\ sched'.holders[m] # None
                 /\ sched'.holders[m].id = w.id

\* v goes ahead of w by priority, then merge queue, then arrival.
Outranks(v, w) ==
  \/ v.priority > w.priority
  \/ v.priority = w.priority /\ Rank(sched.merge_queue, v) < Rank(sched.merge_queue, w)
  \/ v.priority = w.priority /\ Rank(sched.merge_queue, v) = Rank(sched.merge_queue, w) /\ v.id < w.id

LetThrough(m, w) ==
  \/ sched.reserved[m] = None
  \/ sched.reserved[m].until <= now
  \/ sched.reserved[m].label \in w.label

\* grant() takes an unpaused machine, a request its live reservation lets
\* through, and never a request while an unmoved one that outranks it and is
\* let through waits, unless an administrator moved the taken one.  And an idle
\* machine is never passed over: after grant(), a free, unpaused machine has no
\* waiting request that its reservation lets through.
GrantInOrder ==
  [][/\ \A m \in Machines : \A w \in Queue(sched, m) : Granted(m, w) =>
          /\ m \notin sched.paused
          /\ LetThrough(m, w)
          /\ w.manual_position = None =>
               ~\E v \in Queue(sched, m) : /\ v.manual_position = None
                                           /\ LetThrough(m, v)
                                           /\ Outranks(v, w)
     /\ sched' = grant(sched, now) =>
          \A m \in Machines : sched'.holders[m] = None /\ m \notin sched.paused =>
            ~\E w \in Queue(sched, m) : LetThrough(m, w)]_vars

\* preempt() lasts until the session ends, and no nested run starts on the
\* machine in the meantime.
PreemptEndsSession ==
  [][\A m \in Held(sched) : sched.holders[m].preempting =>
       /\ \/ sched'.holders[m] = None
          \/ sched'.holders[m].id = sched.holders[m].id /\ sched'.holders[m].preempting
       /\ {n \in sched'.nested : n.machine = m} \subseteq sched.nested]_vars

Moved(m) == {w \in Queue(sched, m) : w.manual_position # None}

\* Requests an administrator moved to different positions all stand at or ahead
\* of the position asked for, whatever arrives or leaves; and moving requests
\* never changes the order of the ones not moved (order, reorder).
QueueInOrder ==
  \A m \in Machines :
    /\ (\A v, w \in Moved(m) : v.manual_position = w.manual_position => v = w) =>
         \A w \in Moved(m) : position(sched, w) <= w.manual_position
    /\ \A v, w \in Queue(sched, m) \ Moved(m) :
         Outranks(v, w) => position(sched, v) < position(sched, w)

\* The scheduler implements the abstract machine lease.
Lease == INSTANCE MachineLease
           WITH Nobody <- None,
                owner <- [m \in Machines |-> IF sched.holders[m] = None
                                             THEN None ELSE sched.holders[m].id],
                spent <- KnownIds \ WaitingIds(sched)

LeaseSpec == Lease!Spec
=============================================================================
