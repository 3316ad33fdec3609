------------------------- MODULE LeaseDaemonProofs -------------------------
(***************************************************************************)
(* Proofs about LeaseDaemon, for any clients, requests, orders, machines   *)
(* and bounds: a task that serves holds its lease, a job runs under a      *)
(* lease, two sessions' jobs never share a machine, and no machine idles   *)
(* while a waiting task could have it.                                     *)
(***************************************************************************)
EXTENDS LeaseDaemon, LeaseSchedulerProofs

(* The inductive invariant *)

Tasks == {"none", "hello", "look", "report", "refuse", "parked", "granted", "serve", "finish",
          "release", "leave", "regrant", "notify", "ended"}
Started == {"spawning", "spawned", "running", "stopping"}
Working == {"spawned", "running", "stopping"}
Mails == {"preempting", "revoked"}
Replies == [type : {"queued", "granted", "refused", "preempting", "revoked"}, token : Option(Ids)]

\* The state's types, the queue positions a task has seen left open.
ConnShape ==
  /\ DOMAIN conn = Conns
  /\ \A c \in Conns :
       /\ DOMAIN conn[c] = {"task", "id", "last", "seen", "woken", "mailbox", "pgid", "code"}
       /\ conn[c].task \in Tasks /\ conn[c].id \in Nat
       /\ conn[c].mailbox \in Option(Seq(Mails))
       /\ conn[c].pgid \in BOOLEAN /\ conn[c].code \in BOOLEAN
ProcShape ==
  proc \in [Conns -> [at : {"idle", "waiting", "exited", "unleased"} \cup Started,
                      token : Option(Ids), stop : BOOLEAN, leader : BOOLEAN, kids : BOOLEAN]]
WireShape == wire \in [Conns -> [down : Seq(Replies), up : Seq({"spawned", "done"})]]
Shapes == ConnShape /\ ProcShape /\ WireShape /\ restarts \in Nat

\* The scheduler's own invariant; a session's token is its id; and each request
\* has an id of its own and stands on its machine.
Bound ==
  /\ LeaseInv
  /\ \A m \in Held(sched) : sched.holders[m].token \in {None, sched.holders[m].id}
  /\ \A c \in Conns : conn[c].id < sched.next_id
  /\ \A c, d \in Conns : Id(c) = Id(d) /\ Id(c) # 0 => c = d
  /\ \A c \in Conns :
       /\ \A m \in Held(sched) : sched.holders[m].id = Id(c) => m = Machine(c)
       /\ \A w \in sched.waiting : w.id = Id(c) => w.machine = Machine(c)
       /\ Id(c) \in NestedIds(sched) => Inside[c] # None

Gone(c) == \/ conn[c].task \in {"regrant", "notify"}
           \/ conn[c].task = "ended" /\ Reported(c)

\* A task and the scheduler agree.
TaskInv(c) ==
  /\ conn[c].task \in {"granted", "serve", "finish", "release"} => holds(sched, Id(c))
  /\ conn[c].task \in {"serve", "finish"} => conn[c].mailbox # None
  /\ conn[c].task \notin {"serve", "finish", "ended"} => conn[c].mailbox = None
  /\ conn[c].task \in {"look", "report", "parked"} =>
       is_waiting(sched, Id(c)) \/ Unclaimed(sched, Id(c)) # {} \/ Cancelled(c)
  /\ Gone(c) => ~is_waiting(sched, Id(c)) /\ ~holds(sched, Id(c))

Late(c) == conn[c].task \in {"serve", "finish", "release", "regrant", "notify", "ended"}

GrantSent(c) == \E i \in DOMAIN wire[c].down : wire[c].down[i].type = "granted"
DoneSent(c) == conn[c].code \/ \E i \in DOMAIN wire[c].up : wire[c].up[i] = "done"

\* A job starts after the grant was sent, and nothing of it outlives its report.
ProcInv(c) ==
  /\ proc[c].at = "idle" => conn[c].task = "none"
  /\ ~Late(c) => /\ proc[c].at \notin Started /\ ~GrantSent(c) /\ ~Reported(c)
                 /\ ~proc[c].leader /\ ~proc[c].kids /\ proc[c].token = None
  /\ proc[c].leader => proc[c].at \in Working
  /\ proc[c].kids => proc[c].at \in Working \cup {"exited"}
  /\ DoneSent(c) => proc[c].at = "exited" /\ ~proc[c].leader /\ ~proc[c].kids
  /\ conn[c].task = "finish" /\ ~conn[c].code => wire[c].up = <<>> /\ ~Alive(c)

\* While the daemon lives, a started job's task serves it, until its group is
\* gone.
ServedInv(c) ==
  /\ proc[c].at \in Started => conn[c].task = "serve"
  /\ proc[c].at = "waiting" /\ GrantSent(c) => conn[c].task = "serve"
  /\ proc[c].kids /\ Reported(c) => conn[c].task \in {"serve", "finish"}

DaemonInv ==
  /\ Shapes /\ Bound
  /\ \A c \in Conns : TaskInv(c) /\ ProcInv(c) /\ (restarts = 0 => ServedInv(c))

-----------------------------------------------------------------------------
(* What a step leaves of a client it is not about *)

\* Its task is where it was; an open mailbox may have got a message.
SameConn(d) ==
  /\ conn'[d].task = conn[d].task /\ conn'[d].id = conn[d].id
  /\ \/ conn'[d].mailbox = conn[d].mailbox
     \/ conn'[d].mailbox # None /\ conn[d].mailbox # None
  /\ conn'[d].pgid = conn[d].pgid /\ conn'[d].code = conn[d].code

\* The process goes on, or it is killed with the group it runs in.
SameProc(d) ==
  /\ proc'[d].token = proc[d].token /\ proc'[d].kids = proc[d].kids
  /\ \/ proc'[d].at = proc[d].at /\ proc'[d].leader = proc[d].leader
     \/ proc[d].at # "idle" /\ proc'[d].at = "exited" /\ ~proc'[d].leader

\* The scheduler goes on with its request as before: a lease stays, a queued
\* request is at most granted or cancelled, and nothing comes back.
SameStatus(d) ==
  /\ holds(sched, Id(d)) => holds(sched', Id(d))
  /\ is_waiting(sched, Id(d)) \/ Unclaimed(sched, Id(d)) # {} \/ Cancelled(d) =>
       \/ is_waiting(sched', Id(d)) \/ Unclaimed(sched', Id(d)) # {}
       \/ d \in answered'.cancels
  /\ ~is_waiting(sched, Id(d)) /\ ~holds(sched, Id(d)) =>
       ~is_waiting(sched', Id(d)) /\ ~holds(sched', Id(d))

\* A step that leaves the scheduler and the cancels alone leaves every status.
LEMMA StatusSame ==
  ASSUME sched' = sched, answered' = answered, NEW d \in Conns
  PROVE  SameStatus(d)
BY DEF SameStatus, Cancelled

\* So it does what ties the requests to the scheduler.
LEMMA BoundSame ==
  ASSUME Bound, sched' = sched, now' = now, \A d \in Conns : conn'[d].id = conn[d].id
  PROVE  Bound'
<1>1. LeaseInv'
  BY InvStep DEF Bound, vars
<1> QED
  BY <1>1 DEF Bound, Id, Machine

\* A task whose request goes on as before keeps its invariant.
LEMMA TaskKeeps ==
  ASSUME NEW d \in Conns, TaskInv(d), SameConn(d), SameStatus(d),
         conn[d].task = "ended" => (Reported(d)' => Reported(d))
  PROVE  TaskInv(d)'
<1>1. Id(d)' = Id(d) /\ (Gone(d)' => Gone(d))
  BY DEF Id, Gone, SameConn
<1> QED
  BY <1>1 DEF TaskInv, SameStatus, SameConn, Cancelled

\* A client the step is not about keeps its invariants.
LEMMA AsideKeeps ==
  ASSUME NEW d \in Conns, TaskInv(d), ProcInv(d), SameConn(d), SameProc(d), wire'[d] = wire[d],
         SameStatus(d)
  PROVE  TaskInv(d)' /\ ProcInv(d)' /\ (ServedInv(d) => ServedInv(d)')
<1>1. Reported(d)' = Reported(d) /\ DoneSent(d)' = DoneSent(d) /\ GrantSent(d)' = GrantSent(d)
  BY DEF Reported, DoneSent, GrantSent, SameConn
<1>2. Late(d)' = Late(d)
  BY DEF Late, SameConn
<1>3. Alive(d)' => Alive(d)
  BY DEF Alive, SameProc
<1>4. TaskInv(d)'
  BY <1>1, TaskKeeps
<1>5. ProcInv(d)'
  BY <1>1, <1>2, <1>3 DEF ProcInv, SameConn, SameProc, Started, Working
<1>6. ServedInv(d) => ServedInv(d)'
  BY <1>1 DEF ServedInv, SameConn, SameProc, Started
<1> QED
  BY <1>4, <1>5, <1>6

\* A step that leaves the scheduler alone keeps the invariant if the client it is
\* about keeps its part.
LEMMA QuietStep ==
  ASSUME DaemonInv, NEW c \in Conns, ConnShape', ProcShape', WireShape',
         restarts' = restarts, sched' = sched, now' = now, answered' = answered,
         \A d \in Conns \ {c} : SameConn(d) /\ SameProc(d) /\ wire'[d] = wire[d],
         conn'[c].id = conn[c].id,
         TaskInv(c)', ProcInv(c)', restarts = 0 => ServedInv(c)'
  PROVE  DaemonInv'
<1>1. Shapes'
  BY DEF DaemonInv, Shapes
<1>2. Bound'
  BY BoundSame DEF DaemonInv, SameConn
<1>3. ASSUME NEW d \in Conns PROVE TaskInv(d)' /\ ProcInv(d)' /\ (restarts = 0 => ServedInv(d)')
  <2>1. CASE d = c
    BY <2>1
  <2>2. CASE d # c
    BY <2>2, StatusSame, AsideKeeps DEF DaemonInv
  <2> QED
    BY <2>1, <2>2
<1> QED
  BY <1>1, <1>2, <1>3 DEF DaemonInv
-----------------------------------------------------------------------------
(* What the model's parts write *)

\* Goto() moves one task.
LEMMA GotoWrites ==
  ASSUME ConnShape, NEW c \in Conns, NEW t \in Tasks, Goto(c, t)
  PROVE  /\ ConnShape'
         /\ \A d \in Conns \ {c} : SameConn(d)
         /\ conn'[c].task = t /\ conn'[c].id = conn[c].id
         /\ conn'[c].mailbox = conn[c].mailbox
         /\ conn'[c].pgid = conn[c].pgid /\ conn'[c].code = conn[c].code
BY DEF ConnShape, Goto, SameConn

\* notify_waiters() only wakes.
LEMMA NotifiedWrites ==
  ASSUME ConnShape
  PROVE  /\ DOMAIN Notified(conn) = Conns
         /\ \A d \in Conns :
              /\ DOMAIN Notified(conn)[d] = DOMAIN conn[d]
              /\ Notified(conn)[d].task = conn[d].task /\ Notified(conn)[d].id = conn[d].id
              /\ Notified(conn)[d].mailbox = conn[d].mailbox
              /\ Notified(conn)[d].pgid = conn[d].pgid /\ Notified(conn)[d].code = conn[d].code
BY DEF ConnShape, Notified

Tokens(c) == {wire[c].down[i].token : i \in {j \in DOMAIN wire[c].down :
                                               wire[c].down[j].type = "granted"}}

\* A reply reaches a client that is there.
LEMMA SendWrites ==
  ASSUME WireShape, NEW c \in Conns, NEW r \in Replies, Send(c, r)
  PROVE  /\ WireShape'
         /\ \A d \in Conns \ {c} : wire'[d] = wire[d]
         /\ wire'[c].up = wire[c].up
         /\ GrantSent(c)' <=> GrantSent(c) \/ (Alive(c) /\ r.type = "granted")
         /\ Tokens(c)' \subseteq Tokens(c) \cup (IF r.type = "granted" THEN {r.token} ELSE {})
<1>1. CASE ~Alive(c)
  BY <1>1 DEF Send, GrantSent, WireShape, Tokens
<1>2. CASE Alive(c)
  <2>0. wire[c] \in [down : Seq(Replies), up : Seq({"spawned", "done"})]
    BY DEF WireShape
  <2> DEFINE down == wire[c].down
  <2>1. down \in Seq(Replies)
    BY <2>0
  <2>2. /\ Append(down, r) \in Seq(Replies) /\ Len(Append(down, r)) = Len(down) + 1
        /\ \A i \in 1..Len(down) : Append(down, r)[i] = down[i]
        /\ Append(down, r)[Len(down) + 1] = r
    BY <2>1
  <2>3. /\ wire'[c].down = Append(down, r) /\ wire'[c].up = wire[c].up
        /\ \A d \in Conns \ {c} : wire'[d] = wire[d]
        /\ WireShape'
    BY <1>2, <2>0, <2>2 DEF Send, WireShape
  <2>4. DOMAIN wire'[c].down = 1..(Len(down) + 1) /\ DOMAIN down = 1..Len(down) /\ Len(down) \in Nat
    BY <2>1, <2>2, <2>3
  <2>5. \A i \in DOMAIN wire'[c].down : \/ i \in DOMAIN down /\ wire'[c].down[i] = down[i]
                                        \/ i = Len(down) + 1 /\ wire'[c].down[i] = r
    BY <2>2, <2>3, <2>4
  <2>6. \A i \in DOMAIN down : i \in DOMAIN wire'[c].down /\ wire'[c].down[i] = down[i]
    BY <2>2, <2>3, <2>4
  <2>7. Len(down) + 1 \in DOMAIN wire'[c].down /\ wire'[c].down[Len(down) + 1] = r
    BY <2>2, <2>3, <2>4
  <2>8. GrantSent(c)' <=> GrantSent(c) \/ r.type = "granted"
    BY <2>5, <2>6, <2>7 DEF GrantSent
  <2>9. Tokens(c)' \subseteq Tokens(c) \cup (IF r.type = "granted" THEN {r.token} ELSE {})
    BY <2>5 DEF Tokens
  <2> QED
    BY <1>2, <2>3, <2>8, <2>9
<1> QED
  BY <1>1, <1>2

\* A report reaches a task that is there.
LEMMA TellsWrites ==
  ASSUME WireShape, NEW c \in Conns, NEW e \in {"spawned", "done"}, Tells(c, e),
         conn'[c].pgid = conn[c].pgid, conn'[c].code = conn[c].code
  PROVE  /\ WireShape'
         /\ \A d \in Conns \ {c} : wire'[d] = wire[d]
         /\ wire'[c].down = wire[c].down
         /\ Reported(c)' <=> Reported(c) \/ (Open(c) /\ e = "spawned")
         /\ DoneSent(c)' <=> DoneSent(c) \/ (Open(c) /\ e = "done")
         /\ GrantSent(c)' = GrantSent(c) /\ Tokens(c)' = Tokens(c)
         /\ ~Open(c) => wire'[c] = wire[c]
<1>1. CASE ~Open(c)
  BY <1>1 DEF Tells, Reported, DoneSent, GrantSent, WireShape, Tokens
<1>2. CASE Open(c)
  <2>0. wire[c] \in [down : Seq(Replies), up : Seq({"spawned", "done"})]
    BY DEF WireShape
  <2> DEFINE sent == wire[c].up
  <2>1. sent \in Seq({"spawned", "done"})
    BY <2>0
  <2>2. /\ Append(sent, e) \in Seq({"spawned", "done"}) /\ Len(Append(sent, e)) = Len(sent) + 1
        /\ \A i \in 1..Len(sent) : Append(sent, e)[i] = sent[i]
        /\ Append(sent, e)[Len(sent) + 1] = e
    BY <2>1
  <2>3. /\ wire'[c].up = Append(sent, e) /\ wire'[c].down = wire[c].down
        /\ \A d \in Conns \ {c} : wire'[d] = wire[d]
        /\ WireShape'
    BY <1>2, <2>0, <2>2 DEF Tells, WireShape
  <2>4. DOMAIN wire'[c].up = 1..(Len(sent) + 1) /\ DOMAIN sent = 1..Len(sent) /\ Len(sent) \in Nat
    BY <2>1, <2>2, <2>3
  <2>5. \A i \in DOMAIN wire'[c].up : \/ i \in DOMAIN sent /\ wire'[c].up[i] = sent[i]
                                      \/ i = Len(sent) + 1 /\ wire'[c].up[i] = e
    BY <2>2, <2>3, <2>4
  <2>6. \A i \in DOMAIN sent : i \in DOMAIN wire'[c].up /\ wire'[c].up[i] = sent[i]
    BY <2>2, <2>3, <2>4
  <2>7. Len(sent) + 1 \in DOMAIN wire'[c].up /\ wire'[c].up[Len(sent) + 1] = e
    BY <2>2, <2>3, <2>4
  <2>8. Reported(c)' <=> Reported(c) \/ e = "spawned"
    BY <2>5, <2>6, <2>7 DEF Reported
  <2>9. DoneSent(c)' <=> DoneSent(c) \/ e = "done"
    BY <2>5, <2>6, <2>7 DEF DoneSent
  <2> QED
    BY <1>2, <2>3, <2>8, <2>9 DEF GrantSent, Tokens
<1> QED
  BY <1>1, <1>2

\* What is left of a queue was in it.
LEMMA TailFacts ==
  ASSUME NEW S, NEW q \in Seq(S), q # <<>>
  PROVE  /\ Tail(q) \in Seq(S)
         /\ 1 \in DOMAIN q /\ Head(q) = q[1] /\ q[1] \in S
         /\ \A i \in DOMAIN Tail(q) : i + 1 \in DOMAIN q /\ Tail(q)[i] = q[i + 1]
<1>1. /\ Tail(q) \in Seq(S) /\ 1 \in DOMAIN q /\ Head(q) = q[1] /\ q[1] \in S
      /\ DOMAIN Tail(q) = 1..(Len(q) - 1) /\ DOMAIN q = 1..Len(q) /\ Len(q) \in Nat
  OBVIOUS
<1>2. \A i \in 1..(Len(q) - 1) : Tail(q)[i] = q[i + 1]
  OBVIOUS
<1>3. \A i \in 1..(Len(q) - 1) : i + 1 \in 1..Len(q)
  BY <1>1
<1> QED
  BY <1>1, <1>2, <1>3

\* A reply is read.
LEMMA DownReads ==
  ASSUME WireShape, NEW c \in Conns, wire[c].down # <<>>,
         wire' = [wire EXCEPT ![c].down = Tail(@)]
  PROVE  /\ WireShape'
         /\ \A d \in Conns \ {c} : wire'[d] = wire[d]
         /\ wire'[c].up = wire[c].up
         /\ GrantSent(c)' => GrantSent(c)
         /\ Tokens(c)' \subseteq Tokens(c)
         /\ Head(wire[c].down) \in Replies
         /\ Head(wire[c].down).type = "granted" =>
              GrantSent(c) /\ Head(wire[c].down).token \in Tokens(c)
<1>0. wire[c] \in [down : Seq(Replies), up : Seq({"spawned", "done"})]
  BY DEF WireShape
<1> DEFINE down == wire[c].down
<1>1. down \in Seq(Replies) /\ down # <<>>
  BY <1>0
<1>2. /\ Tail(down) \in Seq(Replies)
      /\ 1 \in DOMAIN down /\ Head(down) = down[1] /\ down[1] \in Replies
      /\ \A i \in DOMAIN Tail(down) : i + 1 \in DOMAIN down /\ Tail(down)[i] = down[i + 1]
  BY <1>1, TailFacts
<1>3. /\ wire'[c].down = Tail(down) /\ wire'[c].up = wire[c].up
      /\ \A d \in Conns \ {c} : wire'[d] = wire[d]
      /\ WireShape'
  BY <1>0, <1>2 DEF WireShape
<1>4. \A i \in DOMAIN wire'[c].down : i + 1 \in DOMAIN down /\ wire'[c].down[i] = down[i + 1]
  BY <1>2, <1>3, Zenon
<1> QED
  BY <1>2, <1>3, <1>4 DEF GrantSent, Tokens

\* A report is read.
LEMMA UpReads ==
  ASSUME WireShape, NEW c \in Conns, wire[c].up # <<>>,
         wire' = [wire EXCEPT ![c].up = Tail(@)]
  PROVE  /\ WireShape'
         /\ \A d \in Conns \ {c} : wire'[d] = wire[d]
         /\ GrantSent(c)' = GrantSent(c) /\ Tokens(c)' = Tokens(c)
         /\ wire'[c].down = wire[c].down
         /\ Head(wire[c].up) \in {"spawned", "done"}
         /\ \E i \in DOMAIN wire[c].up : wire[c].up[i] = Head(wire[c].up)
         /\ \A i \in DOMAIN wire'[c].up : \E j \in DOMAIN wire[c].up : wire'[c].up[i] = wire[c].up[j]
<1>0. wire[c] \in [down : Seq(Replies), up : Seq({"spawned", "done"})]
  BY DEF WireShape
<1> DEFINE sent == wire[c].up
<1>1. sent \in Seq({"spawned", "done"}) /\ sent # <<>>
  BY <1>0
<1>2. /\ Tail(sent) \in Seq({"spawned", "done"})
      /\ 1 \in DOMAIN sent /\ Head(sent) = sent[1] /\ sent[1] \in {"spawned", "done"}
      /\ \A i \in DOMAIN Tail(sent) : i + 1 \in DOMAIN sent /\ Tail(sent)[i] = sent[i + 1]
  BY <1>1, TailFacts
<1>3. /\ wire'[c].up = Tail(sent) /\ wire'[c].down = wire[c].down
      /\ \A d \in Conns \ {c} : wire'[d] = wire[d]
      /\ WireShape'
  BY <1>0, <1>2 DEF WireShape
<1>4. \A i \in DOMAIN wire'[c].up : i + 1 \in DOMAIN sent /\ wire'[c].up[i] = sent[i + 1]
  BY <1>2, <1>3, Zenon
<1> QED
  BY <1>2, <1>3, <1>4 DEF GrantSent, Tokens

\* SIGKILL to a group.
LEMMA KilledWrites ==
  ASSUME ProcShape, NEW c \in Conns
  PROVE  /\ Killed(proc, c) \in [Conns ->
              [at : {"idle", "waiting", "exited", "unleased"} \cup Started,
               token : Option(Ids), stop : BOOLEAN, leader : BOOLEAN, kids : BOOLEAN]]
         /\ Killed(proc, c)[c].at = proc[c].at /\ Killed(proc, c)[c].token = proc[c].token
         /\ ~Killed(proc, c)[c].leader /\ ~Killed(proc, c)[c].kids
         /\ \A d \in Conns \ {c} :
              /\ Killed(proc, c)[d].token = proc[d].token
              /\ Killed(proc, c)[d].kids = proc[d].kids
              /\ \/ /\ Killed(proc, c)[d] = proc[d]
                    /\ Inside[d] = c => ~Alive(d)
                 \/ /\ Killed(proc, c)[d].at = "exited" /\ ~Killed(proc, c)[d].leader
                    /\ Inside[d] = c /\ proc[d].at # "idle"
<1>1. \A d \in Conns :
        Killed(proc, c)[d] =
          IF d = c THEN [proc[d] EXCEPT !.leader = FALSE, !.kids = FALSE]
          ELSE IF Inside[d] = c /\ proc[d].at \notin {"idle", "unleased"}
          THEN [proc[d] EXCEPT !.at = "exited", !.leader = FALSE]
          ELSE proc[d]
  BY DEF Killed
<1>2. DOMAIN Killed(proc, c) = Conns /\ Killed(proc, c) = [d \in Conns |-> Killed(proc, c)[d]]
  BY DEF Killed
<1>3. \A d \in Conns : proc[d] \in [at : {"idle", "waiting", "exited", "unleased"} \cup Started,
               token : Option(Ids), stop : BOOLEAN, leader : BOOLEAN, kids : BOOLEAN]
  BY DEF ProcShape
<1>4. \A d \in Conns : Killed(proc, c)[d] \in
              [at : {"idle", "waiting", "exited", "unleased"} \cup Started,
               token : Option(Ids), stop : BOOLEAN, leader : BOOLEAN, kids : BOOLEAN]
  <2> SUFFICES ASSUME NEW d \in Conns
               PROVE  Killed(proc, c)[d] \in
                        [at : {"idle", "waiting", "exited", "unleased"} \cup Started,
                         token : Option(Ids), stop : BOOLEAN, leader : BOOLEAN, kids : BOOLEAN]
    OBVIOUS
  <2>1. CASE d = c
    BY <1>1, <1>3, <2>1
  <2>2. CASE d # c /\ Inside[d] = c /\ proc[d].at \notin {"idle", "unleased"}
    <3>1. Killed(proc, c)[d] = [proc[d] EXCEPT !.at = "exited", !.leader = FALSE]
      BY <1>1, <2>2
    <3> QED
      BY <1>3, <3>1
  <2>3. CASE d # c /\ ~(Inside[d] = c /\ proc[d].at \notin {"idle", "unleased"})
    BY <1>1, <1>3, <2>3
  <2> QED
    BY <2>1, <2>2, <2>3
<1>5. /\ Killed(proc, c)[c].at = proc[c].at /\ Killed(proc, c)[c].token = proc[c].token
      /\ ~Killed(proc, c)[c].leader /\ ~Killed(proc, c)[c].kids
  BY <1>1, <1>3
<1>6. ASSUME NEW d \in Conns \ {c}
      PROVE  /\ Killed(proc, c)[d].token = proc[d].token
             /\ Killed(proc, c)[d].kids = proc[d].kids
             /\ \/ /\ Killed(proc, c)[d] = proc[d]
                   /\ Inside[d] = c => ~Alive(d)
                \/ /\ Killed(proc, c)[d].at = "exited" /\ ~Killed(proc, c)[d].leader
                   /\ Inside[d] = c /\ proc[d].at # "idle"
  BY <1>1, <1>3 DEF Alive
<1> QED
  BY <1>2, <1>4, <1>5, <1>6
-----------------------------------------------------------------------------
(* The steps of a task that leave the scheduler alone *)

\* What such a step's proof starts from, for the client it is about.
LEMMA Parted ==
  ASSUME DaemonInv, NEW c \in Conns
  PROVE  /\ ConnShape /\ ProcShape /\ WireShape
         /\ TaskInv(c) /\ ProcInv(c) /\ (restarts = 0 => ServedInv(c))
BY DEF DaemonInv, Shapes

\* Processes that do not move, and tasks that do not.
LEMMA ProcSame ==
  ASSUME proc' = proc, NEW d \in Conns PROVE SameProc(d)
BY DEF SameProc

LEMMA ConnSame ==
  ASSUME conn' = conn, NEW d \in Conns PROVE SameConn(d)
BY DEF SameConn

\* Sending a queue position, or failing to.
LEMMA ReportStep ==
  ASSUME DaemonInv, NEW c \in Conns, Report(c)
  PROVE  DaemonInv'
<1>1. /\ ConnShape /\ ProcShape /\ WireShape
      /\ TaskInv(c) /\ ProcInv(c) /\ (restarts = 0 => ServedInv(c))
  BY Parted
<1>2. Reply("queued") \in Replies /\ Reply("queued").type # "granted"
  BY DEF Reply, Replies, Option
<1>3. /\ WireShape' /\ \A d \in Conns \ {c} : wire'[d] = wire[d]
      /\ wire'[c].up = wire[c].up /\ (GrantSent(c)' <=> GrantSent(c))
  BY <1>1, <1>2, SendWrites DEF Report
<1>4. /\ ConnShape' /\ \A d \in Conns \ {c} : SameConn(d)
      /\ conn'[c].task \in {"parked", "ended"} /\ conn'[c].id = conn[c].id
      /\ conn'[c].mailbox = conn[c].mailbox
      /\ conn'[c].pgid = conn[c].pgid /\ conn'[c].code = conn[c].code
  BY <1>1 DEF Report, ConnShape, Tasks, SameConn
<1>5. /\ conn[c].task = "report" /\ proc' = proc /\ sched' = sched /\ now' = now
      /\ answered' = answered /\ restarts' = restarts
  BY DEF Report, taskRest
<1>6. Reported(c)' = Reported(c) /\ DoneSent(c)' = DoneSent(c) /\ Id(c)' = Id(c)
  BY <1>3, <1>4 DEF Reported, DoneSent, Id
<1>7. ~Late(c)
  BY <1>5 DEF Late
<1>8. TaskInv(c)'
  BY <1>1, <1>4, <1>5, <1>6, <1>7 DEF TaskInv, Gone, Cancelled, ProcInv
<1>9. ProcInv(c)'
  BY <1>1, <1>3, <1>4, <1>5, <1>6, <1>7 DEF ProcInv, Late, Started
<1>10. restarts = 0 => ServedInv(c)'
  BY <1>1, <1>3, <1>5, <1>6, <1>7 DEF ProcInv, ServedInv
<1> QED
  BY <1>1, <1>3, <1>4, <1>5, <1>8, <1>9, <1>10, ProcSame, QuietStep DEF ProcShape

\* Answering a request that is not admitted.
LEMMA RefuseStep ==
  ASSUME DaemonInv, NEW c \in Conns, Refuse(c)
  PROVE  DaemonInv'
<1>1. /\ ConnShape /\ ProcShape /\ WireShape
      /\ TaskInv(c) /\ ProcInv(c) /\ (restarts = 0 => ServedInv(c))
  BY Parted
<1>2. Reply("refused") \in Replies /\ Reply("refused").type # "granted"
  BY DEF Reply, Replies, Option
<1>3. /\ WireShape' /\ \A d \in Conns \ {c} : wire'[d] = wire[d]
      /\ wire'[c].up = wire[c].up /\ (GrantSent(c)' <=> GrantSent(c))
  BY <1>1, <1>2, SendWrites DEF Refuse
<1>4. /\ ConnShape' /\ \A d \in Conns \ {c} : SameConn(d)
      /\ conn'[c].task \in {"leave", "ended"} /\ conn'[c].id = conn[c].id
      /\ conn'[c].mailbox = conn[c].mailbox
      /\ conn'[c].pgid = conn[c].pgid /\ conn'[c].code = conn[c].code
  <2>1. PICK t \in {"leave", "ended"} : Goto(c, t)
    BY DEF Refuse
  <2>2. t \in Tasks
    BY DEF Tasks
  <2> QED
    BY <1>1, <2>1, <2>2, GotoWrites
<1>5. /\ conn[c].task = "refuse" /\ proc' = proc /\ sched' = sched /\ now' = now
      /\ answered' = answered /\ restarts' = restarts
  BY DEF Refuse, taskRest
<1>6. Reported(c)' = Reported(c) /\ DoneSent(c)' = DoneSent(c) /\ Id(c)' = Id(c)
  BY <1>3, <1>4 DEF Reported, DoneSent, Id
<1>7. ~Late(c)
  BY <1>5 DEF Late
<1>8. TaskInv(c)'
  BY <1>1, <1>4, <1>5, <1>6, <1>7 DEF TaskInv, Gone, Cancelled, ProcInv
<1>9. ProcInv(c)'
  BY <1>1, <1>3, <1>4, <1>5, <1>6, <1>7 DEF ProcInv, Late, Started
<1>10. restarts = 0 => ServedInv(c)'
  BY <1>1, <1>3, <1>5, <1>6, <1>7 DEF ProcInv, ServedInv
<1> QED
  BY <1>1, <1>3, <1>4, <1>5, <1>8, <1>9, <1>10, ProcSame, QuietStep DEF ProcShape

\* Wake, Poll and Abandon: a parked task looks again or leaves.
LEMMA ParkedStep ==
  ASSUME DaemonInv, NEW c \in Conns, Wake(c) \/ Poll(c) \/ Abandon(c)
  PROVE  DaemonInv'
<1>1. /\ ConnShape /\ ProcShape /\ WireShape
      /\ TaskInv(c) /\ ProcInv(c) /\ (restarts = 0 => ServedInv(c))
  BY Parted
<1>2. /\ conn[c].task = "parked" /\ proc' = proc /\ wire' = wire /\ sched' = sched
      /\ now' = now /\ answered' = answered /\ restarts' = restarts
  BY DEF Wake, Poll, Abandon, taskRest
<1>4. /\ ConnShape' /\ \A d \in Conns \ {c} : SameConn(d)
      /\ conn'[c].task \in {"look", "leave"} /\ conn'[c].id = conn[c].id
      /\ conn'[c].mailbox = conn[c].mailbox
      /\ conn'[c].pgid = conn[c].pgid /\ conn'[c].code = conn[c].code
  <2>1. PICK t \in {"look", "leave"} : Goto(c, t)
    BY DEF Wake, Poll, Abandon
  <2>2. t \in Tasks
    BY DEF Tasks
  <2> QED
    BY <1>1, <2>1, <2>2, GotoWrites
<1>6. /\ Reported(c)' = Reported(c) /\ DoneSent(c)' = DoneSent(c) /\ Id(c)' = Id(c)
      /\ GrantSent(c)' = GrantSent(c)
  BY <1>2, <1>4 DEF Reported, DoneSent, Id, GrantSent
<1>7. ~Late(c)
  BY <1>2 DEF Late
<1>8. TaskInv(c)'
  BY <1>1, <1>2, <1>4, <1>6, <1>7 DEF TaskInv, Gone, Cancelled, ProcInv
<1>9. ProcInv(c)'
  BY <1>1, <1>2, <1>4, <1>6, <1>7 DEF ProcInv, Late, Started
<1>10. restarts = 0 => ServedInv(c)'
  BY <1>1, <1>2, <1>6, <1>7 DEF ProcInv, ServedInv
<1> QED
  BY <1>1, <1>2, <1>4, <1>8, <1>9, <1>10, ProcSame, QuietStep DEF ProcShape, WireShape

\* Opening the mailbox and sending the grant.
LEMMA DeliverStep ==
  ASSUME DaemonInv, NEW c \in Conns, Deliver(c)
  PROVE  DaemonInv'
<1>1. /\ ConnShape /\ ProcShape /\ WireShape
      /\ TaskInv(c) /\ ProcInv(c) /\ (restarts = 0 => ServedInv(c))
  BY Parted
<1> DEFINE r == [type |-> "granted",
                 token |-> CASE Id(c) \in NestedIds(sched) -> proc[Inside[c]].token
                             [] Ask[c].session -> Id(c)
                             [] OTHER -> None]
<1>2. r \in Replies /\ r.type = "granted"
  <2>1. Id(c) \in NestedIds(sched) => Inside[c] \in Conns
    BY NestingAssumption DEF DaemonInv, Bound
  <2>2. Id(c) \in NestedIds(sched) => proc[Inside[c]].token \in Option(Ids)
    BY <1>1, <2>1 DEF ProcShape
  <2>3. holds(sched, Id(c))
    BY <1>1 DEF TaskInv, Deliver
  <2>4. Id(c) \in KnownIds
    BY <2>3 DEF DaemonInv, Bound, LeaseInv, FreshIds, holds
  <2>5. sched.next_id \in Nat
    BY DEF DaemonInv, Bound, LeaseInv, TypeOK, Scheduler, Ids
  <2>6. Id(c) \in Ids
    BY <2>4, <2>5 DEF KnownIds, Ids
  <2> QED
    BY <2>2, <2>6 DEF Replies, Option
<1>3. /\ WireShape' /\ \A d \in Conns \ {c} : wire'[d] = wire[d]
      /\ wire'[c].up = wire[c].up /\ (GrantSent(c)' <=> GrantSent(c) \/ Alive(c))
  <2>1. Send(c, r)
    BY DEF Deliver
  <2> HIDE DEF r
  <2> QED
    BY <1>1, <1>2, <2>1, SendWrites
<1>4. /\ ConnShape' /\ \A d \in Conns \ {c} : SameConn(d)
      /\ conn'[c].task = (IF Alive(c) THEN "serve" ELSE "ended") /\ conn'[c].id = conn[c].id
      /\ conn'[c].mailbox = <<>>
      /\ conn'[c].pgid = conn[c].pgid /\ conn'[c].code = conn[c].code
  BY <1>1 DEF Deliver, ConnShape, Tasks, SameConn, Option
<1>5. /\ conn[c].task = "granted" /\ proc' = proc /\ sched' = sched /\ now' = now
      /\ answered' = answered /\ restarts' = restarts
  BY DEF Deliver, taskRest
<1>6. Reported(c)' = Reported(c) /\ DoneSent(c)' = DoneSent(c) /\ Id(c)' = Id(c)
  BY <1>3, <1>4 DEF Reported, DoneSent, Id
<1>7. ~Late(c)
  BY <1>5 DEF Late
<1>8. TaskInv(c)'
  <2>1. <<>> \in Seq({"preempting", "revoked"})
    OBVIOUS
  <2>2. <<>> # None
    BY <2>1, ClientsAssumption
  <2> QED
    BY <1>1, <1>4, <1>5, <1>6, <1>7, <2>2 DEF TaskInv, Gone, Cancelled, ProcInv
<1>9. ProcInv(c)'
  BY <1>1, <1>3, <1>4, <1>5, <1>6, <1>7 DEF ProcInv, Late, Started
<1>10. restarts = 0 => ServedInv(c)'
  BY <1>1, <1>3, <1>4, <1>5, <1>6, <1>7 DEF ProcInv, ServedInv, Alive
<1> QED
  BY <1>1, <1>3, <1>4, <1>5, <1>8, <1>9, <1>10, ProcSame, QuietStep DEF ProcShape

\* Reading what the client reports.
LEMMA HearStep ==
  ASSUME DaemonInv, NEW c \in Conns, Hear(c)
  PROVE  DaemonInv'
<1>1. /\ ConnShape /\ ProcShape /\ WireShape
      /\ TaskInv(c) /\ ProcInv(c) /\ (restarts = 0 => ServedInv(c))
  BY Parted
<1>2. /\ conn[c].task = "serve" /\ proc' = proc /\ sched' = sched
      /\ now' = now /\ answered' = answered /\ restarts' = restarts
      /\ wire[c].up # <<>> /\ wire' = [wire EXCEPT ![c].up = Tail(@)]
  BY DEF Hear, taskRest
<1>3. /\ WireShape' /\ \A d \in Conns \ {c} : wire'[d] = wire[d]
      /\ GrantSent(c)' = GrantSent(c)
      /\ Head(wire[c].up) \in {"spawned", "done"}
      /\ \E i \in DOMAIN wire[c].up : wire[c].up[i] = Head(wire[c].up)
      /\ \A i \in DOMAIN wire'[c].up : \E j \in DOMAIN wire[c].up : wire'[c].up[i] = wire[c].up[j]
  BY <1>1, <1>2, UpReads
<1>4. /\ ConnShape' /\ \A d \in Conns \ {c} : SameConn(d)
      /\ conn'[c].id = conn[c].id /\ conn'[c].mailbox = conn[c].mailbox
      /\ Head(wire[c].up) = "spawned" => conn'[c].task = "serve" /\ conn'[c].code = conn[c].code
      /\ Head(wire[c].up) # "spawned" => conn'[c].task = "finish" /\ conn'[c].code
  BY <1>1, <1>2, ZenonT(60) DEF Hear, ConnShape, Tasks, SameConn
<1>5. /\ DoneSent(c)' => DoneSent(c)
      /\ Head(wire[c].up) # "spawned" => DoneSent(c)
      /\ Id(c)' = Id(c)
  BY <1>3, <1>4 DEF DoneSent, Id
<1>6. TaskInv(c)'
  BY <1>1, <1>2, <1>4, <1>5 DEF TaskInv, Gone
<1>7. ProcInv(c)'
  BY <1>1, <1>2, <1>4, <1>5 DEF ProcInv, Late
<1>8. restarts = 0 => ServedInv(c)'
  BY <1>1, <1>2, <1>4, <1>5 DEF ProcInv, ServedInv, Started
<1> QED
  BY <1>1, <1>2, <1>3, <1>4, <1>6, <1>7, <1>8, ProcSame, QuietStep DEF ProcShape

\* The end of the connection.
LEMMA HangupStep ==
  ASSUME DaemonInv, NEW c \in Conns, Hangup(c)
  PROVE  DaemonInv'
<1>1. /\ ConnShape /\ ProcShape /\ WireShape
      /\ TaskInv(c) /\ ProcInv(c) /\ (restarts = 0 => ServedInv(c))
  BY Parted
<1>2. /\ conn[c].task = "serve" /\ proc' = proc /\ wire' = wire /\ sched' = sched
      /\ now' = now /\ answered' = answered /\ restarts' = restarts
      /\ wire[c].up = <<>> /\ ~Alive(c)
  BY DEF Hangup, taskRest
<1>3. "finish" \in Tasks
  BY DEF Tasks
<1>4. /\ ConnShape' /\ \A d \in Conns \ {c} : SameConn(d)
      /\ conn'[c].task = "finish" /\ conn'[c].id = conn[c].id
      /\ conn'[c].mailbox = conn[c].mailbox
      /\ conn'[c].pgid = conn[c].pgid /\ conn'[c].code = conn[c].code
  BY <1>1, <1>3, GotoWrites DEF Hangup
<1>5. /\ Reported(c)' = Reported(c) /\ DoneSent(c)' = DoneSent(c) /\ Id(c)' = Id(c)
      /\ GrantSent(c)' = GrantSent(c) /\ ~Alive(c)'
  BY <1>2, <1>4 DEF Reported, DoneSent, Id, GrantSent, Alive
<1>6. TaskInv(c)'
  BY <1>1, <1>2, <1>4, <1>5 DEF TaskInv, Gone
<1>7. ProcInv(c)'
  BY <1>1, <1>2, <1>4, <1>5 DEF ProcInv, Late
<1>8. restarts = 0 => ServedInv(c)'
  BY <1>1, <1>2, <1>4, <1>5 DEF ServedInv, Started, Alive
<1> QED
  BY <1>1, <1>2, <1>4, <1>6, <1>7, <1>8, ProcSame, QuietStep DEF ProcShape, WireShape

\* Sending a word of the mailbox to the client.
LEMMA ForwardStep ==
  ASSUME DaemonInv, NEW c \in Conns, Forward(c)
  PROVE  DaemonInv'
<1>1. /\ ConnShape /\ ProcShape /\ WireShape
      /\ TaskInv(c) /\ ProcInv(c) /\ (restarts = 0 => ServedInv(c))
  BY Parted
<1>2. /\ conn[c].task = "serve" /\ proc' = proc /\ sched' = sched
      /\ now' = now /\ answered' = answered /\ restarts' = restarts
      /\ conn[c].mailbox # <<>>
  BY DEF Forward, taskRest
<1>3. conn[c].mailbox \in Seq(Mails)
  BY <1>1, <1>2 DEF ConnShape, TaskInv, Option
<1> DEFINE r == Reply(Head(conn[c].mailbox))
<1>4. Head(conn[c].mailbox) \in Mails /\ Tail(conn[c].mailbox) \in Seq(Mails)
  BY <1>2, <1>3, TailFacts
<1>5. r \in Replies /\ r.type # "granted"
  BY <1>4 DEF Mails, Reply, Replies, Option
<1>6. Send(c, r)
  BY DEF Forward
<1> HIDE DEF r
<1>7. /\ WireShape' /\ \A d \in Conns \ {c} : wire'[d] = wire[d]
      /\ wire'[c].up = wire[c].up /\ (GrantSent(c)' <=> GrantSent(c))
  BY <1>1, <1>5, <1>6, SendWrites
<1>8. /\ ConnShape' /\ \A d \in Conns \ {c} : SameConn(d)
      /\ conn'[c].task = "serve" /\ conn'[c].id = conn[c].id
      /\ conn'[c].mailbox = Tail(conn[c].mailbox)
      /\ conn'[c].pgid = conn[c].pgid /\ conn'[c].code = conn[c].code
  BY <1>1, <1>2, <1>4 DEF Forward, ConnShape, SameConn, Option
<1>9. Tail(conn[c].mailbox) # None
  BY <1>4, ClientsAssumption DEF Mails
<1>10. Reported(c)' = Reported(c) /\ DoneSent(c)' = DoneSent(c) /\ Id(c)' = Id(c)
  BY <1>7, <1>8 DEF Reported, DoneSent, Id
<1>11. TaskInv(c)'
  BY <1>1, <1>2, <1>8, <1>9, <1>10 DEF TaskInv, Gone
<1>12. ProcInv(c)'
  BY <1>1, <1>2, <1>8, <1>10 DEF ProcInv, Late
<1>13. restarts = 0 => ServedInv(c)'
  BY <1>1, <1>2, <1>8, <1>10 DEF ServedInv
<1> QED
  BY <1>1, <1>2, <1>7, <1>8, <1>11, <1>12, <1>13, ProcSame, QuietStep DEF ProcShape

\* The end of a lease kills what is left of a job whose client is gone.
LEMMA FinishStep ==
  ASSUME DaemonInv, NEW c \in Conns, Finish(c)
  PROVE  DaemonInv'
<1>1. /\ ConnShape /\ ProcShape /\ WireShape
      /\ TaskInv(c) /\ ProcInv(c) /\ (restarts = 0 => ServedInv(c))
  BY Parted
<1>2. /\ conn[c].task = "finish" /\ wire' = wire /\ sched' = sched
      /\ now' = now /\ answered' = answered /\ restarts' = restarts
      /\ proc' = IF ~conn[c].code /\ conn[c].pgid THEN Killed(proc, c) ELSE proc
  BY DEF Finish, taskRest
<1>3. /\ ConnShape' /\ \A d \in Conns \ {c} : SameConn(d)
      /\ conn'[c].task = "release" /\ conn'[c].id = conn[c].id
      /\ conn'[c].mailbox = None
      /\ conn'[c].pgid = conn[c].pgid /\ conn'[c].code = conn[c].code
  BY <1>1 DEF Finish, ConnShape, Tasks, SameConn, Option
<1>4. /\ ProcShape' /\ \A d \in Conns \ {c} : SameProc(d)
      /\ proc'[c].at = proc[c].at /\ proc'[c].token = proc[c].token
      /\ proc'[c].leader => proc[c].leader
      /\ proc'[c].kids => proc[c].kids
      /\ ~conn[c].code /\ conn[c].pgid => ~proc'[c].kids
  BY <1>1, <1>2, KilledWrites DEF ProcShape, SameProc
<1>5. /\ Reported(c)' = Reported(c) /\ DoneSent(c)' = DoneSent(c) /\ Id(c)' = Id(c)
      /\ GrantSent(c)' = GrantSent(c)
  BY <1>2, <1>3 DEF Reported, DoneSent, Id, GrantSent
<1>6. TaskInv(c)'
  BY <1>1, <1>2, <1>3, <1>5 DEF TaskInv, Gone
<1>7. ProcInv(c)'
  BY <1>1, <1>2, <1>3, <1>4, <1>5 DEF ProcInv, Late
<1>8. ~(proc'[c].kids /\ Reported(c))
  <2>1. CASE conn[c].code
    BY <1>1, <1>4, <2>1 DEF ProcInv, DoneSent
  <2>2. CASE ~conn[c].code /\ conn[c].pgid
    BY <1>4, <2>2
  <2>3. CASE ~conn[c].code /\ ~conn[c].pgid
    <3>1. wire[c].up = <<>>
      BY <1>1, <1>2, <2>3 DEF ProcInv
    <3>2. ~Reported(c)
      BY <2>3, <3>1 DEF Reported
    <3> QED
      BY <3>2
  <2> QED
    BY <2>1, <2>2, <2>3
<1>9. restarts = 0 => ServedInv(c)'
  BY <1>1, <1>2, <1>3, <1>4, <1>5, <1>8 DEF ServedInv
<1> QED
  BY <1>1, <1>2, <1>3, <1>4, <1>6, <1>7, <1>9, QuietStep DEF WireShape

\* Waking those that wait.
LEMMA NotifyStep ==
  ASSUME DaemonInv, NEW c \in Conns, Notify(c)
  PROVE  DaemonInv'
<1>1. /\ ConnShape /\ ProcShape /\ WireShape
      /\ TaskInv(c) /\ ProcInv(c) /\ (restarts = 0 => ServedInv(c))
  BY Parted
<1>2. /\ conn[c].task = "notify" /\ proc' = proc /\ wire' = wire /\ sched' = sched
      /\ now' = now /\ answered' = answered /\ restarts' = restarts
      /\ conn' = [Notified(conn) EXCEPT ![c].task = "ended"]
  BY DEF Notify, taskRest
<1>3. /\ ConnShape' /\ \A d \in Conns \ {c} : SameConn(d)
      /\ conn'[c].task = "ended" /\ conn'[c].id = conn[c].id
      /\ conn'[c].mailbox = conn[c].mailbox
      /\ conn'[c].pgid = conn[c].pgid /\ conn'[c].code = conn[c].code
  BY <1>1, <1>2, NotifiedWrites DEF ConnShape, Tasks, SameConn
<1>4. /\ Reported(c)' = Reported(c) /\ DoneSent(c)' = DoneSent(c) /\ Id(c)' = Id(c)
      /\ GrantSent(c)' = GrantSent(c)
  BY <1>2, <1>3 DEF Reported, DoneSent, Id, GrantSent
<1>5. TaskInv(c)'
  BY <1>1, <1>2, <1>3, <1>4 DEF TaskInv, Gone
<1>6. ProcInv(c)'
  BY <1>1, <1>2, <1>3, <1>4 DEF ProcInv, Late
<1>7. restarts = 0 => ServedInv(c)'
  BY <1>1, <1>2, <1>3, <1>4 DEF ServedInv
<1> QED
  BY <1>1, <1>2, <1>3, <1>5, <1>6, <1>7, ProcSame, QuietStep DEF ProcShape, WireShape

\* A step about no client in particular.
LEMMA AllAside ==
  ASSUME DaemonInv, ConnShape', proc' = proc, wire' = wire, restarts' = restarts, Bound',
         \A d \in Conns : SameConn(d) /\ SameStatus(d)
  PROVE  DaemonInv'
<1>1. Shapes'
  BY DEF DaemonInv, Shapes, ProcShape, WireShape
<1>2. ASSUME NEW d \in Conns PROVE TaskInv(d)' /\ ProcInv(d)' /\ (restarts = 0 => ServedInv(d)')
  BY ProcSame, AsideKeeps DEF DaemonInv
<1> QED
  BY <1>1, <1>2 DEF DaemonInv

\* The steps that touch no task and no process.
LEMMA TellStep ==
  ASSUME DaemonInv, Tell \/ DaemonStart \/ UNCHANGED allVars
  PROVE  DaemonInv'
<1>1. ConnShape /\ Bound
  BY DEF DaemonInv, Shapes
<1>2. /\ proc' = proc /\ wire' = wire /\ sched' = sched
      /\ now' = now /\ answered' = answered /\ restarts' = restarts
      /\ conn' = conn \/ conn' = Notified(conn)
  BY DEF Tell, DaemonStart, allVars
<1>3. ConnShape' /\ \A d \in Conns : SameConn(d)
  BY <1>1, <1>2, NotifiedWrites DEF ConnShape, SameConn
<1>4. Bound'
  BY <1>1, <1>2, <1>3, BoundSame DEF SameConn
<1> QED
  BY <1>2, <1>3, <1>4, StatusSame, AllAside
-----------------------------------------------------------------------------
(* The steps of a client *)

\* A client's step leaves its task alone.
LEMMA ClientQuiet ==
  ASSUME DaemonInv, NEW c \in Conns, ProcShape', WireShape',
         conn' = conn, UNCHANGED procRest,
         \A d \in Conns \ {c} : SameProc(d) /\ wire'[d] = wire[d],
         ~Open(c) => (Reported(c)' => Reported(c)),
         ProcInv(c)', restarts = 0 => ServedInv(c)'
  PROVE  DaemonInv'
<1>1. ConnShape' /\ \A d \in Conns : SameConn(d)
  BY Parted, ConnSame DEF ConnShape
<1>2. sched' = sched /\ now' = now /\ answered' = answered /\ restarts' = restarts
  BY DEF procRest
<1>3. TaskInv(c)'
  <2>1. conn[c].task = "ended" => (Reported(c)' => Reported(c))
    BY DEF Open
  <2> QED
    BY <1>1, <1>2, <2>1, Parted, StatusSame, TaskKeeps
<1> QED
  BY <1>1, <1>2, <1>3, QuietStep

\* A step that only changes what process c is doing.
LEMMA ProcQuiet ==
  ASSUME DaemonInv, NEW c \in Conns, ProcShape', wire' = wire, conn' = conn, UNCHANGED procRest,
         \A d \in Conns : SameProc(d)
  PROVE  DaemonInv'
<1>1. /\ ConnShape /\ ProcShape /\ WireShape
      /\ TaskInv(c) /\ ProcInv(c) /\ (restarts = 0 => ServedInv(c))
  BY Parted
<1>2. WireShape' /\ SameConn(c) /\ (Reported(c)' => Reported(c))
  BY <1>1, ConnSame DEF WireShape, Reported
<1>3. ProcInv(c)' /\ (ServedInv(c) => ServedInv(c)')
  BY <1>1, <1>2, StatusSame, AsideKeeps DEF procRest
<1> QED
  BY <1>1, <1>2, <1>3, ClientQuiet

\* A client starts and connects.
LEMMA StartStep ==
  ASSUME DaemonInv, NEW c \in Conns, Start(c)
  PROVE  DaemonInv'
<1>1. /\ ConnShape /\ ProcShape /\ WireShape
      /\ TaskInv(c) /\ ProcInv(c) /\ (restarts = 0 => ServedInv(c))
  BY Parted
<1>2. /\ proc[c].at = "idle" /\ conn[c].task = "none" /\ wire' = wire /\ UNCHANGED procRest
  BY <1>1 DEF Start, ProcInv
<1>3. sched' = sched /\ now' = now /\ answered' = answered /\ restarts' = restarts
  BY <1>2 DEF procRest
<1>4. /\ ~proc[c].leader /\ ~proc[c].kids /\ ~GrantSent(c) /\ ~Reported(c) /\ proc[c].token = None
      /\ ~DoneSent(c)
  BY <1>1, <1>2 DEF ProcInv, Late
<1>5. CASE up /\ ProcTo(c, "waiting") /\ Goto(c, "hello")
  <2>1. "hello" \in Tasks
    BY DEF Tasks
  <2>2. /\ ConnShape' /\ \A d \in Conns \ {c} : SameConn(d)
        /\ conn'[c].task = "hello" /\ conn'[c].id = conn[c].id
        /\ conn'[c].mailbox = conn[c].mailbox
        /\ conn'[c].pgid = conn[c].pgid /\ conn'[c].code = conn[c].code
    BY <1>1, <1>5, <2>1, GotoWrites
  <2>3. /\ ProcShape' /\ \A d \in Conns \ {c} : SameProc(d)
        /\ proc'[c].at = "waiting" /\ proc'[c].leader = proc[c].leader
        /\ proc'[c].kids = proc[c].kids /\ proc'[c].token = proc[c].token
    BY <1>1, <1>5 DEF ProcTo, ProcShape, SameProc
  <2>4. /\ Reported(c)' = Reported(c) /\ DoneSent(c)' = DoneSent(c) /\ Id(c)' = Id(c)
        /\ GrantSent(c)' = GrantSent(c)
    BY <1>2, <2>2 DEF Reported, DoneSent, Id, GrantSent
  <2>5. TaskInv(c)'
    BY <1>1, <1>2, <2>2, <2>4 DEF TaskInv, Gone
  <2>6. ProcInv(c)' /\ ServedInv(c)'
    BY <1>4, <2>2, <2>3, <2>4 DEF ProcInv, ServedInv, Late, Started
  <2>7. WireShape' /\ \A d \in Conns \ {c} : wire'[d] = wire[d]
    BY <1>1, <1>2 DEF WireShape
  <2> QED
    BY <1>3, <2>2, <2>3, <2>5, <2>6, <2>7, QuietStep
<1>6. CASE ~up /\ conn' = conn /\ ProcTo(c, IF c \in Advisory THEN "unleased" ELSE "exited")
  <2>3. /\ ProcShape' /\ \A d \in Conns \ {c} : SameProc(d)
        /\ proc'[c].at \in {"unleased", "exited"} /\ proc'[c].leader = proc[c].leader
        /\ proc'[c].kids = proc[c].kids /\ proc'[c].token = proc[c].token
    BY <1>1, <1>6 DEF ProcTo, ProcShape, SameProc
  <2>4. /\ Reported(c)' = Reported(c) /\ DoneSent(c)' = DoneSent(c)
        /\ GrantSent(c)' = GrantSent(c)
    BY <1>2, <1>6 DEF Reported, DoneSent, GrantSent
  <2>6. ProcInv(c)' /\ ServedInv(c)'
    BY <1>2, <1>4, <1>6, <2>3, <2>4 DEF ProcInv, ServedInv, Late, Started
  <2>7. WireShape' /\ \A d \in Conns \ {c} : wire'[d] = wire[d]
    BY <1>1, <1>2 DEF WireShape
  <2> QED
    BY <1>2, <1>6, <2>3, <2>4, <2>6, <2>7, ClientQuiet
<1> QED
  BY <1>5, <1>6 DEF Start

\* A signal noted, a request withdrawn, a connection lost, a client killed, a job
\* told to stop.
LEMMA EndStep ==
  ASSUME DaemonInv, NEW c \in Conns,
         Interrupt(c) \/ Withdraw(c) \/ WaitLost(c) \/ ClientCrash(c)
  PROVE  DaemonInv'
<1>1. ProcShape /\ ProcInv(c)
  BY Parted
<1>2. wire' = wire /\ conn' = conn /\ UNCHANGED procRest
  BY DEF Interrupt, Withdraw, WaitLost, ClientCrash
<1>3. CASE Interrupt(c)
  BY <1>1, <1>2, <1>3, ProcQuiet DEF Interrupt, ProcShape, SameProc
<1>4. CASE Withdraw(c) \/ WaitLost(c)
  <2>1. proc[c].at = "waiting" /\ proc' = [proc EXCEPT ![c].at = "exited"] /\ ~proc[c].leader
    BY <1>1, <1>4 DEF Withdraw, WaitLost, ProcTo, ProcInv, Working
  <2>2. ProcShape' /\ \A d \in Conns : SameProc(d)
    BY <1>1, <2>1 DEF ProcShape, SameProc
  <2> QED
    BY <1>2, <2>2, ProcQuiet
<1>5. CASE ClientCrash(c)
  <2>1. proc[c].at # "idle" /\ proc' = [proc EXCEPT ![c].at = "exited", ![c].leader = FALSE]
    BY <1>5 DEF ClientCrash, Alive
  <2>2. ProcShape' /\ \A d \in Conns : SameProc(d)
    BY <1>1, <2>1 DEF ProcShape, SameProc
  <2> QED
    BY <1>2, <2>2, ProcQuiet
<1> QED
  BY <1>3, <1>4, <1>5

\* A client reads a reply.
LEMMA ReadReplyStep ==
  ASSUME DaemonInv, NEW c \in Conns, ReadReply(c)
  PROVE  DaemonInv'
<1>1. /\ ConnShape /\ ProcShape /\ WireShape
      /\ TaskInv(c) /\ ProcInv(c) /\ (restarts = 0 => ServedInv(c))
  BY Parted
<1> DEFINE reply == Head(wire[c].down)
<1>2. /\ proc[c].at = "waiting" /\ wire[c].down # <<>> /\ conn' = conn /\ UNCHANGED procRest
      /\ wire' = [wire EXCEPT ![c].down = Tail(@)]
  BY DEF ReadReply
<1>3. /\ WireShape' /\ \A d \in Conns \ {c} : wire'[d] = wire[d]
      /\ wire'[c].up = wire[c].up /\ (GrantSent(c)' => GrantSent(c)) /\ reply \in Replies
      /\ reply.type = "granted" => GrantSent(c)
  BY <1>1, <1>2, DownReads
<1>4. Reported(c)' = Reported(c) /\ DoneSent(c)' = DoneSent(c)
  BY <1>2, <1>3 DEF Reported, DoneSent
<1>5. ~proc[c].leader /\ ~proc[c].kids /\ ~DoneSent(c)
  BY <1>1, <1>2 DEF ProcInv, Working
<1>6. /\ ProcShape' /\ \A d \in Conns \ {c} : SameProc(d)
      /\ ~proc'[c].leader /\ ~proc'[c].kids
      /\ \/ /\ proc'[c].at \in {"waiting", "unleased", "exited"}
            /\ proc'[c].token = proc[c].token
         \/ proc'[c].at = "spawning" /\ reply.type = "granted"
  <2>1. reply.token \in Option(Ids)
    BY <1>3 DEF Replies
  <2> QED
    BY <1>1, <1>2, <1>5, <2>1 DEF ReadReply, ProcTo, ProcShape, SameProc, Started
<1>7. reply.type = "granted" => Late(c) /\ (restarts = 0 => conn[c].task = "serve")
  BY <1>1, <1>2, <1>3 DEF ProcInv, ServedInv
<1>8. ProcInv(c)'
  <2>1. ~(conn[c].task = "finish" /\ ~conn[c].code)
    BY <1>1, <1>2 DEF ProcInv, Alive
  <2> QED
    BY <1>1, <1>2, <1>3, <1>4, <1>5, <1>6, <1>7, <2>1 DEF ProcInv, Late, Started
<1>9. restarts = 0 => ServedInv(c)'
  BY <1>1, <1>2, <1>3, <1>4, <1>5, <1>6, <1>7 DEF ServedInv, Started
<1> QED
  BY <1>2, <1>3, <1>4, <1>6, <1>8, <1>9, ClientQuiet

\* The granted client starts its job.
LEMMA SpawnStep ==
  ASSUME DaemonInv, NEW c \in Conns, Spawn(c)
  PROVE  DaemonInv'
<1>1. /\ ConnShape /\ ProcShape /\ WireShape
      /\ TaskInv(c) /\ ProcInv(c) /\ (restarts = 0 => ServedInv(c))
  BY Parted
<1>2. proc[c].at = "spawning" /\ conn' = conn /\ UNCHANGED procRest /\ wire' = wire
  BY DEF Spawn
<1>3. /\ ProcShape' /\ \A d \in Conns \ {c} : SameProc(d)
      /\ proc'[c].at = "spawned" /\ proc'[c].token = proc[c].token
  <2>1. PICK kids \in BOOLEAN :
          proc' = [proc EXCEPT ![c].at = "spawned", ![c].leader = TRUE, ![c].kids = kids]
    <3> DEFINE kids == c \in Forking
    <3>1. kids \in BOOLEAN
      OBVIOUS
    <3>2. proc' = [proc EXCEPT ![c].at = "spawned", ![c].leader = TRUE, ![c].kids = kids]
      BY DEF Spawn
    <3> HIDE DEF kids
    <3> QED
      BY <3>1, <3>2
  <2> QED
    BY <1>1, <2>1, ZenonT(60) DEF ProcShape, SameProc, Started
<1>4. /\ Reported(c)' = Reported(c) /\ DoneSent(c)' = DoneSent(c) /\ GrantSent(c)' = GrantSent(c)
  BY <1>2 DEF Reported, DoneSent, GrantSent
<1>5. /\ Late(c) /\ ~DoneSent(c) /\ ~(conn[c].task = "finish" /\ ~conn[c].code)
      /\ restarts = 0 => conn[c].task = "serve"
  BY <1>1, <1>2 DEF ProcInv, ServedInv, Started, Alive
<1>6. ProcInv(c)'
  BY <1>2, <1>3, <1>4, <1>5 DEF ProcInv, Late, Working
<1>7. restarts = 0 => ServedInv(c)'
  BY <1>2, <1>3, <1>5 DEF ServedInv
<1>8. WireShape' /\ \A d \in Conns \ {c} : wire'[d] = wire[d]
  BY <1>1, <1>2 DEF WireShape
<1> QED
  BY <1>2, <1>3, <1>4, <1>6, <1>7, <1>8, ClientQuiet

\* The job does not start.
LEMMA SpawnFailsStep ==
  ASSUME DaemonInv, NEW c \in Conns, SpawnFails(c)
  PROVE  DaemonInv'
<1>1. /\ ConnShape /\ ProcShape /\ WireShape
      /\ TaskInv(c) /\ ProcInv(c) /\ (restarts = 0 => ServedInv(c))
  BY Parted
<1>2. proc[c].at = "spawning" /\ conn' = conn /\ UNCHANGED procRest /\ Tells(c, "done")
  BY DEF SpawnFails
<1>3. /\ ~proc[c].leader /\ ~proc[c].kids /\ Late(c)
      /\ ~(conn[c].task = "finish" /\ ~conn[c].code)
  BY <1>1, <1>2 DEF ProcInv, Working, Started, Alive
<1>4. /\ ProcShape' /\ \A d \in Conns \ {c} : SameProc(d)
      /\ proc'[c].at = "exited" /\ ~proc'[c].leader /\ ~proc'[c].kids
  BY <1>1, <1>2, <1>3 DEF SpawnFails, ProcTo, ProcShape, SameProc
<1>5. /\ WireShape' /\ \A d \in Conns \ {c} : wire'[d] = wire[d]
      /\ Reported(c)' <=> Reported(c)
  BY <1>1, <1>2, TellsWrites
<1>6. ProcInv(c)'
  BY <1>2, <1>3, <1>4 DEF ProcInv, Late
<1>7. restarts = 0 => ServedInv(c)'
  BY <1>4 DEF ServedInv, Started
<1> QED
  BY <1>2, <1>4, <1>5, <1>6, <1>7, ClientQuiet

\* The client reports the group of its job.
LEMMA ReportGroupStep ==
  ASSUME DaemonInv, NEW c \in Conns, ReportGroup(c)
  PROVE  DaemonInv'
<1>1. /\ ConnShape /\ ProcShape /\ WireShape
      /\ TaskInv(c) /\ ProcInv(c) /\ (restarts = 0 => ServedInv(c))
  BY Parted
<1>2. /\ proc[c].at = "spawned" /\ conn' = conn /\ UNCHANGED procRest /\ Tells(c, "spawned")
      /\ proc' = IF Open(c) THEN [proc EXCEPT ![c].at = "running"]
                 ELSE [proc EXCEPT ![c].at = "exited", ![c].leader = FALSE]
  BY DEF ReportGroup
<1>3. /\ WireShape' /\ \A d \in Conns \ {c} : wire'[d] = wire[d]
      /\ Reported(c)' <=> Reported(c) \/ Open(c)
      /\ DoneSent(c)' <=> DoneSent(c)
      /\ GrantSent(c)' <=> GrantSent(c)
  BY <1>1, <1>2, TellsWrites
<1>4. /\ Late(c) /\ ~DoneSent(c) /\ ~(conn[c].task = "finish" /\ ~conn[c].code)
      /\ restarts = 0 => conn[c].task = "serve"
  BY <1>1, <1>2 DEF ProcInv, ServedInv, Started, Alive
<1>5. /\ ProcShape' /\ \A d \in Conns \ {c} : SameProc(d)
      /\ proc'[c].kids = proc[c].kids /\ proc'[c].token = proc[c].token
      /\ \/ Open(c) /\ proc'[c].at = "running"
         \/ ~Open(c) /\ proc'[c].at = "exited" /\ ~proc'[c].leader
  BY <1>1, <1>2 DEF ProcShape, SameProc, Started
<1>6. ProcInv(c)'
  BY <1>2, <1>3, <1>4, <1>5 DEF ProcInv, Late, Working
<1>7. restarts = 0 => ServedInv(c)'
  BY <1>2, <1>4 DEF ServedInv
<1> QED
  BY <1>2, <1>3, <1>5, <1>6, <1>7, ClientQuiet

\* The client of a running job reads a word from the daemon.
LEMMA ListenStep ==
  ASSUME DaemonInv, NEW c \in Conns, Listen(c)
  PROVE  DaemonInv'
<1>1. /\ ConnShape /\ ProcShape /\ WireShape
      /\ TaskInv(c) /\ ProcInv(c) /\ (restarts = 0 => ServedInv(c))
  BY Parted
<1>2. /\ proc[c].at \in {"running", "stopping"} /\ conn' = conn /\ UNCHANGED procRest
      /\ proc' = proc \/ proc' = [proc EXCEPT ![c].stop = TRUE]
  BY DEF Listen
<1>3. /\ ProcShape' /\ \A d \in Conns : SameProc(d)
      /\ proc'[c].at = proc[c].at /\ proc'[c].leader = proc[c].leader
  <2>1. CASE proc' = proc
    BY <1>1, <2>1 DEF ProcShape, SameProc
  <2>2. CASE proc' = [proc EXCEPT ![c].stop = TRUE]
    BY <1>1, <2>2 DEF ProcShape, SameProc
  <2> QED
    BY <1>2, <2>1, <2>2
<1>4. CASE wire' = wire
  BY <1>2, <1>3, <1>4, ProcQuiet
<1>5. CASE wire[c].down # <<>> /\ wire' = [wire EXCEPT ![c].down = Tail(@)]
  <2>1. /\ WireShape' /\ \A d \in Conns \ {c} : wire'[d] = wire[d]
        /\ wire'[c].up = wire[c].up /\ (GrantSent(c)' => GrantSent(c))
    BY <1>1, <1>5, DownReads
  <2>2. Reported(c)' = Reported(c) /\ DoneSent(c)' = DoneSent(c)
    BY <1>2, <2>1 DEF Reported, DoneSent
  <2>3. /\ Late(c) /\ ~DoneSent(c) /\ ~(conn[c].task = "finish" /\ ~conn[c].code)
    BY <1>1, <1>2 DEF ProcInv, Started, Alive
  <2>4. ProcInv(c)'
    BY <1>1, <1>2, <1>3, <2>1, <2>2, <2>3 DEF ProcInv, Late, SameProc
  <2>5. restarts = 0 => ServedInv(c)'
    BY <1>1, <1>2, <1>3, <2>1, <2>2 DEF ServedInv, SameProc
  <2> QED
    BY <1>2, <1>3, <2>1, <2>2, <2>4, <2>5, ClientQuiet
<1> QED
  BY <1>4, <1>5 DEF Listen

\* The client stops its job.
LEMMA StopJobStep ==
  ASSUME DaemonInv, NEW c \in Conns, StopJob(c)
  PROVE  DaemonInv'
<1>1. /\ ConnShape /\ ProcShape /\ WireShape
      /\ TaskInv(c) /\ ProcInv(c) /\ (restarts = 0 => ServedInv(c))
  BY Parted
<1>2. /\ proc[c].at = "running" /\ conn' = conn /\ UNCHANGED procRest /\ wire' = wire
      /\ proc' = [d \in Conns |->
                    IF d = c THEN [proc[d] EXCEPT !.at = "stopping"]
                    ELSE IF Inside[d] = c /\ Alive(d) THEN [proc[d] EXCEPT !.stop = TRUE]
                    ELSE proc[d]]
  BY DEF StopJob
<1>3. /\ ProcShape' /\ \A d \in Conns \ {c} : SameProc(d)
      /\ proc'[c].at = "stopping" /\ proc'[c].token = proc[c].token
      /\ proc'[c].leader = proc[c].leader /\ proc'[c].kids = proc[c].kids
  <2>1. \A d \in Conns : proc[d] \in [at : {"idle", "waiting", "exited", "unleased"} \cup Started,
           token : Option(Ids), stop : BOOLEAN, leader : BOOLEAN, kids : BOOLEAN]
    BY <1>1 DEF ProcShape
  <2>2. \A d \in Conns : proc'[d] =
          IF d = c THEN [proc[d] EXCEPT !.at = "stopping"]
          ELSE IF Inside[d] = c /\ Alive(d) THEN [proc[d] EXCEPT !.stop = TRUE]
          ELSE proc[d]
    BY <1>2
  <2>3. \A d \in Conns : proc'[d] \in [at : {"idle", "waiting", "exited", "unleased"} \cup Started,
           token : Option(Ids), stop : BOOLEAN, leader : BOOLEAN, kids : BOOLEAN]
    <3> SUFFICES ASSUME NEW d \in Conns
                 PROVE  proc'[d] \in [at : {"idle", "waiting", "exited", "unleased"} \cup Started,
                          token : Option(Ids), stop : BOOLEAN, leader : BOOLEAN, kids : BOOLEAN]
      OBVIOUS
    <3>1. CASE d = c
      BY <2>1, <2>2, <3>1 DEF Started
    <3>2. CASE d # c
      BY <2>1, <2>2, <3>2
    <3> QED
      BY <3>1, <3>2
  <2>4. ProcShape'
    BY <1>2, <2>3 DEF ProcShape
  <2>5. \A d \in Conns \ {c} : SameProc(d)
    BY <2>1, <2>2 DEF SameProc
  <2> QED
    BY <2>1, <2>2, <2>4, <2>5
<1>4. /\ Reported(c)' = Reported(c) /\ DoneSent(c)' = DoneSent(c) /\ GrantSent(c)' = GrantSent(c)
  BY <1>2 DEF Reported, DoneSent, GrantSent
<1>5. /\ Late(c) /\ ~DoneSent(c) /\ ~(conn[c].task = "finish" /\ ~conn[c].code)
      /\ restarts = 0 => conn[c].task = "serve"
  BY <1>1, <1>2 DEF ProcInv, ServedInv, Started, Alive
<1>6. ProcInv(c)'
  BY <1>2, <1>3, <1>4, <1>5 DEF ProcInv, Late, Working
<1>7. restarts = 0 => ServedInv(c)'
  BY <1>2, <1>5 DEF ServedInv
<1>8. WireShape' /\ \A d \in Conns \ {c} : wire'[d] = wire[d]
  BY <1>1, <1>2 DEF WireShape
<1> QED
  BY <1>2, <1>3, <1>4, <1>6, <1>7, <1>8, ClientQuiet

\* The job's leader exits, or its whole group is killed.
LEMMA JobEndStep ==
  ASSUME DaemonInv, NEW c \in Conns, JobExit(c) \/ KillJob(c)
  PROVE  DaemonInv'
<1>1. /\ ConnShape /\ ProcShape /\ WireShape
      /\ TaskInv(c) /\ ProcInv(c) /\ (restarts = 0 => ServedInv(c))
  BY Parted
<1>2. /\ conn' = conn /\ UNCHANGED procRest /\ wire' = wire
  BY DEF JobExit, KillJob
<1>3. /\ ProcShape' /\ \A d \in Conns \ {c} : SameProc(d)
      /\ proc'[c].at = proc[c].at /\ proc'[c].token = proc[c].token
      /\ ~proc'[c].leader /\ (proc'[c].kids => proc[c].kids)
  <2>1. CASE JobExit(c)
    BY <1>1, <2>1 DEF JobExit, ProcShape, SameProc
  <2>2. CASE KillJob(c)
    BY <1>1, <2>2, KilledWrites DEF KillJob, ProcShape, SameProc
  <2> QED
    BY <2>1, <2>2
<1>4. /\ Reported(c)' = Reported(c) /\ DoneSent(c)' = DoneSent(c) /\ GrantSent(c)' = GrantSent(c)
      /\ Alive(c)' = Alive(c)
  BY <1>2, <1>3 DEF Reported, DoneSent, GrantSent, Alive
<1>5. ProcInv(c)'
  BY <1>1, <1>2, <1>3, <1>4 DEF ProcInv, Late
<1>6. restarts = 0 => ServedInv(c)'
  BY <1>1, <1>2, <1>3, <1>4 DEF ServedInv
<1>7. WireShape' /\ \A d \in Conns \ {c} : wire'[d] = wire[d]
  BY <1>1, <1>2 DEF WireShape
<1> QED
  BY <1>2, <1>3, <1>4, <1>5, <1>6, <1>7, ClientQuiet

\* The job has ended; its group is cleared and its code reported.
LEMMA CleanupStep ==
  ASSUME DaemonInv, NEW c \in Conns, Cleanup(c)
  PROVE  DaemonInv'
<1>1. /\ ConnShape /\ ProcShape /\ WireShape
      /\ TaskInv(c) /\ ProcInv(c) /\ (restarts = 0 => ServedInv(c))
  BY Parted
<1>2. /\ proc[c].at \in {"running", "stopping"} /\ conn' = conn /\ UNCHANGED procRest
      /\ Tells(c, "done") /\ proc' = [Killed(proc, c) EXCEPT ![c].at = "exited"]
  BY DEF Cleanup
<1>3. /\ ProcShape' /\ \A d \in Conns \ {c} : SameProc(d)
      /\ proc'[c].at = "exited" /\ ~proc'[c].leader /\ ~proc'[c].kids
  <2> DEFINE k == Killed(proc, c)
  <2>1. /\ k \in [Conns -> [at : {"idle", "waiting", "exited", "unleased"} \cup Started,
                      token : Option(Ids), stop : BOOLEAN, leader : BOOLEAN, kids : BOOLEAN]]
        /\ ~k[c].leader /\ ~k[c].kids
        /\ \A d \in Conns \ {c} :
             /\ k[d].token = proc[d].token /\ k[d].kids = proc[d].kids
             /\ \/ k[d].at = proc[d].at /\ k[d].leader = proc[d].leader
                \/ k[d].at = "exited" /\ ~k[d].leader /\ proc[d].at # "idle"
    BY <1>1, KilledWrites
  <2>2. proc' = [k EXCEPT ![c].at = "exited"]
    BY <1>2
  <2> HIDE DEF k
  <2>3. \A d \in Conns \ {c} : proc'[d] = k[d]
    BY <2>1, <2>2
  <2>4. \A d \in Conns \ {c} : SameProc(d)
    BY <2>1, <2>3 DEF SameProc
  <2> QED
    BY <2>1, <2>2, <2>4 DEF ProcShape
<1>4. /\ WireShape' /\ \A d \in Conns \ {c} : wire'[d] = wire[d]
      /\ Reported(c)' <=> Reported(c)
  BY <1>1, <1>2, TellsWrites
<1>5. Late(c) /\ ~(conn[c].task = "finish" /\ ~conn[c].code)
  BY <1>1, <1>2 DEF ProcInv, Started, Alive
<1>6. ProcInv(c)'
  BY <1>2, <1>3, <1>5 DEF ProcInv, Late
<1>7. restarts = 0 => ServedInv(c)'
  BY <1>3 DEF ServedInv, Started
<1> QED
  BY <1>2, <1>3, <1>4, <1>6, <1>7, ClientQuiet

\* Every step of a client keeps the invariant.
LEMMA ClientSteps ==
  ASSUME DaemonInv, NEW c \in Conns,
         ClientStep(c) \/ JobExit(c) \/ Interrupt(c) \/ ClientCrash(c)
  PROVE  DaemonInv'
BY StartStep, EndStep, ReadReplyStep, SpawnStep, SpawnFailsStep, ReportGroupStep, ListenStep,
   StopJobStep, JobEndStep, CleanupStep DEF ClientStep
-----------------------------------------------------------------------------
(* What the scheduler's operations do to the requests of the clients *)

\* A step that changes the scheduler keeps the invariant if the client it is about
\* keeps its part and the requests of the others go on as before.
LEMMA BusyStep ==
  ASSUME DaemonInv, NEW c \in Conns, ConnShape', WireShape', proc' = proc,
         restarts' = restarts, Bound',
         \A d \in Conns \ {c} : SameConn(d) /\ wire'[d] = wire[d] /\ SameStatus(d),
         TaskInv(c)', ProcInv(c)', restarts = 0 => ServedInv(c)'
  PROVE  DaemonInv'
<1>1. Shapes'
  BY DEF DaemonInv, Shapes, ProcShape
<1>2. ASSUME NEW d \in Conns PROVE TaskInv(d)' /\ ProcInv(d)' /\ (restarts = 0 => ServedInv(d)')
  <2>1. CASE d = c
    BY <2>1
  <2>2. CASE d # c
    BY <2>2, ProcSame, AsideKeeps DEF DaemonInv
  <2> QED
    BY <2>1, <2>2
<1> QED
  BY <1>1, <1>2 DEF DaemonInv

\* Requests move from the queue to the machines they asked for and leave; none
\* comes.
LEMMA BoundMoves ==
  ASSUME Bound, LeaseInv', sched'.next_id = sched.next_id,
         \A d \in Conns : conn'[d].id = conn[d].id,
         \A w \in sched'.waiting : \E v \in sched.waiting : v.id = w.id /\ v.machine = w.machine,
         \A m \in Held(sched') :
           /\ sched'.holders[m].token \in {None, sched'.holders[m].id}
           /\ \/ m \in Held(sched) /\ sched'.holders[m].id = sched.holders[m].id
              \/ \E v \in sched.waiting : v.machine = m /\ v.id = sched'.holders[m].id,
         NestedIds(sched') \subseteq NestedIds(sched)
  PROVE  Bound'
<1>1. \A d \in Conns : Id(d)' = Id(d) /\ Machine(d)' = Machine(d)
  BY DEF Id, Machine
<1>2. ASSUME NEW d \in Conns
      PROVE  /\ \A m \in Held(sched') : sched'.holders[m].id = Id(d) => m = Machine(d)
             /\ \A w \in sched'.waiting : w.id = Id(d) => w.machine = Machine(d)
             /\ Id(d) \in NestedIds(sched') => Inside[d] # None
  BY DEF Bound
<1> QED
  BY <1>1, <1>2 DEF Bound

\* An id that is waiting, held or nested is a known one, so not zero.
LEMMA StatusKnown ==
  ASSUME Bound, NEW i,
         is_waiting(sched, i) \/ holds(sched, i) \/ Unclaimed(sched, i) # {}
  PROVE  i \in KnownIds /\ i \in Nat /\ i # 0 /\ i < sched.next_id
<1>1. i \in WaitingIds(sched) \cup HeldIds(sched) \cup NestedIds(sched)
  <2>1. CASE Unclaimed(sched, i) # {}
    <3>1. PICK g \in sched.unclaimed : g.id = i
      BY <2>1 DEF Unclaimed
    <3>2. g.machine \in Machines /\ sched.holders[g.machine] # None /\ sched.holders[g.machine].id = i
      BY <3>1 DEF Bound, LeaseInv, UnclaimedIsHeld, TypeOK, Scheduler, Grant
    <3> QED
      BY <3>2 DEF HeldIds, Held
  <2> QED
    BY <2>1 DEF is_waiting, holds
<1>2. i \in KnownIds
  BY <1>1 DEF Bound, LeaseInv, FreshIds
<1>3. sched.next_id \in Nat
  BY DEF Bound, LeaseInv, TypeOK, Scheduler, Ids
<1> QED
  BY <1>2, <1>3 DEF KnownIds

Monotone == \A d \in Conns : d \in answered.cancels => d \in answered'.cancels

\* Setting flags moves no request.
LEMMA FlagsSched ==
  ASSUME Bound, OnlyFlags(sched, sched'), sched' \in Scheduler, now' = now, Monotone,
         \A d \in Conns : conn'[d].id = conn[d].id
  PROVE  Bound' /\ \A d \in Conns : SameStatus(d)
<1>1. TypeOK' /\ LeaseInv
  BY DEF Bound, LeaseInv, TypeOK
<1>2. LeaseInv'
  BY <1>1, FlagStep DEF OnlyFlags, Parts, LeaseInv
<1>3. \A m \in Machines : /\ sched'.holders[m] = None <=> sched.holders[m] = None
                          /\ sched.holders[m] # None =>
                               /\ sched'.holders[m].id = sched.holders[m].id
                               /\ sched'.holders[m].token = sched.holders[m].token
  BY DEF OnlyFlags
<1>4. Held(sched') = Held(sched) /\ HeldIds(sched') = HeldIds(sched)
  BY <1>3 DEF Held, HeldIds
<1>5. NestedIds(sched') = NestedIds(sched) /\ WaitingIds(sched') = WaitingIds(sched)
  BY DEF OnlyFlags, NestedIds, WaitingIds
<1>6. \A d \in Conns : Unclaimed(sched', Id(d)) = Unclaimed(sched, Id(d))
  BY DEF OnlyFlags, Unclaimed
<1>7. Bound'
  <2>1. \A m \in Held(sched') :
           /\ sched'.holders[m].token \in {None, sched'.holders[m].id}
           /\ m \in Held(sched) /\ sched'.holders[m].id = sched.holders[m].id
    BY <1>3, <1>4 DEF Bound, Held
  <2> QED
    BY <1>2, <1>5, <2>1, BoundMoves DEF OnlyFlags
<1>8. ASSUME NEW d \in Conns PROVE SameStatus(d)
  BY <1>4, <1>5, <1>6 DEF SameStatus, is_waiting, holds, Cancelled, Monotone
<1> QED
  BY <1>7, <1>8

\* reorder() neither.
LEMMA ReorderSched ==
  ASSUME Bound, NEW id, NEW at \in Nat, sched' = reorder(sched, id, at), now' = now, Monotone,
         \A d \in Conns : conn'[d].id = conn[d].id
  PROVE  Bound' /\ \A d \in Conns : SameStatus(d)
<1>1. LeaseInv /\ sched \in Scheduler /\ now \in Nat
  BY DEF Bound, LeaseInv, TypeOK
<1>2. sched' \in Scheduler /\ TypeOK'
  BY <1>1, ReorderType DEF TypeOK
<1>3. LeaseInv'
  BY <1>1, <1>2, ReorderStep DEF Parts, LeaseInv
<1> DEFINE move(w) == IF w.id = id THEN [w EXCEPT !.manual_position = at] ELSE w
<1>4. /\ sched'.waiting = {move(w) : w \in sched.waiting}
      /\ sched'.next_id = sched.next_id /\ sched'.nested = sched.nested
      /\ sched'.holders = sched.holders /\ sched'.unclaimed = sched.unclaimed
  BY <1>1 DEF reorder, Scheduler
<1>5. \A w \in sched.waiting : move(w).id = w.id /\ move(w).machine = w.machine
  BY <1>1 DEF Scheduler, Waiting
<1> HIDE DEF move
<1>6. /\ Held(sched') = Held(sched) /\ HeldIds(sched') = HeldIds(sched)
      /\ NestedIds(sched') = NestedIds(sched) /\ WaitingIds(sched') = WaitingIds(sched)
  BY <1>4, <1>5 DEF Held, HeldIds, NestedIds, WaitingIds
<1>7. \A d \in Conns : Unclaimed(sched', Id(d)) = Unclaimed(sched, Id(d))
  BY <1>4 DEF Unclaimed
<1>8. Bound'
  <2>1. \A w \in sched'.waiting : \E v \in sched.waiting : v.id = w.id /\ v.machine = w.machine
    BY <1>4, <1>5
  <2>2. \A m \in Held(sched') :
           /\ sched'.holders[m].token \in {None, sched'.holders[m].id}
           /\ m \in Held(sched) /\ sched'.holders[m].id = sched.holders[m].id
    BY <1>4, <1>6 DEF Bound
  <2> QED
    BY <1>3, <1>4, <1>6, <2>1, <2>2, BoundMoves
<1>9. ASSUME NEW d \in Conns PROVE SameStatus(d)
  BY <1>6, <1>7 DEF SameStatus, is_waiting, holds, Cancelled, Monotone
<1> QED
  BY <1>8, <1>9

\* release() ends one request and no other.
LEMMA ReleaseSched ==
  ASSUME Bound, NEW x, sched' = release(sched, x), now' = now, Monotone,
         \A d \in Conns : conn'[d].id = conn[d].id
  PROVE  /\ Bound'
         /\ ~is_waiting(sched', x) /\ ~holds(sched', x)
         /\ \A d \in Conns : Id(d) # x \/ Id(d) = 0 => SameStatus(d)
<1>1. LeaseInv /\ sched \in Scheduler /\ now \in Nat
  BY DEF Bound, LeaseInv, TypeOK
<1>2. sched' \in Scheduler /\ TypeOK'
  BY <1>1, ReleaseType DEF TypeOK
<1>3. LeaseInv'
  BY <1>1, <1>2, ReleaseStep DEF Parts, LeaseInv
<1>4. /\ sched'.waiting = {w \in sched.waiting : w.id # x}
      /\ sched'.unclaimed = {g \in sched.unclaimed : g.id # x}
      /\ sched'.nested = {n \in sched.nested : n.id # x}
      /\ sched'.next_id = sched.next_id
      /\ \A m \in Machines : sched'.holders[m] = IF /\ x \notin NestedIds(sched)
                                                    /\ sched.holders[m] # None
                                                    /\ sched.holders[m].id = x
                                                 THEN None ELSE sched.holders[m]
  BY <1>1 DEF release, Scheduler
<1>5. ~is_waiting(sched', x) /\ x \notin NestedIds(sched')
  BY <1>4 DEF is_waiting, WaitingIds, NestedIds
<1>6. x \notin HeldIds(sched')
  <2>1. x \in NestedIds(sched) => x \notin HeldIds(sched)
    BY DEF Bound, LeaseInv, OneState
  <2> QED
    BY <1>4, <2>1 DEF HeldIds, Held
<1>7. \A i : i # x => /\ i \in WaitingIds(sched') <=> i \in WaitingIds(sched)
                      /\ i \in NestedIds(sched') <=> i \in NestedIds(sched)
                      /\ Unclaimed(sched', i) = Unclaimed(sched, i)
  BY <1>4 DEF WaitingIds, NestedIds, Unclaimed
<1>8. \A i : i # x => (i \in HeldIds(sched') <=> i \in HeldIds(sched))
  BY <1>4 DEF HeldIds, Held
<1>9. ASSUME NEW d \in Conns, Id(d) # x PROVE SameStatus(d)
  BY <1>7, <1>8, <1>9 DEF SameStatus, is_waiting, holds, Cancelled, Monotone
<1>10. ASSUME NEW d \in Conns, Id(d) = x, Id(d) = 0 PROVE SameStatus(d)
  <2>1. ~is_waiting(sched, Id(d)) /\ ~holds(sched, Id(d)) /\ Unclaimed(sched, Id(d)) = {}
    BY <1>10, StatusKnown
  <2>2. ~is_waiting(sched', Id(d)) /\ ~holds(sched', Id(d))
    BY <1>5, <1>6, <1>10 DEF holds
  <2> QED
    BY <2>1, <2>2 DEF SameStatus, Cancelled, Monotone
<1>11. Bound'
  <2>1. \A m \in Held(sched') :
           /\ sched'.holders[m].token \in {None, sched'.holders[m].id}
           /\ m \in Held(sched) /\ sched'.holders[m].id = sched.holders[m].id
    BY <1>4 DEF Bound, Held
  <2>2. NestedIds(sched') \subseteq NestedIds(sched)
    BY <1>4 DEF NestedIds
  <2> QED
    BY <1>3, <1>4, <2>1, <2>2, BoundMoves
<1> QED
  BY <1>5, <1>6, <1>9, <1>10, <1>11 DEF holds

\* grant(), with the grant of request x claimed or not, gives the queued requests
\* machines and takes none away.
LEMMA GrantSched ==
  ASSUME Bound, NEW x,
         sched' \in Scheduler, now' = now, Monotone,
         sched'.waiting = sched.waiting \ Winners(sched, now),
         sched'.holders = HoldersAfter(sched, now),
         sched'.unclaimed \subseteq sched.unclaimed \cup GrantsMade(sched, now),
         \A g \in sched.unclaimed \cup GrantsMade(sched, now) :
           g.id = x \/ g \in sched'.unclaimed,
         sched'.next_id = sched.next_id, sched'.nested = sched.nested,
         \A d \in Conns : conn'[d].id = conn[d].id
  PROVE  /\ Bound'
         /\ \A g \in sched.unclaimed \cup GrantsMade(sched, now) : g.id \in HeldIds(sched')
         /\ \A d \in Conns : Id(d) # x => SameStatus(d)
<1> DEFINE won == Grantable(sched, now)
           win(m) == Winner(sched, m, now)
<1>1. LeaseInv /\ sched \in Scheduler /\ now \in Nat /\ TypeOK'
  BY DEF Bound, LeaseInv, TypeOK
<1>2. LeaseInv'
  BY <1>1, GrantStep DEF Parts, LeaseInv
<1>3. \A m \in won : /\ win(m) \in sched.waiting /\ win(m).machine = m
                     /\ m \in Machines /\ sched.holders[m] = None
  BY <1>1, WinnerWaits DEF Grantable
<1>4. \A m \in won : /\ sched'.holders[m].id = win(m).id
                     /\ sched'.holders[m].token = SessionToken(win(m))
                     /\ sched'.holders[m] # None
  <2>1. \A m \in won : AsHolder(win(m), now) \in Holder
    BY <1>1, <1>3 DEF AsHolder, Holder, Scheduler, Waiting, SessionToken, Option
  <2>2. \A m \in won : sched'.holders[m] = AsHolder(win(m), now)
    BY <1>3 DEF HoldersAfter
  <2>3. \A m \in won : /\ AsHolder(win(m), now).id = win(m).id
                       /\ AsHolder(win(m), now).token = SessionToken(win(m))
    BY DEF AsHolder
  <2> HIDE DEF won, win
  <2> QED
    BY <2>1, <2>2, <2>3, NoneAssumption
<1>5. \A m \in Machines : m \notin won => sched'.holders[m] = sched.holders[m]
  BY DEF HoldersAfter
<1>6. \A m \in Held(sched) : m \in Held(sched') /\ sched'.holders[m] = sched.holders[m]
  BY <1>3, <1>5 DEF Held
<1>7. HeldIds(sched) \subseteq HeldIds(sched')
  BY <1>6 DEF HeldIds
<1>8. \A m \in won : win(m).id \in HeldIds(sched')
  BY <1>3, <1>4 DEF HeldIds, Held
<1>9. \A g \in GrantsMade(sched, now) : g.id \in HeldIds(sched')
  BY <1>8 DEF GrantsMade, AsGrant
<1>10. \A g \in sched.unclaimed : g.id \in HeldIds(sched)
  BY <1>1 DEF LeaseInv, UnclaimedIsHeld, HeldIds, Held, Scheduler, Grant
<1>11. \A m \in Held(sched') : \/ m \in won
                               \/ m \in Held(sched) /\ sched'.holders[m] = sched.holders[m]
  BY <1>5 DEF Held
<1>12. HeldIds(sched') \subseteq HeldIds(sched) \cup WaitingIds(sched)
  <2>1. \A m \in Held(sched') : sched'.holders[m].id \in HeldIds(sched) \cup WaitingIds(sched)
    BY <1>3, <1>4, <1>11 DEF HeldIds, WaitingIds
  <2> QED
    BY <2>1 DEF HeldIds
<1>13. Bound'
  <2>1. \A m \in Held(sched') :
           /\ sched'.holders[m].token \in {None, sched'.holders[m].id}
           /\ \/ m \in Held(sched) /\ sched'.holders[m].id = sched.holders[m].id
              \/ \E v \in sched.waiting : v.machine = m /\ v.id = sched'.holders[m].id
    BY <1>3, <1>4, <1>11 DEF Bound, SessionToken
  <2>2. NestedIds(sched') \subseteq NestedIds(sched)
    BY DEF NestedIds
  <2> QED
    BY <1>2, <2>1, <2>2, BoundMoves
<1>14. ASSUME NEW d \in Conns, Id(d) # x PROVE SameStatus(d)
  <2>1. holds(sched, Id(d)) => holds(sched', Id(d))
    BY <1>7 DEF holds, NestedIds
  <2>2. is_waiting(sched, Id(d)) => is_waiting(sched', Id(d)) \/ Unclaimed(sched', Id(d)) # {}
    <3>1. SUFFICES ASSUME NEW w \in sched.waiting, w.id = Id(d)
                   PROVE  is_waiting(sched', Id(d)) \/ Unclaimed(sched', Id(d)) # {}
      BY DEF is_waiting, WaitingIds
    <3>2. CASE w \notin Winners(sched, now)
      BY <3>1, <3>2 DEF is_waiting, WaitingIds
    <3>3. CASE w \in Winners(sched, now)
      <4>1. PICK m \in won : w = win(m)
        BY <3>3 DEF Winners
      <4>2. AsGrant(sched, w, now) \in GrantsMade(sched, now) /\ AsGrant(sched, w, now).id = Id(d)
        BY <3>1, <4>1 DEF GrantsMade, AsGrant
      <4> QED
        BY <1>14, <4>2 DEF Unclaimed
    <3> QED
      BY <3>2, <3>3
  <2>3. Unclaimed(sched, Id(d)) # {} => Unclaimed(sched', Id(d)) # {}
    BY <1>14 DEF Unclaimed
  <2>4. ~is_waiting(sched, Id(d)) /\ ~holds(sched, Id(d)) =>
          ~is_waiting(sched', Id(d)) /\ ~holds(sched', Id(d))
    BY <1>12 DEF is_waiting, WaitingIds, holds, NestedIds
  <2> QED
    BY <2>1, <2>2, <2>3, <2>4 DEF SameStatus, Cancelled, Monotone
<1> QED
  BY <1>7, <1>9, <1>10, <1>13, <1>14
-----------------------------------------------------------------------------
(* The steps of a task that change the scheduler *)

\* A step that acknowledges no cancel takes none back.
LEMMA SameCancels ==
  ASSUME answered' = answered PROVE Monotone
BY DEF Monotone

\* What admit() writes for each answer.
Admits(s, r, token, answer, t, time) ==
  /\ answer \in {"refused", "queued", "preempted", "nested"}
  /\ answer = "refused" => t = s
  /\ answer # "refused" => t.next_id = s.next_id + 1
  /\ t.holders = s.holders /\ t.unclaimed = s.unclaimed
  /\ t.waiting = IF answer = "queued"
                 THEN s.waiting \cup {AsWaiting(r, s.next_id, time)} ELSE s.waiting
  /\ t.nested = IF answer = "nested"
                THEN s.nested \cup {[id |-> s.next_id, machine |-> r.machine]} ELSE s.nested
  /\ answer = "nested" => /\ token # None /\ r.machine \in Machines
                          /\ s.holders[r.machine] # None
                          /\ s.holders[r.machine].token = token

LEMMA AdmitWrites ==
  ASSUME NEW s \in Scheduler, NEW r, NEW token, NEW time
  PROVE  Admits(s, r, token, Admission(s, r, token), admit(s, r, token, time), time)
<1> DEFINE answer == Admission(s, r, token)
           t == admit(s, r, token, time)
<1>1. answer \in {"refused", "queued", "preempted", "nested"}
  BY DEF Admission
<1>2. answer = "nested" => /\ token # None /\ r.machine \in Machines
                           /\ s.holders[r.machine] # None
                           /\ s.holders[r.machine].token = token
  BY DEF Admission, knows
<1>3. CASE answer = "refused"
  BY <1>2, <1>3 DEF admit, Admits
<1>4. CASE answer = "preempted"
  BY <1>2, <1>4 DEF admit, Scheduler, Admits
<1>5. CASE answer = "nested"
  BY <1>2, <1>5 DEF admit, Scheduler, Admits
<1>6. CASE answer = "queued"
  BY <1>2, <1>6 DEF admit, Scheduler, Admits
<1> QED
  BY <1>1, <1>3, <1>4, <1>5, <1>6

\* lease(): the newcomer gets an id of its own.
LEMMA AdmitConnStep ==
  ASSUME DaemonInv, NEW c \in Conns, AdmitConn(c)
  PROVE  DaemonInv'
<1>1. /\ ConnShape /\ ProcShape /\ WireShape /\ Bound
      /\ TaskInv(c) /\ ProcInv(c) /\ (restarts = 0 => ServedInv(c))
  BY Parted DEF DaemonInv
<1> DEFINE token == IF Inside[c] = None THEN None ELSE proc[Inside[c]].token
           r == Ask[c]
           answer == Admission(sched, r, token)
           new == sched.next_id
<1>2. /\ conn[c].task = "hello" /\ proc' = proc /\ now' = now /\ answered' = answered
      /\ restarts' = restarts /\ sched' = admit(sched, r, token, now)
      /\ \/ /\ answer = "queued" /\ wire' = wire
            /\ conn' = [conn EXCEPT ![c].id = new, ![c].task = "look"]
         \/ /\ answer = "nested" /\ wire' = wire
            /\ conn' = [conn EXCEPT ![c].id = new, ![c].task = "granted"]
         \/ /\ answer \in {"preempted", "refused"}
            /\ Goto(c, "ended") /\ Send(c, Reply("refused"))
  BY DEF AdmitConn, taskRest
<1>3. /\ sched \in Scheduler /\ now \in Nat /\ new \in Nat /\ new # 0 /\ LeaseInv
      /\ new \in Ids
  BY <1>1 DEF Bound, LeaseInv, TypeOK, Scheduler, Ids
<1>4. r \in Requests
  BY ClientsAssumption
<1>5. /\ answer \in {"refused", "queued", "preempted", "nested"}
      /\ answer = "refused" => sched' = sched
      /\ answer # "refused" => sched'.next_id = new + 1
      /\ sched'.holders = sched.holders /\ sched'.unclaimed = sched.unclaimed
      /\ sched'.waiting = IF answer = "queued"
                          THEN sched.waiting \cup {AsWaiting(r, new, now)} ELSE sched.waiting
      /\ sched'.nested = IF answer = "nested"
                         THEN sched.nested \cup {[id |-> new, machine |-> r.machine]}
                         ELSE sched.nested
      /\ answer = "nested" => Inside[c] # None
  <2>1. token # None => Inside[c] # None
    OBVIOUS
  <2>2. Admits(sched, r, token, answer, sched', now)
    BY <1>2, <1>3, AdmitWrites
  <2> HIDE DEF token, r, answer
  <2> QED
    BY <2>1, <2>2 DEF Admits
<1>6. LeaseInv'
  <2>1. TypeOK'
    BY <1>2, <1>3, <1>4, AdmitType DEF TypeOK
  <2>2. Parts'
    BY <1>2, <1>3, <1>4, AdmitStep
  <2> QED
    BY <2>1, <2>2 DEF Parts, LeaseInv
<1> HIDE DEF token, r, answer, new
<1>7. /\ ConnShape' /\ \A d \in Conns \ {c} : SameConn(d)
      /\ conn'[c].task = IF answer = "queued" THEN "look"
                         ELSE IF answer = "nested" THEN "granted" ELSE "ended"
      /\ conn'[c].id = (IF answer \in {"queued", "nested"} THEN new ELSE conn[c].id)
      /\ conn'[c].mailbox = conn[c].mailbox
      /\ conn'[c].pgid = conn[c].pgid /\ conn'[c].code = conn[c].code
  <2>1. CASE answer = "queued"
    BY <1>1, <1>2, <1>3, <2>1 DEF ConnShape, Tasks, SameConn
  <2>2. CASE answer = "nested"
    BY <1>1, <1>2, <1>3, <2>2 DEF ConnShape, Tasks, SameConn
  <2>3. CASE answer \in {"preempted", "refused"}
    <3>1. "ended" \in Tasks
      BY DEF Tasks
    <3> QED
      BY <1>1, <1>2, <2>3, <3>1, GotoWrites
  <2> QED
    BY <1>5, <2>1, <2>2, <2>3
<1>8. /\ WireShape' /\ \A d \in Conns \ {c} : wire'[d] = wire[d]
      /\ wire'[c].up = wire[c].up /\ (GrantSent(c)' <=> GrantSent(c))
  <2>1. Reply("refused") \in Replies /\ Reply("refused").type # "granted"
    BY DEF Reply, Replies, Option
  <2>2. CASE wire' = wire
    BY <1>1, <2>2 DEF WireShape, GrantSent
  <2>3. CASE Send(c, Reply("refused"))
    BY <1>1, <2>1, <2>3, SendWrites
  <2> QED
    BY <1>2, <2>2, <2>3
<1>9. /\ Held(sched') = Held(sched) /\ HeldIds(sched') = HeldIds(sched)
      /\ WaitingIds(sched') = (IF answer = "queued" THEN WaitingIds(sched) \cup {new}
                                                    ELSE WaitingIds(sched))
      /\ NestedIds(sched') = (IF answer = "nested" THEN NestedIds(sched) \cup {new}
                                                   ELSE NestedIds(sched))
  <2>1. AsWaiting(r, new, now).id = new
    BY DEF AsWaiting
  <2>2. Held(sched') = Held(sched) /\ HeldIds(sched') = HeldIds(sched)
    BY <1>5 DEF Held, HeldIds
  <2>3. WaitingIds(sched') = (IF answer = "queued" THEN WaitingIds(sched) \cup {new}
                                                  ELSE WaitingIds(sched))
    <3>1. CASE answer = "queued"
      BY <1>5, <2>1, <3>1 DEF WaitingIds
    <3>2. CASE answer # "queued"
      BY <1>5, <3>2 DEF WaitingIds
    <3> QED
      BY <3>1, <3>2
  <2>4. NestedIds(sched') = (IF answer = "nested" THEN NestedIds(sched) \cup {new}
                                                 ELSE NestedIds(sched))
    <3>1. CASE answer = "nested"
      <4> DEFINE run == [id |-> new, machine |-> r.machine]
      <4>1. run.id = new
        OBVIOUS
      <4>2. sched'.nested = sched.nested \cup {run}
        BY <1>5, <3>1
      <4> HIDE DEF run
      <4> QED
        BY <3>1, <4>1, <4>2 DEF NestedIds
    <3>2. CASE answer # "nested"
      BY <1>5, <3>2 DEF NestedIds
    <3> QED
      BY <3>1, <3>2
  <2> QED
    BY <2>2, <2>3, <2>4
<1>10. \A d \in Conns : /\ Id(d) < new /\ Id(d) # new /\ Id(d) \in Nat
                        /\ d # c => Id(d)' = Id(d)
  BY <1>1, <1>3, <1>7 DEF Bound, Id, SameConn, ConnShape, new
<1>11. Id(c)' = IF answer \in {"queued", "nested"} THEN new ELSE Id(c)
  BY <1>7 DEF Id
<1>12. ASSUME NEW d \in Conns \ {c} PROVE SameStatus(d)
  BY <1>2, <1>5, <1>9, <1>10 DEF SameStatus, is_waiting, holds, Unclaimed, Cancelled
<1>13. new \notin HeldIds(sched) /\ new \notin WaitingIds(sched) /\ new \notin NestedIds(sched)
  BY <1>1, <1>3, StatusKnown DEF is_waiting, holds, new
<1>14. Bound'
  <2>1. \A m \in Held(sched') : sched'.holders[m].token \in {None, sched'.holders[m].id}
    BY <1>1, <1>5, <1>9 DEF Bound
  <2>2. sched'.next_id = (IF answer = "refused" THEN new ELSE new + 1)
    BY <1>5 DEF new
  <2>3. \A d \in Conns : Id(d)' < sched'.next_id
    BY <1>3, <1>10, <1>11, <2>2
  <2>4. \A d, e \in Conns : Id(d)' = Id(e)' /\ Id(d)' # 0 => d = e
    BY <1>1, <1>10, <1>11 DEF Bound
  <2>5. ASSUME NEW d \in Conns
        PROVE  /\ \A m \in Held(sched') : sched'.holders[m].id = Id(d)' => m = Machine(d)
               /\ \A w \in sched'.waiting : w.id = Id(d)' => w.machine = Machine(d)
               /\ Id(d)' \in NestedIds(sched') => Inside[d] # None
    <3>1. AsWaiting(r, new, now).id = new /\ AsWaiting(r, new, now).machine = Machine(c)
      BY DEF AsWaiting, Machine, r
    <3>2. CASE Id(d)' = Id(d)
      <4>1. \A m \in Held(sched') : sched'.holders[m].id = Id(d)' => m = Machine(d)
        BY <1>1, <1>5, <1>9, <3>2 DEF Bound
      <4>2. \A w \in sched'.waiting : w.id = Id(d)' => w.machine = Machine(d)
        BY <1>1, <1>5, <1>10, <3>1, <3>2 DEF Bound
      <4>3. Id(d)' \in NestedIds(sched') => Inside[d] # None
        BY <1>1, <1>9, <1>10, <3>2 DEF Bound
      <4> QED
        BY <4>1, <4>2, <4>3
    <3>3. CASE d = c /\ Id(d)' = new
      <4>1. \A m \in Held(sched') : sched'.holders[m].id # new
        BY <1>9, <1>13 DEF HeldIds
      <4>2. \A w \in sched'.waiting : w.id = new => w.machine = Machine(c)
        BY <1>5, <1>13, <3>1 DEF WaitingIds
      <4>3. new \in NestedIds(sched') => Inside[c] # None
        BY <1>5, <1>9, <1>13
      <4> QED
        BY <3>3, <4>1, <4>2, <4>3
    <3> QED
      BY <1>10, <1>11, <3>2, <3>3
  <2>6. \A d \in Conns : Machine(d)' = Machine(d)
    BY DEF Machine
  <2>7. \A d \in Conns : conn'[d].id = Id(d)'
    BY DEF Id
  <2> QED
    BY <1>6, <2>1, <2>3, <2>4, <2>5, <2>6, <2>7 DEF Bound
<1>15. Reported(c)' = Reported(c) /\ DoneSent(c)' = DoneSent(c)
  BY <1>7, <1>8 DEF Reported, DoneSent
<1>16. ~Late(c)
  BY <1>2 DEF Late
<1>17. TaskInv(c)'
  <2>1. answer = "queued" => is_waiting(sched', Id(c)')
    BY <1>9, <1>11 DEF is_waiting
  <2>2. answer = "nested" => holds(sched', Id(c)')
    BY <1>9, <1>11 DEF holds
  <2>3. ~Gone(c)' /\ conn[c].mailbox = None
    BY <1>1, <1>2, <1>7, <1>15, <1>16 DEF Gone, ProcInv, TaskInv
  <2>4. conn'[c].task \in {"look", "granted", "ended"}
    BY <1>7
  <2> QED
    BY <1>5, <1>7, <2>1, <2>2, <2>3, <2>4 DEF TaskInv
<1>18. ProcInv(c)'
  BY <1>1, <1>2, <1>7, <1>8, <1>15, <1>16 DEF ProcInv, Late, Started
<1>19. restarts = 0 => ServedInv(c)'
  BY <1>1, <1>2, <1>8, <1>15, <1>16 DEF ProcInv, ServedInv
<1> QED
  BY <1>2, <1>7, <1>8, <1>12, <1>14, <1>17, <1>18, <1>19, BusyStep

\* What Look() writes: its own task, and the scheduler grant() and claim() leave.
LEMMA LookWrites ==
  ASSUME ConnShape, sched \in Scheduler, now \in Nat, NEW c \in Conns, Look(c)
  PROVE  LET s == grant(sched, now)
             i == Id(c)
         IN  /\ conn[c].task = "look" /\ proc' = proc /\ wire' = wire /\ now' = now
             /\ answered' = answered /\ restarts' = restarts
             /\ ConnShape' /\ \A d \in Conns \ {c} : SameConn(d)
             /\ conn'[c].task \in {"granted", "refuse", "parked", "report"}
             /\ conn'[c].task = "granted" => Unclaimed(s, i) # {}
             /\ conn'[c].task \in {"parked", "report"} => sched' = s /\ is_waiting(s, i)
             /\ conn'[c].id = conn[c].id /\ conn'[c].mailbox = conn[c].mailbox
             /\ conn'[c].pgid = conn[c].pgid /\ conn'[c].code = conn[c].code
             /\ sched' \in Scheduler
             /\ sched'.waiting = s.waiting /\ sched'.holders = s.holders
             /\ sched'.next_id = s.next_id /\ sched'.nested = s.nested
             /\ sched'.unclaimed \subseteq s.unclaimed
             /\ \A g \in s.unclaimed : g.id = i \/ g \in sched'.unclaimed
<1> DEFINE s == grant(sched, now)
           i == Id(c)
<1>2. /\ conn[c].task = "look" /\ proc' = proc /\ wire' = wire /\ now' = now
      /\ answered' = answered /\ restarts' = restarts
  BY DEF Look, taskRest
<1>3. sched \in Scheduler /\ now \in Nat
  OBVIOUS
<1>4. \E looking \in {conn, Notified(conn)} : \E woken, seen :
        \/ /\ Unclaimed(s, i) # {} /\ sched' = claim(s, i)
           /\ conn' = [[looking EXCEPT ![c].woken = woken] EXCEPT ![c].task = "granted"]
        \/ /\ Unclaimed(s, i) = {} /\ ~is_waiting(s, i) /\ sched' = s
           /\ conn' = [[looking EXCEPT ![c].woken = woken] EXCEPT ![c].task = "refuse"]
        \/ /\ Unclaimed(s, i) = {} /\ is_waiting(s, i) /\ sched' = s
           /\ conn' = [[looking EXCEPT ![c].woken = woken]
                         EXCEPT ![c].task = IF conn[c].last = seen THEN "parked" ELSE "report",
                                ![c].seen = seen]
  <2> DEFINE others == HeldIds(s) \ (HeldIds(sched) \cup {Id(c)}) # {}
             w == CHOOSE w \in s.waiting : w.id = Id(c)
             holder == s.holders[Machine(c)]
             seen == <<position(s, w), IF holder = None THEN None ELSE holder.id>>
             looking == IF others THEN Notified(conn) ELSE conn
             self == [looking EXCEPT ![c].woken = others]
  <2>1. \/ /\ Unclaimed(s, i) # {} /\ sched' = claim(s, i)
           /\ conn' = [self EXCEPT ![c].task = "granted"]
        \/ /\ Unclaimed(s, i) = {} /\ ~is_waiting(s, i) /\ sched' = s
           /\ conn' = [self EXCEPT ![c].task = "refuse"]
        \/ /\ Unclaimed(s, i) = {} /\ is_waiting(s, i) /\ sched' = s
           /\ conn' = [self EXCEPT ![c].task = IF conn[c].last = seen THEN "parked" ELSE "report",
                                   ![c].seen = seen]
    BY DEF Look
  <2>2. looking \in {conn, Notified(conn)}
    OBVIOUS
  <2> HIDE DEF seen, looking, others, s, i
  <2> QED
    BY <2>1, <2>2
<1>5. /\ s \in Scheduler
      /\ s.waiting = sched.waiting \ Winners(sched, now)
      /\ s.holders = HoldersAfter(sched, now)
      /\ s.unclaimed = sched.unclaimed \cup GrantsMade(sched, now)
      /\ s.next_id = sched.next_id /\ s.nested = sched.nested
  BY <1>3, GrantType
<1> HIDE DEF s, i
<1>6. /\ ConnShape' /\ \A d \in Conns \ {c} : SameConn(d)
      /\ conn'[c].task \in {"granted", "refuse", "parked", "report"}
      /\ conn'[c].task = "granted" => Unclaimed(s, i) # {}
      /\ conn'[c].task \in {"parked", "report"} => sched' = s /\ is_waiting(s, i)
      /\ conn'[c].id = conn[c].id /\ conn'[c].mailbox = conn[c].mailbox
      /\ conn'[c].pgid = conn[c].pgid /\ conn'[c].code = conn[c].code
      /\ sched' = s \/ sched' = claim(s, i)
  <2>0. PICK looking \in {conn, Notified(conn)} : \E woken, seen :
        \/ /\ Unclaimed(s, i) # {} /\ sched' = claim(s, i)
           /\ conn' = [[looking EXCEPT ![c].woken = woken] EXCEPT ![c].task = "granted"]
        \/ /\ Unclaimed(s, i) = {} /\ ~is_waiting(s, i) /\ sched' = s
           /\ conn' = [[looking EXCEPT ![c].woken = woken] EXCEPT ![c].task = "refuse"]
        \/ /\ Unclaimed(s, i) = {} /\ is_waiting(s, i) /\ sched' = s
           /\ conn' = [[looking EXCEPT ![c].woken = woken]
                         EXCEPT ![c].task = IF conn[c].last = seen THEN "parked" ELSE "report",
                                ![c].seen = seen]
    BY <1>4
  <2>1. PICK woken, seen :
        \/ /\ Unclaimed(s, i) # {} /\ sched' = claim(s, i)
           /\ conn' = [[looking EXCEPT ![c].woken = woken] EXCEPT ![c].task = "granted"]
        \/ /\ Unclaimed(s, i) = {} /\ ~is_waiting(s, i) /\ sched' = s
           /\ conn' = [[looking EXCEPT ![c].woken = woken] EXCEPT ![c].task = "refuse"]
        \/ /\ Unclaimed(s, i) = {} /\ is_waiting(s, i) /\ sched' = s
           /\ conn' = [[looking EXCEPT ![c].woken = woken]
                         EXCEPT ![c].task = IF conn[c].last = seen THEN "parked" ELSE "report",
                                ![c].seen = seen]
    BY <2>0
  <2>2. /\ DOMAIN looking = Conns
        /\ \A d \in Conns :
             /\ DOMAIN looking[d] = {"task", "id", "last", "seen", "woken", "mailbox", "pgid", "code"}
             /\ looking[d].task = conn[d].task /\ looking[d].id = conn[d].id
             /\ looking[d].mailbox = conn[d].mailbox
             /\ looking[d].pgid = conn[d].pgid /\ looking[d].code = conn[d].code
    BY NotifiedWrites DEF ConnShape
  <2> HIDE DEF s
  <2>3. CASE /\ Unclaimed(s, i) # {} /\ sched' = claim(s, i)
             /\ conn' = [[looking EXCEPT ![c].woken = woken] EXCEPT ![c].task = "granted"]
    BY <2>2, <2>3 DEF ConnShape, Tasks, SameConn
  <2>4. CASE /\ Unclaimed(s, i) = {} /\ ~is_waiting(s, i) /\ sched' = s
             /\ conn' = [[looking EXCEPT ![c].woken = woken] EXCEPT ![c].task = "refuse"]
    BY <2>2, <2>4 DEF ConnShape, Tasks, SameConn
  <2>5. CASE /\ Unclaimed(s, i) = {} /\ is_waiting(s, i) /\ sched' = s
             /\ conn' = [[looking EXCEPT ![c].woken = woken]
                           EXCEPT ![c].task = IF conn[c].last = seen THEN "parked" ELSE "report",
                                  ![c].seen = seen]
    <3>1. PICK t \in {"parked", "report"} :
            conn' = [[looking EXCEPT ![c].woken = woken] EXCEPT ![c].task = t, ![c].seen = seen]
      BY <2>5
    <3> QED
      BY <2>2, <2>5, <3>1 DEF ConnShape, Tasks, SameConn
  <2> QED
    BY <2>1, <2>3, <2>4, <2>5
<1>7. /\ sched' \in Scheduler
      /\ sched'.waiting = s.waiting /\ sched'.holders = s.holders
      /\ sched'.next_id = s.next_id /\ sched'.nested = s.nested
      /\ sched'.unclaimed \subseteq s.unclaimed
      /\ \A g \in s.unclaimed : g.id = i \/ g \in sched'.unclaimed
  <2>1. CASE sched' = s
    BY <1>5, <2>1
  <2>2. CASE sched' = claim(s, i)
    <3>1. sched' \in Scheduler
      BY <1>5, <2>2, OtherTypes
    <3>2. sched' = [s EXCEPT !.unclaimed = s.unclaimed \ Unclaimed(s, i)]
      BY <2>2 DEF claim
    <3>3. DOMAIN s = {"next_id", "waiting", "holders", "nested", "paused", "reserved", "ci",
                      "merge_queue", "unclaimed"}
      BY <1>5 DEF Scheduler
    <3>4. /\ sched'.waiting = s.waiting /\ sched'.holders = s.holders
          /\ sched'.next_id = s.next_id /\ sched'.nested = s.nested
          /\ sched'.unclaimed = s.unclaimed \ Unclaimed(s, i)
      BY <3>2, <3>3
    <3> QED
      BY <3>1, <3>4 DEF Unclaimed
  <2> QED
    BY <1>6, <2>1, <2>2
<1> QED
  BY <1>2, <1>6, <1>7 DEF s, i

\* wait_for_grant(): grant, then claim what is ours.
LEMMA LookStep ==
  ASSUME DaemonInv, NEW c \in Conns, Look(c)
  PROVE  DaemonInv'
<1>1. /\ ConnShape /\ ProcShape /\ WireShape /\ Bound
      /\ TaskInv(c) /\ ProcInv(c) /\ (restarts = 0 => ServedInv(c))
  BY Parted DEF DaemonInv
<1> DEFINE s == grant(sched, now)
           i == Id(c)
<1>3. sched \in Scheduler /\ now \in Nat
  BY <1>1 DEF Bound, LeaseInv, TypeOK
<1>5. /\ s \in Scheduler
      /\ s.waiting = sched.waiting \ Winners(sched, now)
      /\ s.holders = HoldersAfter(sched, now)
      /\ s.unclaimed = sched.unclaimed \cup GrantsMade(sched, now)
      /\ s.next_id = sched.next_id /\ s.nested = sched.nested
  BY <1>3, GrantType
<1>2. /\ conn[c].task = "look" /\ proc' = proc /\ wire' = wire /\ now' = now
      /\ answered' = answered /\ restarts' = restarts
  BY <1>1, <1>3, LookWrites
<1>6. /\ ConnShape' /\ \A d \in Conns \ {c} : SameConn(d)
      /\ conn'[c].task \in {"granted", "refuse", "parked", "report"}
      /\ conn'[c].task = "granted" => Unclaimed(s, i) # {}
      /\ conn'[c].task \in {"parked", "report"} => sched' = s /\ is_waiting(s, i)
      /\ conn'[c].id = conn[c].id /\ conn'[c].mailbox = conn[c].mailbox
      /\ conn'[c].pgid = conn[c].pgid /\ conn'[c].code = conn[c].code
  BY <1>1, <1>3, LookWrites
<1>7. /\ sched' \in Scheduler
      /\ sched'.waiting = s.waiting /\ sched'.holders = s.holders
      /\ sched'.next_id = s.next_id /\ sched'.nested = s.nested
      /\ sched'.unclaimed \subseteq s.unclaimed
      /\ \A g \in s.unclaimed : g.id = i \/ g \in sched'.unclaimed
  BY <1>1, <1>3, LookWrites
<1> HIDE DEF s, i
<1>8. \A d \in Conns : conn'[d].id = conn[d].id
  BY <1>6 DEF SameConn
<1>9. Monotone
  BY <1>2, SameCancels
<1>10. /\ Bound'
       /\ \A g \in s.unclaimed : g.id \in HeldIds(sched')
       /\ \A d \in Conns : Id(d) # i => SameStatus(d)
  BY <1>1, <1>2, <1>5, <1>7, <1>8, <1>9, GrantSched
<1>11. i # 0 => \A d \in Conns \ {c} : SameStatus(d)
  BY <1>1, <1>10 DEF Bound, i
<1>12. i = 0 => \A d \in Conns \ {c} : SameStatus(d)
  <2>1. SUFFICES ASSUME i = 0 PROVE \A d \in Conns \ {c} : SameStatus(d)
    OBVIOUS
  <2>2. \A g \in s.unclaimed : g.id # None
    BY <1>5, NoneAssumption DEF Scheduler, Grant, Ids
  <2>3. \A g \in s.unclaimed : g.id # i
    BY <1>5, <2>1 DEF Scheduler, Grant, Ids
  <2>4. \A g \in s.unclaimed : g.id = None \/ g \in sched'.unclaimed
    BY <1>7, <2>3
  <2>5. \A d \in Conns : Id(d) # None => SameStatus(d)
    BY <1>1, <1>2, <1>5, <1>7, <1>8, <1>9, <2>4, GrantSched
  <2>6. \A d \in Conns : Id(d) \in Nat
    BY <1>1 DEF ConnShape, Id
  <2> QED
    BY <2>5, <2>6, NoneAssumption
<1>13. Id(c)' = i /\ Reported(c)' = Reported(c) /\ DoneSent(c)' = DoneSent(c)
       /\ GrantSent(c)' = GrantSent(c)
  BY <1>2, <1>6 DEF Id, i, Reported, DoneSent, GrantSent
<1>14. ~Late(c)
  BY <1>2 DEF Late
<1>15. TaskInv(c)'
  <2>1. conn'[c].task = "granted" => holds(sched', Id(c)')
    BY <1>6, <1>10, <1>13 DEF Unclaimed, holds
  <2>2. conn'[c].task \in {"parked", "report"} => is_waiting(sched', Id(c)')
    BY <1>6, <1>13
  <2>3. ~Gone(c)' /\ conn[c].mailbox = None
    BY <1>1, <1>2, <1>6 DEF Gone, TaskInv
  <2> QED
    BY <1>6, <2>1, <2>2, <2>3 DEF TaskInv
<1>16. ProcInv(c)'
  BY <1>1, <1>2, <1>6, <1>13, <1>14 DEF ProcInv, Late, Started
<1>17. restarts = 0 => ServedInv(c)'
  BY <1>1, <1>2, <1>13, <1>14 DEF ProcInv, ServedInv
<1>18. WireShape' /\ \A d \in Conns \ {c} : wire'[d] = wire[d]
  BY <1>1, <1>2 DEF WireShape
<1> QED
  BY <1>2, <1>6, <1>10, <1>11, <1>12, <1>15, <1>16, <1>17, <1>18, BusyStep

\* release(id): nothing is left of the request.
LEMMA ReleaseConnStep ==
  ASSUME DaemonInv, NEW c \in Conns, ReleaseConn(c)
  PROVE  DaemonInv'
<1>1. /\ ConnShape /\ ProcShape /\ WireShape /\ Bound
      /\ TaskInv(c) /\ ProcInv(c) /\ (restarts = 0 => ServedInv(c))
  BY Parted DEF DaemonInv
<1>2. /\ conn[c].task \in {"release", "leave"} /\ proc' = proc /\ wire' = wire /\ now' = now
      /\ answered' = answered /\ restarts' = restarts /\ sched' = release(sched, Id(c))
  BY DEF ReleaseConn, taskRest
<1>3. /\ ConnShape' /\ \A d \in Conns \ {c} : SameConn(d)
      /\ conn'[c].task = "regrant" /\ conn'[c].id = conn[c].id
      /\ conn'[c].mailbox = conn[c].mailbox
      /\ conn'[c].pgid = conn[c].pgid /\ conn'[c].code = conn[c].code
  <2>1. "regrant" \in Tasks
    BY DEF Tasks
  <2> QED
    BY <1>1, <2>1, GotoWrites DEF ReleaseConn
<1>4. \A d \in Conns : conn'[d].id = conn[d].id
  BY <1>3 DEF SameConn
<1>5. /\ Bound' /\ ~is_waiting(sched', Id(c)) /\ ~holds(sched', Id(c))
      /\ \A d \in Conns : Id(d) # Id(c) \/ Id(d) = 0 => SameStatus(d)
  BY <1>1, <1>2, <1>4, SameCancels, ReleaseSched
<1>6. \A d \in Conns \ {c} : SameStatus(d)
  BY <1>1, <1>5 DEF Bound
<1>7. Id(c)' = Id(c) /\ Reported(c)' = Reported(c) /\ DoneSent(c)' = DoneSent(c)
      /\ GrantSent(c)' = GrantSent(c)
  BY <1>2, <1>3 DEF Id, Reported, DoneSent, GrantSent
<1>8. TaskInv(c)'
  BY <1>1, <1>2, <1>3, <1>5, <1>7 DEF TaskInv
<1>9. ProcInv(c)'
  BY <1>1, <1>2, <1>3, <1>7 DEF ProcInv, Late, Started
<1>10. restarts = 0 => ServedInv(c)'
  BY <1>1, <1>2, <1>7 DEF ServedInv
<1>11. WireShape' /\ \A d \in Conns \ {c} : wire'[d] = wire[d]
  BY <1>1, <1>2 DEF WireShape
<1> QED
  BY <1>2, <1>3, <1>5, <1>6, <1>8, <1>9, <1>10, <1>11, BusyStep

\* regrant(): the request that left does not come back.
LEMMA RegrantStep ==
  ASSUME DaemonInv, NEW c \in Conns, Regrant(c)
  PROVE  DaemonInv'
<1>1. /\ ConnShape /\ ProcShape /\ WireShape /\ Bound
      /\ TaskInv(c) /\ ProcInv(c) /\ (restarts = 0 => ServedInv(c))
  BY Parted DEF DaemonInv
<1>2. /\ conn[c].task = "regrant" /\ proc' = proc /\ wire' = wire /\ now' = now
      /\ answered' = answered /\ restarts' = restarts /\ sched' = grant(sched, now)
  BY DEF Regrant, taskRest
<1>3. /\ ConnShape' /\ \A d \in Conns \ {c} : SameConn(d)
      /\ conn'[c].task \in {"ended", "notify"} /\ conn'[c].id = conn[c].id
      /\ conn'[c].mailbox = conn[c].mailbox
      /\ conn'[c].pgid = conn[c].pgid /\ conn'[c].code = conn[c].code
  <2>1. PICK t \in {"ended", "notify"} : Goto(c, t)
    BY DEF Regrant
  <2>2. t \in Tasks
    BY DEF Tasks
  <2> QED
    BY <1>1, <2>1, <2>2, GotoWrites
<1>4. \A d \in Conns : conn'[d].id = conn[d].id
  BY <1>3 DEF SameConn
<1>5. sched \in Scheduler /\ now \in Nat
  BY <1>1 DEF Bound, LeaseInv, TypeOK
<1>6. /\ sched' \in Scheduler
      /\ sched'.waiting = sched.waiting \ Winners(sched, now)
      /\ sched'.holders = HoldersAfter(sched, now)
      /\ sched'.unclaimed = sched.unclaimed \cup GrantsMade(sched, now)
      /\ sched'.next_id = sched.next_id /\ sched'.nested = sched.nested
  BY <1>2, <1>5, GrantType
<1>7. Bound' /\ \A d \in Conns : Id(d) # None => SameStatus(d)
  BY <1>1, <1>2, <1>4, <1>6, SameCancels, GrantSched
<1>8. \A d \in Conns : SameStatus(d)
  <2>1. \A d \in Conns : Id(d) \in Nat
    BY <1>1 DEF ConnShape, Id
  <2> QED
    BY <1>7, <2>1, NoneAssumption
<1>9. Id(c)' = Id(c) /\ Reported(c)' = Reported(c) /\ DoneSent(c)' = DoneSent(c)
      /\ GrantSent(c)' = GrantSent(c)
  BY <1>2, <1>3 DEF Id, Reported, DoneSent, GrantSent
<1>10. TaskInv(c)'
  <2>1. ~is_waiting(sched', Id(c)) /\ ~holds(sched', Id(c))
    BY <1>1, <1>2, <1>8 DEF TaskInv, Gone, SameStatus
  <2> QED
    BY <1>1, <1>2, <1>3, <1>9, <2>1 DEF TaskInv
<1>11. ProcInv(c)'
  BY <1>1, <1>2, <1>3, <1>9 DEF ProcInv, Late
<1>12. restarts = 0 => ServedInv(c)'
  BY <1>1, <1>2, <1>9 DEF ServedInv
<1>13. WireShape' /\ \A d \in Conns \ {c} : wire'[d] = wire[d]
  BY <1>1, <1>2 DEF WireShape
<1> QED
  BY <1>2, <1>3, <1>7, <1>8, <1>10, <1>11, <1>12, <1>13, BusyStep
-----------------------------------------------------------------------------
(* Administrators' orders, and the daemon's end *)

\* An order adds at most a message to a mailbox that is open.
LEMMA OrderConn ==
  ASSUME ConnShape, NEW o \in Orders, Order(o)
  PROVE  ConnShape' /\ \A d \in Conns : SameConn(d)
<1>1. CASE conn' = conn
  BY <1>1, ConnSame DEF ConnShape
<1>2. CASE Mail(o, sched) # <<>> /\ conn[o.on].mailbox # None
  <2>1. o.on \in Conns /\ Mail(o, sched) \in Seq(Mails)
    <3>1. o.type \in {"cancel", "preempt"} /\ Mail(o, sched) \in {<<"preempting">>, <<"revoked">>}
      BY <1>2 DEF Mail
    <3>2. <<"preempting">> \in Seq(Mails) /\ <<"revoked">> \in Seq(Mails)
      BY DEF Mails
    <3> QED
      BY <3>1, <3>2, OrdersAssumption
  <2>2. conn' = [conn EXCEPT ![o.on].mailbox = @ \o Mail(o, sched)]
    BY <1>2 DEF Order
  <2>3. conn[o.on].mailbox \in Seq(Mails)
    BY <1>2, <2>1 DEF ConnShape, Option
  <2> DEFINE box == conn[o.on].mailbox \o Mail(o, sched)
  <2>4. box \in Seq(Mails) /\ box # None
    <3>1. box \in Seq(Mails)
      BY <2>1, <2>3
    <3> QED
      BY <3>1, ClientsAssumption DEF Mails
  <2>5. conn' = [conn EXCEPT ![o.on].mailbox = box]
    BY <2>2
  <2> HIDE DEF box
  <2> QED
    BY <1>2, <2>1, <2>4, <2>5 DEF ConnShape, SameConn, Option
<1> QED
  BY <1>1, <1>2 DEF Order

\* The orders that change what the scheduler is told, and no request.
LEMMA PlainOrders ==
  ASSUME NEW o \in Orders, NEW s \in Scheduler, now \in Nat,
         o.type \in {"pause", "resume", "reserve", "unreserve", "ci_start", "ci_stop",
                     "merge_queue", "preempt", "overruns"}
  PROVE  Obey(o, s) \in Scheduler /\ OnlyFlags(s, Obey(o, s))
<1>0. \A t : /\ t.next_id = s.next_id /\ t.waiting = s.waiting /\ t.holders = s.holders
            /\ t.nested = s.nested /\ t.unclaimed = s.unclaimed
            => OnlyFlags(s, t)
  BY DEF OnlyFlags
<1>1. CASE o.type = "pause"
  <2>1. o.on \in Machines /\ Obey(o, s) = set_paused(s, o.on, TRUE)
    BY <1>1, OrdersAssumption DEF Obey
  <2> QED
    <3>1. set_paused(s, o.on, TRUE) \in Scheduler
      BY <2>1, OtherTypes
    <3>2. OnlyFlags(s, set_paused(s, o.on, TRUE))
      BY <1>0 DEF set_paused, Scheduler
    <3> QED
      BY <2>1, <3>1, <3>2
<1>2. CASE o.type = "resume"
  <2>1. o.on \in Machines /\ Obey(o, s) = set_paused(s, o.on, FALSE)
    BY <1>2, OrdersAssumption DEF Obey
  <2> QED
    <3>1. set_paused(s, o.on, FALSE) \in Scheduler
      BY <2>1, OtherTypes
    <3>2. OnlyFlags(s, set_paused(s, o.on, FALSE))
      BY <1>0 DEF set_paused, Scheduler
    <3> QED
      BY <2>1, <3>1, <3>2
<1>3. CASE o.type = "reserve"
  <2>1. /\ o.on \in Machines /\ o.arg \in Texts
        /\ Obey(o, s) = reserve(s, o.on, [label |-> o.arg, until |-> now + 1])
    BY <1>3, OrdersAssumption DEF Obey
  <2>2. [label |-> o.arg, until |-> now + 1] \in Option(Reservation)
    BY <2>1 DEF Reservation, Option
  <2> QED
    <3>1. reserve(s, o.on, [label |-> o.arg, until |-> now + 1]) \in Scheduler
      BY <2>1, <2>2, OtherTypes
    <3>2. OnlyFlags(s, reserve(s, o.on, [label |-> o.arg, until |-> now + 1]))
      BY <1>0 DEF reserve, Scheduler
    <3> QED
      BY <2>1, <3>1, <3>2
<1>4. CASE o.type = "unreserve"
  <2>1. o.on \in Machines /\ Obey(o, s) = reserve(s, o.on, None)
    BY <1>4, OrdersAssumption DEF Obey
  <2>2. None \in Option(Reservation)
    BY DEF Option
  <2> QED
    <3>1. reserve(s, o.on, None) \in Scheduler
      BY <2>1, <2>2, OtherTypes
    <3>2. OnlyFlags(s, reserve(s, o.on, None))
      BY <1>0 DEF reserve, Scheduler
    <3> QED
      BY <2>1, <3>1, <3>2
<1>5. CASE o.type = "ci_start"
  <2>1. o.on \in Machines /\ o.arg \in CiJobs /\ Obey(o, s) = ci_start(s, o.on, o.arg, now)
    BY <1>5, OrdersAssumption DEF Obey
  <2> QED
    <3>1. ci_start(s, o.on, o.arg, now) \in Scheduler
      BY <2>1, OtherTypes
    <3>2. OnlyFlags(s, ci_start(s, o.on, o.arg, now))
      BY <1>0 DEF ci_start, Scheduler
    <3> QED
      BY <2>1, <3>1, <3>2
<1>6. CASE o.type = "ci_stop"
  <2>1. o.on \in Machines /\ o.arg \in CiJobs /\ Obey(o, s) = ci_stop(s, o.on, o.arg)
    BY <1>6, OrdersAssumption DEF Obey
  <2> QED
    <3>1. ci_stop(s, o.on, o.arg) \in Scheduler
      BY <2>1, OtherTypes
    <3>2. OnlyFlags(s, ci_stop(s, o.on, o.arg))
      BY <1>0 DEF ci_stop, Scheduler
    <3> QED
      BY <2>1, <3>1, <3>2
<1>7. CASE o.type = "merge_queue"
  <2>1. o.arg \in Queues /\ Obey(o, s) = set_merge_queue(s, o.arg)
    BY <1>7, OrdersAssumption DEF Obey
  <2> QED
    <3>1. set_merge_queue(s, o.arg) \in Scheduler
      BY <2>1, OtherTypes
    <3>2. OnlyFlags(s, set_merge_queue(s, o.arg))
      BY <1>0 DEF set_merge_queue, Scheduler
    <3> QED
      BY <2>1, <3>1, <3>2
<1>8. CASE o.type = "preempt"
  <2>1. Obey(o, s) = preempt(s, Id(o.on))
    BY <1>8 DEF Obey
  <2> QED
    BY <2>1, PreemptType, PreemptFields
<1>9. CASE o.type = "overruns"
  <2>1. Obey(o, s) = overruns(s, now)
    BY <1>9 DEF Obey
  <2> QED
    BY <2>1, OverrunsType, OverrunsFields
<1> QED
  BY <1>1, <1>2, <1>3, <1>4, <1>5, <1>6, <1>7, <1>8, <1>9

\* cancel() drops a queued request, whose client is remembered, and no lease.
LEMMA CancelSched ==
  ASSUME Bound, NEW o \in Orders, Order(o), o.type = "cancel", Monotone,
         \A d \in Conns : conn'[d].id = conn[d].id
  PROVE  Bound' /\ \A d \in Conns : SameStatus(d)
<1>1. /\ o.on \in Conns /\ now' = now
      /\ sched' = IF holds(sched, Id(o.on)) THEN sched ELSE release(sched, Id(o.on))
      /\ is_waiting(sched, Id(o.on)) => o.on \in answered'.cancels
  <2>1. o.on \in Conns /\ sched' = cancel(sched, Id(o.on))
    BY OrdersAssumption DEF Order, Obey
  <2>2. is_waiting(sched, Id(o.on)) => Accepted(o, sched)
    BY DEF Accepted
  <2> QED
    BY <2>1, <2>2 DEF Order, cancel
<1>2. CASE holds(sched, Id(o.on))
  <2>1. sched' = sched
    BY <1>1, <1>2
  <2>2. Bound'
    BY <1>1, <2>1, BoundSame
  <2>3. \A d \in Conns : SameStatus(d)
    BY <2>1 DEF SameStatus, Cancelled, Monotone
  <2> QED
    BY <2>2, <2>3
<1>3. CASE ~holds(sched, Id(o.on))
  <2> DEFINE x == Id(o.on)
  <2>1. sched' = release(sched, x)
    BY <1>1, <1>3
  <2>2. /\ Bound' /\ ~is_waiting(sched', x) /\ ~holds(sched', x)
        /\ \A d \in Conns : Id(d) # x \/ Id(d) = 0 => SameStatus(d)
    BY <1>1, <2>1, ReleaseSched
  <2>3. Unclaimed(sched, x) = {}
    BY <1>3 DEF Bound, LeaseInv, UnclaimedIsHeld, TypeOK, Scheduler, Grant, Unclaimed,
                holds, HeldIds, Held
  <2>4. ASSUME NEW d \in Conns, Id(d) = x, Id(d) # 0 PROVE SameStatus(d)
    <3>1. d = o.on
      BY <1>1, <2>4 DEF Bound
    <3> QED
      BY <1>1, <1>3, <2>2, <2>3, <3>1 DEF SameStatus, Cancelled, Monotone
  <2> QED
    BY <2>2, <2>4
<1> QED
  BY <1>2, <1>3

\* The administrator's orders.
LEMMA OrderStep ==
  ASSUME DaemonInv, NEW o \in Orders, Order(o)
  PROVE  DaemonInv'
<1>1. ConnShape /\ Bound /\ sched \in Scheduler /\ now \in Nat
  BY DEF DaemonInv, Shapes, Bound, LeaseInv, TypeOK
<1>2. /\ sched' = Obey(o, sched) /\ now' = now /\ proc' = proc /\ wire' = wire
      /\ restarts' = restarts
  BY DEF Order
<1>3. ConnShape' /\ \A d \in Conns : SameConn(d)
  BY <1>1, OrderConn
<1>4. \A d \in Conns : conn'[d].id = conn[d].id
  BY <1>3 DEF SameConn
<1>5. Monotone
  BY DEF Monotone, Order
<1>6. Bound' /\ \A d \in Conns : SameStatus(d)
  <2>1. CASE o.type = "cancel"
    BY <1>1, <1>4, <1>5, <2>1, CancelSched
  <2>2. CASE o.type = "reorder"
    <3>1. o.arg \in Nat /\ sched' = reorder(sched, Id(o.on), o.arg)
      BY <1>2, <2>2, OrdersAssumption DEF Obey
    <3> QED
      BY <1>1, <1>2, <1>4, <1>5, <3>1, ReorderSched
  <2>3. CASE o.type \notin {"cancel", "reorder"}
    <3>1. o.type \in {"pause", "resume", "reserve", "unreserve", "ci_start", "ci_stop",
                      "merge_queue", "preempt", "overruns"}
      BY <2>3, OrdersAssumption
    <3>2. sched' \in Scheduler /\ OnlyFlags(sched, sched')
      BY <1>1, <1>2, <3>1, PlainOrders
    <3> QED
      BY <1>1, <1>2, <1>4, <1>5, <3>2, FlagsSched
  <2> QED
    BY <2>1, <2>2, <2>3
<1> QED
  BY <1>2, <1>3, <1>6, AllAside

\* A crash loses the scheduler and ends every task.
LEMMA CrashStep ==
  ASSUME DaemonInv, DaemonCrash
  PROVE  DaemonInv'
<1>1. ConnShape /\ ProcShape /\ WireShape /\ restarts \in Nat /\ Bound /\ sched \in Scheduler
  BY DEF DaemonInv, Shapes, Bound, LeaseInv, TypeOK
<1>2. /\ proc' = proc /\ wire' = wire /\ now' = now /\ answered' = answered
      /\ restarts' = restarts + 1
      /\ sched' = [Initial EXCEPT !.next_id = sched.next_id]
      /\ DOMAIN conn' = Conns
      /\ \A c \in Conns : conn'[c] = IF Open(c) THEN [conn[c] EXCEPT !.task = "ended", !.mailbox = None]
                                                 ELSE conn[c]
  BY DEF DaemonCrash
<1>3. \A c \in Conns :
        /\ DOMAIN conn'[c] = DOMAIN conn[c]
        /\ conn'[c].task = IF Open(c) THEN "ended" ELSE conn[c].task
        /\ conn'[c].mailbox = IF Open(c) THEN None ELSE conn[c].mailbox
        /\ conn'[c].id = conn[c].id /\ conn'[c].pgid = conn[c].pgid /\ conn'[c].code = conn[c].code
  BY <1>1, <1>2 DEF ConnShape
<1>4. ConnShape'
  BY <1>1, <1>2, <1>3 DEF ConnShape, Tasks, Option
<1>5. /\ sched'.next_id = sched.next_id /\ sched'.waiting = {} /\ sched'.nested = {}
      /\ sched'.unclaimed = {} /\ \A m \in Machines : sched'.holders[m] = None
      /\ sched' \in Scheduler
  BY <1>1, <1>2 DEF Initial, Scheduler, Option
<1>6. /\ Held(sched') = {} /\ HeldIds(sched') = {} /\ WaitingIds(sched') = {}
      /\ NestedIds(sched') = {}
  BY <1>5 DEF Held, HeldIds, WaitingIds, NestedIds
<1>7. LeaseInv'
  BY <1>1, <1>2, <1>5, <1>6
     DEF Bound, LeaseInv, TypeOK, FreshIds, OneState, UnclaimedIsHeld
<1>8. Bound'
  BY <1>1, <1>3, <1>5, <1>6, <1>7 DEF Bound, Id, Machine
<1>9. ASSUME NEW c \in Conns PROVE TaskInv(c)' /\ ProcInv(c)'
  <2>1. TaskInv(c) /\ ProcInv(c)
    BY DEF DaemonInv
  <2>2. \A i : ~is_waiting(sched', i) /\ ~holds(sched', i)
    BY <1>6 DEF is_waiting, holds
  <2>3. conn'[c].task \in {"none", "ended"}
    BY <1>3 DEF Open
  <2>4. TaskInv(c)'
    BY <1>3, <2>1, <2>2, <2>3 DEF TaskInv, Open
  <2>5. GrantSent(c)' = GrantSent(c) /\ Reported(c)' = Reported(c) /\ DoneSent(c)' = DoneSent(c)
    BY <1>2, <1>3 DEF GrantSent, Reported, DoneSent
  <2>6. \/ Late(c)'
        \/ ~Late(c)' /\ ~Late(c) /\ conn'[c].task = conn[c].task
    <3>1. CASE Open(c)
      BY <1>3, <3>1 DEF Late
    <3>2. CASE ~Open(c)
      BY <1>3, <2>3, <3>2 DEF Late
    <3> QED
      BY <3>1, <3>2
  <2>7. conn[c].task = "none" => conn'[c].task = "none"
    BY <1>3 DEF Open
  <2>8. ProcInv(c)'
    BY <1>2, <2>1, <2>3, <2>5, <2>6, <2>7 DEF ProcInv
  <2> QED
    BY <2>4, <2>8
<1>10. Shapes' /\ restarts' # 0
  <2>1. restarts' \in Nat /\ restarts' # 0
    <3>1. restarts \in Nat /\ restarts' = restarts + 1
      BY <1>1, <1>2
    <3> QED
      BY <3>1
  <2>2. ProcShape' /\ WireShape'
    BY <1>1, <1>2 DEF ProcShape, WireShape
  <2> QED
    BY <1>4, <2>1, <2>2 DEF Shapes
<1> QED
  BY <1>8, <1>9, <1>10 DEF DaemonInv
-----------------------------------------------------------------------------
(* The theorems *)

\* The invariant holds at first, and every step keeps it.
LEMMA DaemonStarts ==
  DaemonInit => DaemonInv
<1> SUFFICES ASSUME DaemonInit PROVE DaemonInv
  OBVIOUS
<1>1. sched = Initial /\ now = 0 /\ restarts = 0
  BY DEF DaemonInit
<1>2. \A c \in Conns :
        /\ conn[c] = [task |-> "none", id |-> 0, last |-> None, seen |-> None,
                      woken |-> FALSE, mailbox |-> None, pgid |-> FALSE, code |-> FALSE]
        /\ proc[c] = [at |-> "idle", token |-> None, stop |-> FALSE,
                      leader |-> FALSE, kids |-> FALSE]
        /\ wire[c] = [down |-> <<>>, up |-> <<>>]
  BY DEF DaemonInit
<1>3. ConnShape
  BY <1>2 DEF DaemonInit, ConnShape, Tasks, Option
<1>4. ProcShape
  BY DEF DaemonInit, ProcShape, Option
<1>5. WireShape
  BY DEF DaemonInit, WireShape
<1>6. LeaseInv
  BY <1>1, InvInit DEF Init
<1>7. Bound
  BY <1>1, <1>2, <1>6 DEF Bound, Initial, Held, NestedIds, Id
<1>8. ASSUME NEW c \in Conns PROVE TaskInv(c) /\ ProcInv(c) /\ ServedInv(c)
  <2>1. DOMAIN wire[c].down = {} /\ DOMAIN wire[c].up = {}
    BY <1>2
  <2> QED
    BY <1>2, <2>1 DEF TaskInv, ProcInv, ServedInv, Gone, Reported, GrantSent, DoneSent, Late,
                     Started, Alive
<1> QED
  BY <1>1, <1>3, <1>4, <1>5, <1>7, <1>8 DEF DaemonInv, Shapes

LEMMA DaemonStep ==
  DaemonInv /\ [DaemonNext]_allVars => DaemonInv'
<1> SUFFICES ASSUME DaemonInv, [DaemonNext]_allVars PROVE DaemonInv'
  OBVIOUS
<1>1. ASSUME NEW c \in Conns, TaskStep(c) \/ Poll(c) PROVE DaemonInv'
  BY <1>1, AdmitConnStep, LookStep, ReportStep, RefuseStep, ParkedStep, DeliverStep, HearStep,
     HangupStep, ForwardStep, FinishStep, ReleaseConnStep, RegrantStep, NotifyStep
     DEF TaskStep
<1>2. ASSUME NEW c \in Conns, ClientStep(c) \/ JobExit(c) \/ Interrupt(c) \/ ClientCrash(c)
      PROVE  DaemonInv'
  BY <1>2, ClientSteps
<1>3. ASSUME NEW o \in Orders, Order(o) PROVE DaemonInv'
  BY <1>3, OrderStep
<1>4. CASE Tell \/ DaemonStart \/ UNCHANGED allVars
  BY <1>4, TellStep
<1>5. CASE DaemonCrash
  BY <1>5, CrashStep
<1> QED
  BY <1>1, <1>2, <1>3, <1>4, <1>5 DEF DaemonNext

\* Whatever clients, administrators and crashes do, a task that serves a lease
\* still holds it, one that waits is queued, granted or cancelled, and the task of
\* a client that started its job leaves no lease behind (server.rs: lease(),
\* wait_for_grant(), release() and the administrator's cancel).
THEOREM ServingIsHolding == DaemonSpec => []ServingHolds
<1>1. DaemonInv => ServingHolds
  BY DEF DaemonInv, TaskInv, ServingHolds, Gone
<1> QED
  BY <1>1, DaemonStarts, DaemonStep, PTL DEF DaemonSpec

\* Until the daemon crashes, a job runs under a lease: its task serves it from
\* before the job starts until after its group is gone (lease_and_run(), and the
\* kill of the group when a client's connection ends).
THEOREM JobsRunLeased == DaemonSpec => [](restarts = 0 => JobIsLeased)
<1>1. DaemonInv /\ restarts = 0 => JobIsLeased
  <2> SUFFICES ASSUME DaemonInv, restarts = 0, NEW c \in Conns,
                      proc[c].leader \/ (proc[c].kids /\ Reported(c))
               PROVE  holds(sched, Id(c))
    BY DEF JobIsLeased
  <2>1. TaskInv(c) /\ ProcInv(c) /\ ServedInv(c)
    BY DEF DaemonInv
  <2>2. conn[c].task \in {"serve", "finish"}
    BY <2>1 DEF ProcInv, ServedInv, Working, Started
  <2> QED
    BY <2>1, <2>2 DEF TaskInv
<1> QED
  BY <1>1, DaemonStarts, DaemonStep, PTL DEF DaemonSpec
-----------------------------------------------------------------------------
(* Sessions. A nested client runs on its session's machine because the      *)
(* session's client lives longer: its job is what the nested one runs in.   *)

\* A client that may start others is not killed before it has ended its job.
SessionsImmortal == \A c \in Conns : Inside[c] # None => Inside[c] \notin Mortal

\* A session's token is its id.
TokenInv(s) ==
  Inside[s] = None =>
    /\ proc[s].token \in {None, Id(s)}
    /\ Tokens(s) \subseteq {None, Id(s)}

Early(c) == conn[c].task \in {"none", "hello"}

\* A session's client runs as long as anything of its job, and as a nested client
\* of it does.
SessionRuns(c) ==
  /\ proc[Inside[c]].kids => proc[Inside[c]].at \in Working
  /\ Alive(c) => proc[Inside[c]].at \in Working

\* What a nested client runs on is held by its session.
SessionInv(c) ==
  Inside[c] # None =>
    /\ SessionRuns(c)
    /\ Early(c) => Id(c) = 0
    /\ Alive(c) /\ Id(c) \in NestedIds(sched) =>
         /\ Machine(c) \in Held(sched)
         /\ sched.holders[Machine(c)].id = Id(Inside[c])

SessionsInv == DaemonInv /\ (restarts = 0 => \A c \in Conns : TokenInv(c) /\ SessionInv(c))

\* A request gets its id from admit() and keeps it.
LEMMA IdsStay ==
  ASSUME DaemonInv, [DaemonNext]_allVars, NEW d \in Conns, ~AdmitConn(d)
  PROVE  Id(d)' = Id(d) /\ (Early(d)' => Early(d))
<1> DEFINE Stays == Id(d)' = Id(d) /\ (Early(d)' => Early(d))
<1>1. ConnShape /\ sched \in Scheduler /\ now \in Nat /\ ProcInv(d)
  BY DEF DaemonInv, Shapes, Bound, LeaseInv, TypeOK
<1>2. ASSUME conn'[d] = conn[d] PROVE Stays
  BY <1>2 DEF Id, Early
<1>3. ASSUME NEW c \in Conns, NEW t, Goto(c, t), t \notin {"none", "hello"} \/ Early(d)
      PROVE  Stays
  BY <1>1, <1>3 DEF Goto, Id, Early, ConnShape
<1>4. ASSUME NEW c \in Conns, AdmitConn(c) PROVE Stays
  <2>1. c # d
    BY <1>4
  <2> QED
    BY <1>1, <1>2, <1>4, <2>1 DEF AdmitConn, Goto, ConnShape
<1>5. ASSUME NEW c \in Conns, Look(c) PROVE Stays
  BY <1>1, <1>5, LookWrites DEF Id, Early, SameConn
<1>6. ASSUME NEW c \in Conns, Report(c) \/ Deliver(c) \/ Hear(c) \/ Forward(c) \/ Finish(c)
      PROVE  Stays
  BY <1>1, <1>6 DEF Report, Deliver, Hear, Forward, Finish, Id, Early, ConnShape
<1>7. ASSUME NEW c \in Conns, Notify(c) PROVE Stays
  BY <1>1, <1>7, NotifiedWrites DEF Notify, Id, Early, ConnShape
<1>8. ASSUME NEW c \in Conns,
             Refuse(c) \/ Wake(c) \/ Abandon(c) \/ Hangup(c) \/ ReleaseConn(c) \/ Regrant(c)
               \/ Poll(c)
      PROVE  Stays
  <2>1. PICK t : Goto(c, t) /\ t \notin {"none", "hello"}
    BY <1>8 DEF Refuse, Wake, Abandon, Hangup, ReleaseConn, Regrant, Poll
  <2> QED
    BY <1>3, <2>1
<1>9. ASSUME NEW c \in Conns, ClientStep(c) \/ JobExit(c) \/ Interrupt(c) \/ ClientCrash(c)
      PROVE  Stays
  <2>1. CASE Start(c)
    <3>1. CASE conn' = conn
      BY <1>2, <3>1
    <3>2. CASE Goto(c, "hello")
      <4>1. c # d => conn'[d] = conn[d]
        BY <1>1, <3>2 DEF Goto, ConnShape
      <4>2. c = d => Early(d)
        BY <1>1, <2>1 DEF Start, ProcInv, Early
      <4> QED
        BY <1>2, <1>3, <3>2, <4>1, <4>2
    <3> QED
      BY <2>1, <3>1, <3>2 DEF Start
  <2>2. CASE ~Start(c)
    <3>1. conn' = conn
      BY <1>9, <2>2
         DEF ClientStep, Withdraw, ReadReply, WaitLost, Spawn, SpawnFails, ReportGroup, Listen,
             StopJob, KillJob, Cleanup, JobExit, Interrupt, ClientCrash
    <3> QED
      BY <1>2, <3>1
  <2> QED
    BY <2>1, <2>2
<1>10. ASSUME NEW o \in Orders, Order(o) PROVE Stays
  BY <1>1, <1>10, OrderConn DEF SameConn, Id, Early
<1>11. CASE Tell
  BY <1>1, <1>11, NotifiedWrites DEF Tell, Id, Early
<1>12. CASE DaemonCrash
  BY <1>1, <1>12 DEF DaemonCrash, Open, Id, Early, ConnShape
<1>13. CASE DaemonStart \/ UNCHANGED allVars
  BY <1>13 DEF DaemonStart, allVars, Id, Early
<1> HIDE DEF Stays
<1>14. Stays
  BY <1>4, <1>5, <1>6, <1>7, <1>8, <1>9, <1>10, <1>11, <1>12, <1>13 DEF DaemonNext, TaskStep, Stays
<1> QED
  BY <1>14 DEF Stays

\* Tasks, orders and the daemon leave the processes alone, but for Finish().
LEMMA ProcStays ==
  ASSUME [DaemonNext]_allVars,
         \A c \in Conns : ~(ClientStep(c) \/ JobExit(c) \/ Interrupt(c) \/ ClientCrash(c))
                          /\ ~Finish(c)
  PROVE  proc' = proc
<1>1. ASSUME NEW c \in Conns, TaskStep(c) \/ Poll(c) PROVE proc' = proc
  BY <1>1 DEF TaskStep, AdmitConn, Look, Report, Refuse, Wake, Abandon, Deliver, Hear, Hangup,
              Forward, ReleaseConn, Regrant, Notify, Poll
<1>2. ASSUME NEW o \in Orders, Order(o) PROVE proc' = proc
  BY <1>2 DEF Order
<1>3. CASE Tell \/ DaemonCrash \/ DaemonStart \/ UNCHANGED allVars
  BY <1>3 DEF Tell, DaemonCrash, DaemonStart, allVars
<1> QED
  BY <1>1, <1>2, <1>3 DEF DaemonNext

\* A group is killed with the nested clients in it.
LEMMA KilledRuns ==
  ASSUME ProcShape, NEW c \in Conns, Inside[c] # None, SessionRuns(c), NEW x \in Conns,
         NEW p, p = Killed(proc, x),
         DOMAIN proc' = Conns,
         \A d \in Conns \ {x} : proc'[d] = p[d],
         proc'[x].kids = p[x].kids, proc'[x].at \in {p[x].at, "exited"}
  PROVE  SessionRuns(c)' /\ (Alive(c)' => Alive(c))
<1> DEFINE s == Inside[c]
<1>1. s \in Conns /\ Inside[s] = None /\ s # c /\ Inside[s] # x
  BY NestingAssumption, ClientsAssumption
<1>2. /\ p[x].at = proc[x].at /\ ~p[x].kids
      /\ \A d \in Conns \ {x} :
           /\ p[d].kids = proc[d].kids
           /\ \/ p[d] = proc[d] /\ (Inside[d] = x => ~Alive(d))
              \/ p[d].at = "exited" /\ Inside[d] = x
  BY KilledWrites
<1>3. Alive(c)' => Alive(c) /\ s # x
  <2>1. CASE c = x
    BY <1>1, <1>2, <2>1 DEF Alive
  <2>2. CASE c # x
    BY <1>1, <1>2, <2>2 DEF Alive
  <2> QED
    BY <2>1, <2>2
<1>4. CASE s = x
  BY <1>1, <1>2, <1>3, <1>4 DEF SessionRuns
<1>5. CASE s # x
  <2>1. proc'[s] = proc[s]
    BY <1>1, <1>2, <1>5
  <2> QED
    BY <1>3, <2>1 DEF SessionRuns
<1> QED
  BY <1>3, <1>4, <1>5

\* A session's client does not leave while a nested client is there, and a nested
\* client starts only while its session's client is.
LEMMA RunsStep ==
  ASSUME SessionsImmortal, DaemonInv, restarts = 0, [DaemonNext]_allVars,
         NEW c \in Conns, Inside[c] # None, SessionRuns(c)
  PROVE  SessionRuns(c)' /\ (Alive(c)' => Alive(c) \/ Start(c))
<1> DEFINE s == Inside[c]
           Goal == SessionRuns(c)' /\ (Alive(c)' => Alive(c) \/ Start(c))
           Fine(x) == /\ \A d \in Conns \ {x} : proc'[d] = proc[d]
                      /\ Alive(x)' => Alive(x) \/ (Start(x) /\ Startable(x))
                      /\ x = s => /\ proc[s].at \in Working => proc'[s].at \in Working
                                  /\ proc'[s].kids => proc[s].kids \/ proc'[s].at \in Working
<1>1. s \in Conns /\ Inside[s] = None /\ s # c /\ s \notin Mortal
  BY NestingAssumption DEF SessionsImmortal
<1>2. ProcShape /\ ProcInv(s) /\ ServedInv(s)
  BY <1>1, Parted
<1>3. proc[s].leader => proc[s].at \in Working
  BY <1>2 DEF ProcInv
<1>4. ASSUME proc' = proc PROVE Goal
  BY <1>4 DEF SessionRuns, Alive
<1>5. ASSUME NEW x \in Conns, Fine(x) PROVE Goal
  <2>1. CASE x = s
    <3>1. proc'[c] = proc[c]
      BY <1>1, <1>5, <2>1
    <3> QED
      BY <1>5, <2>1, <3>1 DEF SessionRuns, Alive
  <2>2. CASE x # s
    <3>1. proc'[s] = proc[s]
      BY <1>1, <1>5, <2>2
    <3>2. CASE x = c
      <4>1. Startable(c) => proc[s].at \in Working
        BY <1>3 DEF Startable, SessionRuns
      <4> QED
        BY <1>5, <3>1, <3>2, <4>1 DEF SessionRuns
    <3>3. CASE x # c
      <4>1. proc'[c] = proc[c]
        BY <1>5, <3>3
      <4> QED
        BY <3>1, <4>1 DEF SessionRuns, Alive
    <3> QED
      BY <3>2, <3>3
  <2> QED
    BY <2>1, <2>2
<1> HIDE DEF Goal, Fine
<1>6. ASSUME NEW x \in Conns, Finish(x) \/ KillJob(x) \/ Cleanup(x) PROVE Goal
  <2> DEFINE p == Killed(proc, x)
  <2>1. CASE proc' = p
    BY <1>2, <2>1, KilledWrites, KilledRuns DEF Goal
  <2>2. CASE proc' = [p EXCEPT ![x].at = "exited"]
    <3>1. /\ DOMAIN p = Conns /\ DOMAIN p[x] = {"at", "token", "stop", "leader", "kids"}
      BY <1>2, KilledWrites
    <3> HIDE DEF p
    <3>2. /\ DOMAIN proc' = Conns /\ \A d \in Conns \ {x} : proc'[d] = p[d]
          /\ proc'[x].kids = p[x].kids /\ proc'[x].at = "exited"
      BY <2>2, <3>1
    <3> QED
      BY <1>2, <3>2, KilledRuns DEF p, Goal
  <2> QED
    BY <1>4, <1>6, <2>1, <2>2 DEF Finish, KillJob, Cleanup
<1>7. ASSUME NEW x \in Conns, Start(x) PROVE Goal
  <2>1. /\ \A d \in Conns \ {x} : proc'[d] = proc[d]
        /\ proc[x].at = "idle" /\ proc'[x].kids = proc[x].kids /\ Startable(x)
    BY <1>2, <1>7 DEF Start, ProcTo, ProcShape
  <2>2. Fine(x)
    BY <1>7, <2>1 DEF Working, Fine
  <2> QED
    BY <1>5, <2>2
<1>8. ASSUME NEW x \in Conns, Withdraw(x) \/ ReadReply(x) \/ WaitLost(x) PROVE Goal
  <2>1. /\ \A d \in Conns \ {x} : proc'[d] = proc[d]
        /\ proc[x].at = "waiting" /\ proc'[x].kids = proc[x].kids
    BY <1>2, <1>8 DEF Withdraw, ReadReply, WaitLost, ProcTo, ProcShape
  <2>2. Alive(x)' => Alive(x)
    BY <2>1 DEF Alive
  <2>3. x = s => /\ proc[s].at \in Working => proc'[s].at \in Working
                 /\ proc'[s].kids => proc[s].kids \/ proc'[s].at \in Working
    BY <2>1 DEF Working
  <2>4. Fine(x)
    BY <2>1, <2>2, <2>3 DEF Fine
  <2> QED
    BY <1>5, <2>4
<1>9. ASSUME NEW x \in Conns, Spawn(x) \/ SpawnFails(x) PROVE Goal
  <2>1. /\ \A d \in Conns \ {x} : proc'[d] = proc[d]
        /\ proc[x].at = "spawning"
        /\ proc'[x].kids = proc[x].kids \/ proc'[x].at = "spawned"
    BY <1>2, <1>9 DEF Spawn, SpawnFails, ProcTo, ProcShape
  <2>2. Alive(x)' => Alive(x)
    BY <2>1 DEF Alive
  <2>3. x = s => /\ proc[s].at \in Working => proc'[s].at \in Working
                 /\ proc'[s].kids => proc[s].kids \/ proc'[s].at \in Working
    BY <2>1 DEF Working
  <2>4. Fine(x)
    BY <2>1, <2>2, <2>3 DEF Fine
  <2> QED
    BY <1>5, <2>4
<1>10. ASSUME NEW x \in Conns, ReportGroup(x) PROVE Goal
  <2>1. /\ \A d \in Conns \ {x} : proc'[d] = proc[d]
        /\ proc[x].at = "spawned" /\ proc'[x].kids = proc[x].kids
        /\ Open(x) => proc'[x].at = "running"
    BY <1>2, <1>10 DEF ReportGroup, ProcShape
  <2>2. x = s => Open(x)
    BY <1>2, <2>1 DEF ServedInv, Started, Open
  <2>3. Alive(x)' => Alive(x)
    BY <2>1 DEF Alive
  <2>4. x = s => /\ proc[s].at \in Working => proc'[s].at \in Working
                 /\ proc'[s].kids => proc[s].kids \/ proc'[s].at \in Working
    BY <2>1, <2>2 DEF Working
  <2>5. Fine(x)
    BY <2>1, <2>3, <2>4 DEF Fine
  <2> QED
    BY <1>5, <2>5
<1>11. ASSUME NEW x \in Conns, Listen(x) \/ JobExit(x) \/ Interrupt(x) PROVE Goal
  <2>1. /\ \A d \in Conns \ {x} : proc'[d] = proc[d]
        /\ proc'[x].at = proc[x].at /\ proc'[x].kids = proc[x].kids
    BY <1>2, <1>11 DEF Listen, JobExit, Interrupt, ProcShape
  <2>2. Alive(x)' => Alive(x)
    BY <2>1 DEF Alive
  <2>3. x = s => /\ proc[s].at \in Working => proc'[s].at \in Working
                 /\ proc'[s].kids => proc[s].kids \/ proc'[s].at \in Working
    BY <2>1 DEF Working
  <2>4. Fine(x)
    BY <2>1, <2>2, <2>3 DEF Fine
  <2> QED
    BY <1>5, <2>4
<1>12. ASSUME NEW x \in Conns, ClientCrash(x) PROVE Goal
  <2>1. /\ \A d \in Conns \ {x} : proc'[d] = proc[d]
        /\ x \in Mortal /\ Alive(x)
    BY <1>2, <1>12 DEF ClientCrash, ProcShape
  <2>2. Fine(x)
    BY <1>1, <2>1 DEF Fine
  <2> QED
    BY <1>5, <2>2
<1>13. ASSUME NEW x \in Conns, StopJob(x) PROVE Goal
  <2>1. /\ \A d \in Conns : proc'[d].kids = proc[d].kids
        /\ \A d \in Conns \ {x} : proc'[d].at = proc[d].at
        /\ proc[x].at = "running" /\ proc'[x].at = "stopping"
    BY <1>2, <1>13 DEF StopJob, ProcShape
  <2>2. Alive(c)' => Alive(c)
    BY <2>1 DEF Alive
  <2>3. proc[s].at \in Working => proc'[s].at \in Working
    BY <1>1, <2>1 DEF Working
  <2> QED
    BY <1>1, <2>1, <2>2, <2>3 DEF SessionRuns, Goal
<1> QED
  BY <1>4, <1>6, <1>7, <1>8, <1>9, <1>10, <1>11, <1>12, <1>13, ProcStays DEF ClientStep, Goal

\* A machine keeps its holder until release(), and only admit() makes a request
\* nested.
LEMMA HolderStays ==
  ASSUME DaemonInv, [DaemonNext]_allVars, ~DaemonCrash
  PROVE  /\ \A m \in Machines : sched.holders[m] # None =>
              \/ sched'.holders[m] # None /\ sched'.holders[m].id = sched.holders[m].id
              \/ \E x \in Conns : ReleaseConn(x) /\ sched.holders[m].id = Id(x)
         /\ \A d \in Conns : ~AdmitConn(d) /\ Id(d) \in NestedIds(sched') =>
              Id(d) \in NestedIds(sched)
<1> DEFINE Kept == \A m \in Machines : sched.holders[m] # None =>
                     sched'.holders[m] # None /\ sched'.holders[m].id = sched.holders[m].id
           Left == \A m \in Machines : sched.holders[m] # None =>
                     \/ sched'.holders[m] # None /\ sched'.holders[m].id = sched.holders[m].id
                     \/ \E x \in Conns : ReleaseConn(x) /\ sched.holders[m].id = Id(x)
           Same == \A d \in Conns : ~AdmitConn(d) /\ Id(d) \in NestedIds(sched') =>
                     Id(d) \in NestedIds(sched)
<1>1. ConnShape /\ Bound /\ sched \in Scheduler /\ now \in Nat
  BY DEF DaemonInv, Shapes, Bound, LeaseInv, TypeOK
<1>2. ASSUME sched'.holders = sched.holders, sched'.nested = sched.nested PROVE Kept /\ Same
  BY <1>2 DEF NestedIds
<1>3. ASSUME NEW t, t.holders = HoldersAfter(sched, now), t.nested = sched.nested,
             sched'.holders = t.holders, sched'.nested = t.nested
      PROVE  Kept /\ Same
  BY <1>3 DEF HoldersAfter, Grantable, NestedIds
<1>4. ASSUME NEW i, sched' = release(sched, i)
      PROVE  /\ \A m \in Machines : sched.holders[m] # None /\ sched.holders[m].id # i =>
                  sched'.holders[m] = sched.holders[m]
             /\ Same
  <2>1. /\ sched'.nested = {n \in sched.nested : n.id # i}
        /\ \A m \in Machines : sched'.holders[m] = IF /\ i \notin NestedIds(sched)
                                                     /\ sched.holders[m] # None
                                                     /\ sched.holders[m].id = i
                                                  THEN None ELSE sched.holders[m]
    BY <1>1, <1>4 DEF release, Scheduler
  <2> QED
    BY <2>1 DEF NestedIds
<1>5. ASSUME NEW x \in Conns, AdmitConn(x) PROVE Kept /\ Same
  <2> DEFINE token == IF Inside[x] = None THEN None ELSE proc[Inside[x]].token
  <2>1. sched' = admit(sched, Ask[x], token, now)
    BY <1>5 DEF AdmitConn
  <2>2. Admits(sched, Ask[x], token, Admission(sched, Ask[x], token), sched', now)
    BY <1>1, <2>1, AdmitWrites
  <2>3. sched'.holders = sched.holders /\ NestedIds(sched') \subseteq NestedIds(sched) \cup {sched.next_id}
    BY <2>2 DEF Admits, NestedIds
  <2>4. \A d \in Conns : Id(d) # sched.next_id
    <3>1. sched.next_id \in Nat /\ \A d \in Conns : Id(d) \in Nat /\ Id(d) < sched.next_id
      BY <1>1 DEF Bound, Id, ConnShape, Scheduler, Ids
    <3> QED
      BY <3>1
  <2> QED
    BY <2>3, <2>4
<1>6. ASSUME NEW x \in Conns, Look(x) \/ Regrant(x) PROVE Kept /\ Same
  <2> DEFINE t == grant(sched, now)
  <2>1. t.holders = HoldersAfter(sched, now) /\ t.nested = sched.nested
    BY <1>1, GrantType
  <2>2. sched'.holders = t.holders /\ sched'.nested = t.nested
    <3>1. CASE Look(x)
      BY <1>1, <3>1, LookWrites
    <3>2. CASE Regrant(x)
      BY <3>2 DEF Regrant
    <3> QED
      BY <1>6, <3>1, <3>2
  <2> HIDE DEF t
  <2> QED
    BY <1>3, <2>1, <2>2
<1>7. ASSUME NEW x \in Conns, ReleaseConn(x) PROVE Left /\ Same
  <2>1. /\ \A m \in Machines : sched.holders[m] # None /\ sched.holders[m].id # Id(x) =>
             sched'.holders[m] = sched.holders[m]
        /\ Same
    BY <1>4, <1>7 DEF ReleaseConn
  <2> QED
    BY <1>7, <2>1
<1>8. ASSUME NEW o \in Orders, Order(o) PROVE Kept /\ Same
  <2>0. sched' = Obey(o, sched)
    BY <1>8 DEF Order
  <2>1. CASE o.type = "cancel"
    <3>1. sched' = IF holds(sched, Id(o.on)) THEN sched ELSE release(sched, Id(o.on))
      BY <2>0, <2>1 DEF Obey, cancel
    <3>2. CASE holds(sched, Id(o.on))
      BY <1>2, <3>1, <3>2
    <3>3. CASE ~holds(sched, Id(o.on))
      <4>1. \A m \in Machines : sched.holders[m] # None => sched.holders[m].id # Id(o.on)
        BY <3>3 DEF holds, HeldIds, Held
      <4> QED
        BY <1>4, <3>1, <3>3, <4>1
    <3> QED
      BY <3>2, <3>3
  <2>2. CASE o.type = "reorder"
    <3>1. sched' = reorder(sched, Id(o.on), o.arg)
      BY <2>0, <2>2 DEF Obey
    <3>2. sched'.holders = sched.holders /\ sched'.nested = sched.nested
      BY <1>1, <3>1 DEF reorder, Scheduler
    <3> QED
      BY <1>2, <3>2
  <2>3. CASE o.type \notin {"cancel", "reorder"}
    <3>1. o.type \in {"pause", "resume", "reserve", "unreserve", "ci_start", "ci_stop",
                      "merge_queue", "preempt", "overruns"}
      BY <2>3, OrdersAssumption
    <3>2. OnlyFlags(sched, sched')
      BY <1>1, <2>0, <3>1, PlainOrders
    <3> QED
      BY <3>2 DEF OnlyFlags, NestedIds
  <2> QED
    BY <2>1, <2>2, <2>3
<1>9. ASSUME NEW x \in Conns,
             Report(x) \/ Refuse(x) \/ Wake(x) \/ Abandon(x) \/ Deliver(x) \/ Hear(x) \/ Hangup(x)
               \/ Forward(x) \/ Finish(x) \/ Notify(x) \/ Poll(x)
      PROVE  Kept /\ Same
  BY <1>2, <1>9 DEF Report, Refuse, Wake, Abandon, Deliver, Hear, Hangup, Forward, Finish, Notify,
                    Poll
<1>10. ASSUME NEW x \in Conns, ClientStep(x) \/ JobExit(x) \/ Interrupt(x) \/ ClientCrash(x)
       PROVE  Kept /\ Same
  BY <1>2, <1>10 DEF ClientStep, Start, Withdraw, ReadReply, WaitLost, Spawn, SpawnFails,
                     ReportGroup, Listen, StopJob, KillJob, Cleanup, JobExit, Interrupt,
                     ClientCrash, procRest
<1>11. ASSUME Tell \/ DaemonStart \/ UNCHANGED allVars PROVE Kept /\ Same
  BY <1>2, <1>11 DEF Tell, DaemonStart, allVars
<1>12. Kept => Left
  OBVIOUS
<1> HIDE DEF Kept, Left, Same
<1>13. Left /\ Same
  BY <1>5, <1>6, <1>7, <1>8, <1>9, <1>10, <1>11, <1>12 DEF DaemonNext, TaskStep
<1> QED
  BY <1>13 DEF Left, Same

\* What tells of a restart.
LEMMA NoCrash ==
  ASSUME DaemonInv, [DaemonNext]_allVars, restarts' = 0
  PROVE  restarts = 0 /\ ~DaemonCrash
<1>1. ~DaemonCrash
  <2>1. DaemonCrash => restarts \in Nat /\ restarts' = restarts + 1
    BY DEF DaemonInv, Shapes, DaemonCrash
  <2> QED
    BY <2>1
<1>2. ASSUME NEW c \in Conns, TaskStep(c) \/ Poll(c) PROVE restarts' = restarts
  BY <1>2 DEF TaskStep, AdmitConn, Look, Report, Refuse, Wake, Abandon, Deliver, Hear, Hangup,
              Forward, Finish, ReleaseConn, Regrant, Notify, Poll, taskRest
<1>3. ASSUME NEW c \in Conns, ClientStep(c) \/ JobExit(c) \/ Interrupt(c) \/ ClientCrash(c)
      PROVE  restarts' = restarts
  BY <1>3 DEF ClientStep, Start, Withdraw, ReadReply, WaitLost, Spawn, SpawnFails,
              ReportGroup, Listen, StopJob, KillJob, Cleanup, JobExit, Interrupt,
              ClientCrash, procRest
<1>4. ASSUME NEW o \in Orders, Order(o) PROVE restarts' = restarts
  BY <1>4 DEF Order
<1>5. ASSUME Tell \/ DaemonStart \/ UNCHANGED allVars PROVE restarts' = restarts
  BY <1>5 DEF Tell, DaemonStart, allVars
<1> QED
  BY <1>1, <1>2, <1>3, <1>4, <1>5 DEF DaemonNext

\* A session is told its own id as its token, or none.
LEMMA TokenStep ==
  ASSUME DaemonInv, [DaemonNext]_allVars, NEW s \in Conns, Inside[s] = None, TokenInv(s)
  PROVE  TokenInv(s)'
<1> DEFINE Told == Tokens(s)' \subseteq Tokens(s) \cup {None, Id(s)}
           Has == proc'[s].token \in {proc[s].token} \cup Tokens(s)
<1>1. ConnShape /\ ProcShape /\ WireShape /\ TaskInv(s) /\ ProcInv(s)
  BY Parted
<1>2. /\ proc[s].token \in {None, Id(s)}
      /\ Tokens(s) \subseteq {None, Id(s)}
  BY DEF TokenInv
<1>3. CASE AdmitConn(s)
  <2>1. ~Late(s) /\ proc' = proc
    BY <1>3 DEF AdmitConn, Late
  <2>2. proc[s].token = None /\ Tokens(s) = {}
    BY <1>1, <2>1 DEF ProcInv, GrantSent, Tokens
  <2>3. Tokens(s)' = {}
    <3>1. CASE wire' = wire
      BY <2>2, <3>1 DEF Tokens
    <3>2. CASE Send(s, Reply("refused"))
      <4>1. Reply("refused") \in Replies /\ Reply("refused").type # "granted"
        BY DEF Reply, Replies, Option
      <4> QED
        BY <1>1, <2>2, <3>2, <4>1, SendWrites
    <3> QED
      BY <1>3, <3>1, <3>2 DEF AdmitConn
  <2> QED
    BY <2>1, <2>2, <2>3 DEF TokenInv
<1>4. ASSUME wire'[s] = wire[s] PROVE Told
  BY <1>4 DEF Tokens
<1>5. ASSUME proc'[s].token = proc[s].token PROVE Has
  BY <1>5
<1>6. ASSUME NEW x \in Conns, NEW r \in Replies, Send(x, r), r.type # "granted" PROVE Told
  <2>1. CASE x = s
    BY <1>1, <1>6, <2>1, SendWrites
  <2>2. CASE x # s
    BY <1>1, <1>4, <1>6, <2>2, SendWrites
  <2> QED
    BY <2>1, <2>2
<1>7. ASSUME NEW x \in Conns, AdmitConn(x) \/ Report(x) \/ Refuse(x) PROVE Told /\ Has
  <2>1. \A t \in {"queued", "refused"} : Reply(t) \in Replies /\ Reply(t).type # "granted"
    BY DEF Reply, Replies, Option
  <2>2. /\ \/ wire' = wire
           \/ \E t \in {"queued", "refused"} : Send(x, Reply(t))
        /\ proc' = proc
    BY <1>7 DEF AdmitConn, Report, Refuse
  <2> QED
    BY <1>4, <1>5, <1>6, <2>1, <2>2
<1>8. ASSUME NEW x \in Conns, Forward(x) PROVE Told /\ Has
  <2>1. TaskInv(x) /\ conn[x].task = "serve" /\ conn[x].mailbox # <<>>
    BY <1>8 DEF DaemonInv, Forward
  <2>2. conn[x].mailbox \in Seq(Mails)
    BY <1>1, <2>1 DEF ConnShape, TaskInv, Option
  <2>3. Head(conn[x].mailbox) \in Mails
    BY <2>1, <2>2, TailFacts
  <2> DEFINE r == Reply(Head(conn[x].mailbox))
  <2>4. r \in Replies /\ r.type # "granted"
    BY <2>3 DEF Mails, Reply, Replies, Option
  <2>5. Send(x, r) /\ proc' = proc
    BY <1>8 DEF Forward
  <2> HIDE DEF r
  <2> QED
    BY <1>5, <1>6, <2>4, <2>5
<1>9. ASSUME NEW x \in Conns, Deliver(x) PROVE Told /\ Has
  <2> DEFINE r == [type |-> "granted",
                   token |-> CASE Id(x) \in NestedIds(sched) -> proc[Inside[x]].token
                               [] Ask[x].session -> Id(x)
                               [] OTHER -> None]
  <2>1. Send(x, r) /\ proc' = proc
    BY <1>9 DEF Deliver
  <2>2. CASE x # s
    <3>1. wire'[s] = wire[s]
      <4> HIDE DEF r
      <4> QED
        BY <1>1, <2>1, <2>2 DEF Send, WireShape
    <3> QED
      BY <1>4, <1>5, <2>1, <3>1
  <2>3. CASE x = s
    <3>1. Id(s) \notin NestedIds(sched)
      BY DEF DaemonInv, Bound
    <3>2. holds(sched, Id(s))
      BY <1>1, <1>9, <2>3 DEF TaskInv, Deliver
    <3>3. Id(s) \in Ids
      BY <3>2, StatusKnown DEF DaemonInv, Ids
    <3>4. r.token \in {None, Id(s)} /\ r \in Replies
      BY <2>3, <3>1, <3>3 DEF Replies, Option
    <3> HIDE DEF r
    <3> QED
      BY <1>1, <1>5, <2>1, <2>3, <3>4, SendWrites
  <2> QED
    BY <2>2, <2>3
<1>10. ASSUME NEW x \in Conns, Hear(x) PROVE Told /\ Has
  <2>1. Tokens(x)' = Tokens(x) /\ (x # s => wire'[s] = wire[s]) /\ proc' = proc
    BY <1>1, <1>10, UpReads DEF Hear
  <2> QED
    BY <1>4, <1>5, <2>1
<1>11. ASSUME NEW x \in Conns, ReadReply(x) \/ Listen(x) PROVE Told /\ Has
  <2>1. Told
    <3>1. CASE wire' = wire
      BY <1>4, <3>1
    <3>2. CASE wire[x].down # <<>> /\ wire' = [wire EXCEPT ![x].down = Tail(@)]
      <4>1. Tokens(x)' \subseteq Tokens(x) /\ (x # s => wire'[s] = wire[s])
        BY <1>1, <3>2, DownReads
      <4> QED
        BY <1>4, <4>1
    <3> QED
      BY <1>11, <3>1, <3>2 DEF ReadReply, Listen
  <2>2. CASE proc'[s].token = proc[s].token
    BY <1>5, <2>1, <2>2
  <2>3. CASE proc'[s].token # proc[s].token
    <3>1. /\ x = s /\ wire[s].down # <<>> /\ Head(wire[s].down).type = "granted"
          /\ proc'[s].token = Head(wire[s].down).token
          /\ wire' = [wire EXCEPT ![s].down = Tail(@)]
      BY <1>1, <1>11, <2>3 DEF ReadReply, Listen, ProcTo, ProcShape
    <3>2. Head(wire[s].down).token \in Tokens(s)
      BY <1>1, <3>1, DownReads
    <3> QED
      BY <2>1, <3>1, <3>2
  <2> QED
    BY <2>2, <2>3
<1>12. ASSUME NEW x \in Conns, NEW e \in {"spawned", "done"}, Tells(x, e) PROVE Told
  <2>1. wire'[x].down = wire[x].down /\ (x # s => wire'[s] = wire[s])
    BY <1>1, <1>12 DEF Tells, WireShape
  <2> QED
    BY <1>4, <2>1 DEF Tokens
<1>13. ASSUME NEW x \in Conns, SpawnFails(x) \/ ReportGroup(x) PROVE Told /\ Has
  <2>1. \E e \in {"spawned", "done"} : Tells(x, e)
    BY <1>13 DEF SpawnFails, ReportGroup
  <2>2. proc'[s].token = proc[s].token
    BY <1>1, <1>13 DEF SpawnFails, ReportGroup, ProcTo, ProcShape
  <2> QED
    BY <1>5, <1>12, <2>1, <2>2
<1>14. ASSUME NEW x \in Conns, Finish(x) \/ KillJob(x) \/ Cleanup(x) PROVE Told /\ Has
  <2>1. Killed(proc, x)[s].token = proc[s].token /\ DOMAIN Killed(proc, x) = Conns
    BY <1>1, KilledWrites
  <2>2. proc'[s].token = proc[s].token
    <3>1. DOMAIN Killed(proc, x)[x] = {"at", "token", "stop", "leader", "kids"}
      BY <1>1, KilledWrites
    <3> QED
      BY <1>14, <2>1, <3>1 DEF Finish, KillJob, Cleanup
  <2>3. wire' = wire \/ Tells(x, "done")
    BY <1>14 DEF Finish, KillJob, Cleanup
  <2> QED
    BY <1>4, <1>5, <1>12, <2>2, <2>3
<1>15. ASSUME NEW x \in Conns,
              Start(x) \/ Withdraw(x) \/ WaitLost(x) \/ Spawn(x) \/ StopJob(x)
                \/ JobExit(x) \/ Interrupt(x) \/ ClientCrash(x)
       PROVE  Told /\ Has
  <2>1. wire' = wire
    BY <1>15 DEF Start, Withdraw, WaitLost, Spawn, StopJob, JobExit, Interrupt, ClientCrash
  <2>2. proc'[s].token = proc[s].token
    BY <1>1, <1>15 DEF Start, Withdraw, WaitLost, Spawn, StopJob, JobExit, Interrupt, ClientCrash,
                       ProcTo, ProcShape
  <2> QED
    BY <1>4, <1>5, <2>1, <2>2
<1>16. ASSUME NEW x \in Conns,
              Look(x) \/ Wake(x) \/ Abandon(x) \/ Hangup(x) \/ ReleaseConn(x) \/ Regrant(x)
                \/ Notify(x) \/ Poll(x)
       PROVE  Told /\ Has
  <2>1. wire' = wire /\ proc' = proc
    BY <1>16 DEF Look, Wake, Abandon, Hangup, ReleaseConn, Regrant, Notify, Poll
  <2> QED
    BY <1>4, <1>5, <2>1
<1>17. ASSUME NEW o \in Orders, Order(o) PROVE Told /\ Has
  BY <1>4, <1>5, <1>17 DEF Order
<1>18. ASSUME Tell \/ DaemonCrash \/ DaemonStart \/ UNCHANGED allVars PROVE Told /\ Has
  BY <1>4, <1>5, <1>18 DEF Tell, DaemonCrash, DaemonStart, allVars
<1> HIDE DEF Told, Has
<1>19. Told /\ Has
  BY <1>7, <1>8, <1>9, <1>10, <1>11, <1>13, <1>14, <1>15, <1>16, <1>17, <1>18
     DEF DaemonNext, TaskStep, ClientStep
<1>20. CASE ~AdmitConn(s)
  <2>1. Id(s)' = Id(s)
    BY <1>20, IdsStay
  <2> QED
    BY <1>2, <1>19, <2>1 DEF TokenInv, Told, Has
<1> QED
  BY <1>3, <1>20

\* A nested client's machine stays its session's: the session's task serves until
\* the session's client has left.
LEMMA SessionStep ==
  ASSUME SessionsImmortal, SessionsInv, [DaemonNext]_allVars, restarts' = 0,
         NEW c \in Conns
  PROVE  SessionInv(c)'
<1> SUFFICES ASSUME Inside[c] # None PROVE SessionInv(c)'
  BY DEF SessionInv
<1> DEFINE s == Inside[c]
           m == Machine(c)
<1>1. DaemonInv /\ restarts = 0 /\ ~DaemonCrash /\ SessionInv(c) /\ TokenInv(s) /\ s # c
      /\ s \in Conns /\ Inside[s] = None
  BY NoCrash, NestingAssumption DEF SessionsInv
<1>2. SessionRuns(c)' /\ (Alive(c)' => Alive(c) \/ Start(c))
  BY <1>1, RunsStep DEF SessionInv
<1>3. Alive(c) => conn[s].task = "serve"
  BY <1>1, Parted DEF SessionInv, SessionRuns, ServedInv, Working, Started
<1>4. Bound /\ sched \in Scheduler /\ sched.next_id \in Nat /\ ProcShape
  BY <1>1 DEF DaemonInv, Shapes, Bound, LeaseInv, TypeOK, Scheduler, Ids
<1>5. m' = m
  BY DEF Machine
<1>6. CASE AdmitConn(c)
  <2> DEFINE token == proc[s].token
             answer == Admission(sched, Ask[c], token)
             new == sched.next_id
  <2>1. /\ conn[c].task = "hello" /\ proc' = proc /\ sched' = admit(sched, Ask[c], token, now)
        /\ \/ answer \in {"queued", "nested"} /\ conn' = [conn EXCEPT ![c].id = new,
                 ![c].task = IF answer = "queued" THEN "look" ELSE "granted"]
           \/ answer \in {"preempted", "refused"} /\ Goto(c, "ended")
    BY <1>6 DEF AdmitConn
  <2>2. Admits(sched, Ask[c], token, answer, sched', now)
    BY <1>4, <2>1, AdmitWrites
  <2> HIDE DEF token, answer, new
  <2>3. /\ conn'[c].task \notin {"none", "hello"} /\ Id(s)' = Id(s)
        /\ Id(c)' = IF answer \in {"queued", "nested"} THEN new ELSE Id(c)
    <3>1. ConnShape
      BY <1>1, Parted
    <3> QED
      BY <1>1, <2>1, <3>1 DEF ConnShape, Goto, Id
  <2>4. Id(c) = 0
    BY <1>1, <2>1 DEF SessionInv, Early
  <2>5. new \notin NestedIds(sched) /\ 0 \notin NestedIds(sched)
    <3>1. \A i \in NestedIds(sched) : i \in Nat /\ i # 0 /\ i < sched.next_id
      BY <1>4, StatusKnown DEF holds
    <3> QED
      BY <1>4, <3>1 DEF new
  <2>6. Id(c)' \in NestedIds(sched') => answer = "nested"
    BY <2>2, <2>3, <2>4, <2>5 DEF Admits, NestedIds
  <2>7. answer = "nested" => m \in Held(sched') /\ sched'.holders[m].id = Id(s)
    <3>1. SUFFICES ASSUME answer = "nested"
                   PROVE  m \in Held(sched') /\ sched'.holders[m].id = Id(s)
      OBVIOUS
    <3>2. /\ m \in Machines /\ sched.holders[m] # None /\ token # None
          /\ sched.holders[m].token = token /\ sched'.holders = sched.holders
      BY <2>2, <3>1 DEF Admits, Machine
    <3>3. sched.holders[m].token = sched.holders[m].id
      BY <1>4, <3>2 DEF Bound, Held
    <3>4. token = Id(s)
      BY <1>1, <3>2 DEF TokenInv, token
    <3> QED
      BY <3>2, <3>3, <3>4 DEF Held
  <2> QED
    BY <1>2, <1>5, <2>3, <2>6, <2>7 DEF SessionInv, Early
<1>7. CASE ~AdmitConn(c)
  <2>1. Id(c)' = Id(c) /\ (Early(c)' => Early(c))
    BY <1>1, <1>7, IdsStay
  <2>2. ASSUME Alive(c)', Id(c) \in NestedIds(sched')
        PROVE  m \in Held(sched') /\ sched'.holders[m].id = Id(s)'
    <3>1. Id(c) \in NestedIds(sched)
      BY <1>1, <1>7, <2>2, HolderStays
    <3>2. Id(c) # 0
      BY <1>4, <3>1, StatusKnown DEF holds
    <3>3. ~Start(c)
      <4>1. Start(c) => Early(c)
        BY <1>1, Parted DEF Start, ProcInv, Early
      <4> QED
        BY <1>1, <3>2, <4>1 DEF SessionInv
    <3>4. Alive(c)
      BY <1>2, <2>2, <3>3
    <3>5. m \in Machines /\ sched.holders[m] # None /\ sched.holders[m].id = Id(s)
      BY <1>1, <3>1, <3>4 DEF SessionInv, Held
    <3>6. conn[s].task = "serve" /\ ~AdmitConn(s) /\ Id(s)' = Id(s)
      <4>1. conn[s].task = "serve"
        BY <1>3, <3>4
      <4>2. ~AdmitConn(s)
        BY <4>1 DEF AdmitConn
      <4> QED
        BY <1>1, <4>1, <4>2, IdsStay
    <3>7. Id(s) # 0
      <4>1. holds(sched, Id(s))
        BY <1>1, <3>6, Parted DEF TaskInv
      <4> QED
        BY <1>4, <4>1, StatusKnown
    <3>8. ASSUME NEW x \in Conns, ReleaseConn(x), sched.holders[m].id = Id(x) PROVE FALSE
      <4>1. x = s
        BY <1>1, <1>4, <3>5, <3>7, <3>8 DEF Bound
      <4> QED
        BY <3>6, <3>8, <4>1 DEF ReleaseConn
    <3> QED
      BY <1>1, <3>5, <3>6, <3>8, HolderStays DEF Held
  <2> QED
    BY <1>1, <1>2, <1>5, <2>1, <2>2 DEF SessionInv
<1> QED
  BY <1>6, <1>7

\* Two jobs that run on one machine run under one holder's lease, so in one
\* session.
LEMMA SessionsExclude ==
  ASSUME SessionsInv, restarts = 0 PROVE ExclusiveJobs
<1>1. DaemonInv /\ Bound /\ \A c \in Conns : SessionInv(c)
  BY DEF SessionsInv, DaemonInv
<1> DEFINE Under(c, x) == /\ x \in Conns /\ Machine(c) \in Held(sched)
                          /\ sched.holders[Machine(c)].id = Id(x) /\ Id(x) # 0
                          /\ x = c \/ (x = Inside[c] /\ Inside[c] # None)
<1>2. ASSUME NEW c \in Conns, proc[c].leader PROVE \E x \in Conns : Under(c, x)
  <2>1. proc[c].at \in Working /\ conn[c].task = "serve" /\ holds(sched, Id(c))
    BY <1>1, <1>2, Parted DEF ProcInv, ServedInv, TaskInv, Working, Started
  <2>2. Id(c) # 0
    BY <1>1, <2>1, StatusKnown
  <2>3. CASE Id(c) \in HeldIds(sched)
    <3>1. PICK n \in Held(sched) : sched.holders[n].id = Id(c)
      BY <2>3 DEF HeldIds
    <3>2. n = Machine(c)
      BY <1>1, <3>1 DEF Bound
    <3> QED
      BY <2>2, <3>1, <3>2
  <2>4. CASE Id(c) \in NestedIds(sched)
    <3>1. Inside[c] # None /\ Inside[c] \in Conns /\ Alive(c)
      BY <1>1, <2>1, <2>4, NestingAssumption DEF Bound, Alive, Working
    <3>2. Machine(c) \in Held(sched) /\ sched.holders[Machine(c)].id = Id(Inside[c])
      BY <1>1, <2>4, <3>1 DEF SessionInv
    <3>3. Id(Inside[c]) # 0
      BY <1>1, <3>2, StatusKnown DEF holds, HeldIds
    <3> QED
      BY <3>1, <3>2, <3>3
  <2> QED
    BY <2>1, <2>3, <2>4 DEF holds
<1>3. SUFFICES ASSUME NEW c \in Conns, NEW d \in Conns, proc[c].leader, proc[d].leader,
                      Machine(c) = Machine(d)
               PROVE  Session(c) = Session(d)
  BY DEF ExclusiveJobs
<1>4. PICK x \in Conns : Under(c, x)
  BY <1>2, <1>3
<1>5. PICK y \in Conns : Under(d, y)
  BY <1>2, <1>3
<1>6. x = y
  BY <1>1, <1>3, <1>4, <1>5 DEF Bound
<1>7. \A e \in Conns : Inside[e] # None => Inside[Inside[e]] = None
  BY NestingAssumption
<1> QED
  BY <1>4, <1>5, <1>6, <1>7 DEF Session

\* While the daemon lives and sessions' clients are not killed, the jobs of two
\* sessions never run on one machine at a time: whoever runs there is under the
\* machine's one holder, or nested in it (admit(), grant(), release() and the
\* tokens lease() hands out).
THEOREM JobsExclude ==
  ASSUME SessionsImmortal
  PROVE  DaemonSpec => [](restarts = 0 => ExclusiveJobs)
<1>1. DaemonInit => SessionsInv
  <2>1. SUFFICES ASSUME DaemonInit PROVE SessionsInv
    OBVIOUS
  <2>2. DaemonInv
    BY <2>1, DaemonStarts
  <2>3. \A c \in Conns :
          /\ conn[c].id = 0
          /\ proc[c] = [at |-> "idle", token |-> None, stop |-> FALSE,
                        leader |-> FALSE, kids |-> FALSE]
          /\ wire[c] = [down |-> <<>>, up |-> <<>>]
    BY <2>1 DEF DaemonInit
  <2>4. ASSUME NEW c \in Conns PROVE TokenInv(c) /\ SessionInv(c)
    <3>1. DOMAIN wire[c].down = {}
      BY <2>3
    <3>2. TokenInv(c)
      BY <2>3, <3>1 DEF TokenInv, Tokens
    <3>3. SessionInv(c)
      BY <2>3, NestingAssumption DEF SessionInv, SessionRuns, Alive, Id
    <3> QED
      BY <3>2, <3>3
  <2> QED
    BY <2>2, <2>4 DEF SessionsInv
<1>2. SessionsInv /\ [DaemonNext]_allVars => SessionsInv'
  <2>1. SUFFICES ASSUME SessionsInv, [DaemonNext]_allVars PROVE SessionsInv'
    OBVIOUS
  <2>2. DaemonInv'
    BY <2>1, DaemonStep DEF SessionsInv
  <2>3. ASSUME restarts' = 0, NEW c \in Conns PROVE TokenInv(c)' /\ SessionInv(c)'
    <3>1. restarts = 0
      BY <2>1, <2>3, NoCrash DEF SessionsInv
    <3>2. TokenInv(c)'
      <4>1. CASE Inside[c] = None
        BY <2>1, <3>1, <4>1, TokenStep DEF SessionsInv
      <4>2. CASE Inside[c] # None
        BY <4>2 DEF TokenInv
      <4> QED
        BY <4>1, <4>2
    <3>3. SessionInv(c)'
      BY <2>1, <2>3, SessionStep
    <3> QED
      BY <3>2, <3>3
  <2> QED
    BY <2>2, <2>3 DEF SessionsInv
<1>3. SessionsInv => (restarts = 0 => ExclusiveJobs)
  BY SessionsExclude
<1> QED
  BY <1>1, <1>2, <1>3, PTL DEF DaemonSpec
-----------------------------------------------------------------------------
(* Nothing waits for the poll *)

Waits(c) == conn[c].task \in {"report", "parked"}

\* Somebody is going to look at the queue, grant, or wake those who wait.
Notifying == telling \/ \E d \in Conns : conn[d].task = "notify"
Stirs(d) == conn[d].task \in {"look", "leave", "release", "regrant", "notify"}
Stirring == telling \/ \E d \in Conns : Stirs(d)

\* While a machine could be granted, all that wait are woken or somebody stirs;
\* and so is one whose grant was made by another, or a notification is to come.
IdleInv ==
  /\ Grantable(sched, now) # {} => Stirring \/ \A c \in Conns : Waits(c) => conn[c].woken
  /\ \A c \in Conns : Waits(c) /\ Unclaimed(sched, Id(c)) # {} => conn[c].woken \/ Notifying

\* A step that loses no notification, and after which somebody stirs or no
\* machine has become grantable.
LEMMA IdleKeeps ==
  ASSUME IdleInv,
         \A d \in Conns : Waits(d)' =>
           /\ Waits(d) /\ (conn[d].woken => conn'[d].woken)
           /\ Unclaimed(sched, Id(d))' \subseteq Unclaimed(sched, Id(d)),
         Notifying => Notifying',
         \/ Stirring'
         \/ ~Stirring /\ (Grantable(sched, now)' # {} => Grantable(sched, now) # {})
  PROVE  IdleInv'
<1>1. Grantable(sched, now)' # {} => Stirring' \/ \A c \in Conns : Waits(c)' => conn'[c].woken
  BY DEF IdleInv
<1>2. ASSUME NEW c \in Conns, Waits(c)', Unclaimed(sched, Id(c))' # {}
      PROVE  conn'[c].woken \/ Notifying'
  BY <1>2 DEF IdleInv
<1> QED
  BY <1>1, <1>2 DEF IdleInv

\* A step of one task that leaves the scheduler alone and does not begin to wait.
LEMMA IdleRests ==
  ASSUME IdleInv, sched' = sched, now' = now, telling' = telling, NEW c \in Conns,
         \A d \in Conns \ {c} : conn'[d] = conn[d],
         conn'[c].id = conn[c].id, conn[c].woken => conn'[c].woken,
         Waits(c)' => Waits(c),
         conn[c].task # "notify", Stirs(c) => Stirs(c)'
  PROVE  IdleInv'
<1>1. \A d \in Conns : Waits(d)' =>
        /\ Waits(d) /\ (conn[d].woken => conn'[d].woken)
        /\ Unclaimed(sched, Id(d))' \subseteq Unclaimed(sched, Id(d))
  BY DEF Waits, Unclaimed, Id
<1>2. Notifying => Notifying'
  BY DEF Notifying
<1>3. Stirring => Stirring'
  BY DEF Stirring, Stirs
<1>4. Grantable(sched, now)' = Grantable(sched, now)
  OBVIOUS
<1> QED
  BY <1>1, <1>2, <1>3, <1>4, IdleKeeps

\* Once all that wait are woken, or nobody does.
LEMMA IdleWoken ==
  ASSUME \A d \in Conns : Waits(d)' => conn'[d].woken
  PROVE  IdleInv'
BY DEF IdleInv

\* The order of a machine's requests depends on these and the merge queue only.
LEMMA OrderDepends ==
  ASSUME NEW s, NEW t, NEW m, Queue(t, m) = Queue(s, m), t.merge_queue = s.merge_queue
  PROVE  order(t, m) = order(s, m)
<1>1. SortedAutomatic(t, m) = SortedAutomatic(s, m)
  <2>1. Automatic(t, m) = Automatic(s, m)
    BY DEF Automatic
  <2> QED
    BY <2>1 DEF SortedAutomatic
<1>2. SortedManual(t, m) = SortedManual(s, m)
  <2>1. Manual(t, m) = Manual(s, m)
    BY DEF Manual
  <2> QED
    BY <2>1 DEF SortedManual
<1> QED
  BY <1>1, <1>2 DEF order

\* So does the request that is next.
LEMMA FirstDepends ==
  ASSUME NEW s, NEW t, NEW m, NEW time, Queue(t, m) = Queue(s, m),
         t.merge_queue = s.merge_queue, t.reserved[m] = s.reserved[m]
  PROVE  First(t, m, time) = First(s, m, time)
<1>1. order(t, m) = order(s, m)
  BY OrderDepends
<1>2. Eligible(t, m, time) = Eligible(s, m, time)
  BY DEF Eligible
<1> QED
  BY <1>1, <1>2 DEF First

\* Calls that change nothing of this leave the machines as grantable as before.
LEMMA GrantableDepends ==
  ASSUME NEW s, NEW t, NEW time, t.waiting = s.waiting, t.merge_queue = s.merge_queue,
         t.reserved = s.reserved, t.paused = s.paused,
         \A m \in Machines : t.holders[m] = None <=> s.holders[m] = None
  PROVE  Grantable(t, time) = Grantable(s, time)
<1>1. \A m \in Machines : First(t, m, time) = First(s, m, time)
  BY FirstDepends DEF Queue
<1> QED
  BY <1>1 DEF Grantable

\* grant() leaves no machine that could be granted.
LEMMA NothingLeft ==
  ASSUME NEW s \in Scheduler, NEW time \in Nat
  PROVE  Grantable(grant(s, time), time) = {}
<1> DEFINE t == grant(s, time)
<1>1. /\ t.waiting = s.waiting \ Winners(s, time) /\ t.holders = HoldersAfter(s, time)
      /\ t \in Scheduler
  BY GrantType
<1>2. t.merge_queue = s.merge_queue /\ t.reserved = s.reserved /\ t.paused = s.paused
  <2> DEFINE w == s.waiting \ Winners(s, time)
             h == HoldersAfter(s, time)
             u == s.unclaimed \cup GrantsMade(s, time)
  <2>1. t = [s EXCEPT !.waiting = w, !.holders = h, !.unclaimed = u]
    BY GrantFields
  <2> HIDE DEF t, w, h, u
  <2> QED
    BY <2>1 DEF Scheduler
<1>3. SUFFICES ASSUME NEW m \in Grantable(t, time) PROVE FALSE
  OBVIOUS
<1>4. /\ m \in Machines /\ t.holders[m] = None /\ m \notin t.paused
      /\ First(t, m, time) # {}
  BY DEF Grantable
<1>5. m \notin Grantable(s, time)
  <2>1. SUFFICES ASSUME m \in Grantable(s, time) PROVE FALSE
    OBVIOUS
  <2>2. Winner(s, m, time) \in Waiting
    BY <2>1, WinnerWaits DEF Scheduler
  <2>3. AsHolder(Winner(s, m, time), time) \in Holder
    BY <2>2 DEF AsHolder, Holder, Waiting, SessionToken, Option
  <2>4. t.holders[m] = AsHolder(Winner(s, m, time), time)
    BY <1>1, <1>4, <2>1 DEF HoldersAfter
  <2> QED
    BY <1>4, <2>3, <2>4, NoneAssumption
<1>6. Queue(t, m) = Queue(s, m)
  <2>1. \A w \in Winners(s, time) : w.machine # m
    BY <1>5, WinnerWaits DEF Winners
  <2> QED
    BY <1>1, <2>1 DEF Queue
<1>7. First(s, m, time) = First(t, m, time)
  BY <1>2, <1>6, FirstDepends
<1>8. s.holders[m] = None
  BY <1>1, <1>4, <1>5 DEF HoldersAfter
<1> QED
  BY <1>2, <1>4, <1>5, <1>7, <1>8 DEF Grantable


\* Steps of a task by itself and of clients.
LEMMA TaskRests ==
  ASSUME IdleInv, ConnShape, NEW c \in Conns,
         \/ Report(c) \/ Refuse(c) \/ Wake(c) \/ Poll(c) \/ Abandon(c) \/ Deliver(c)
         \/ Hear(c) \/ Hangup(c) \/ Forward(c) \/ Finish(c)
  PROVE  IdleInv'
<1> DEFINE Rests == /\ sched' = sched /\ now' = now /\ telling' = telling
                    /\ \A d \in Conns \ {c} : conn'[d] = conn[d]
                    /\ conn'[c].id = conn[c].id /\ conn'[c].woken = conn[c].woken
                    /\ Waits(c)' => Waits(c)
                    /\ conn[c].task # "notify" /\ (Stirs(c) => Stirs(c)')
<1>1. ASSUME NEW t, Goto(c, t)
      PROVE  /\ \A d \in Conns \ {c} : conn'[d] = conn[d]
             /\ conn'[c].id = conn[c].id /\ conn'[c].woken = conn[c].woken
             /\ conn'[c].task = t
  BY <1>1 DEF ConnShape, Goto
<1>2. CASE Report(c)
  <2>1. Rests
    BY <1>2 DEF Report, ConnShape, taskRest, Waits, Stirs
  <2> QED
    BY <2>1, IdleRests
<1>3. CASE Refuse(c)
  <2>1. Rests
    BY <1>1, <1>3 DEF Refuse, taskRest, Waits, Stirs
  <2> QED
    BY <2>1, IdleRests
<1>4. CASE Wake(c) \/ Poll(c) \/ Abandon(c)
  <2>1. Rests
    BY <1>1, <1>4 DEF Wake, Poll, Abandon, taskRest, Waits, Stirs
  <2> QED
    BY <2>1, IdleRests
<1>5. CASE Deliver(c)
  <2>1. Rests
    BY <1>5 DEF Deliver, ConnShape, taskRest, Waits, Stirs
  <2> QED
    BY <2>1, IdleRests
<1>6. CASE Hear(c)
  <2>1. Rests
    BY <1>6 DEF Hear, ConnShape, taskRest, Waits, Stirs
  <2> QED
    BY <2>1, IdleRests
<1>7. CASE Hangup(c)
  <2>1. Rests
    BY <1>1, <1>7 DEF Hangup, taskRest, Waits, Stirs
  <2> QED
    BY <2>1, IdleRests
<1>8. CASE Forward(c)
  <2>1. Rests
    BY <1>8 DEF Forward, ConnShape, taskRest, Waits, Stirs
  <2> QED
    BY <2>1, IdleRests
<1>9. CASE Finish(c)
  <2>1. Rests
    BY <1>9 DEF Finish, ConnShape, taskRest, Waits, Stirs
  <2> QED
    BY <2>1, IdleRests
<1> QED
  BY <1>2, <1>3, <1>4, <1>5, <1>6, <1>7, <1>8, <1>9

LEMMA ClientRests ==
  ASSUME IdleInv, DaemonInv, NEW c \in Conns,
         ClientStep(c) \/ JobExit(c) \/ Interrupt(c) \/ ClientCrash(c)
  PROVE  IdleInv'
<1>1. /\ UNCHANGED procRest
      /\ \/ conn' = conn
         \/ Start(c) /\ Goto(c, "hello")
  BY DEF ClientStep, JobExit, Interrupt, ClientCrash, Start, Withdraw, ReadReply, WaitLost,
         Spawn, SpawnFails, ReportGroup, Listen, StopJob, KillJob, Cleanup
<1>2. sched' = sched /\ now' = now /\ telling' = telling
  BY <1>1 DEF procRest
<1>3. CASE conn' = conn
  BY <1>2, <1>3, IdleKeeps DEF Waits, Unclaimed, Id, Notifying, Stirring, Stirs
<1>4. CASE Start(c) /\ Goto(c, "hello")
  <2>1. ConnShape /\ conn[c].task = "none"
    BY <1>4, Parted DEF Start, ProcInv
  <2>2. /\ \A d \in Conns \ {c} : conn'[d] = conn[d]
        /\ conn'[c].id = conn[c].id /\ conn'[c].woken = conn[c].woken
        /\ conn'[c].task = "hello"
    BY <1>4, <2>1 DEF ConnShape, Goto
  <2> QED
    BY <1>2, <2>1, <2>2, IdleRests DEF Waits, Stirs
<1> QED
  BY <1>1, <1>3, <1>4

\* lease(): a queued newcomer is about to look at the queue.
LEMMA AdmitConnIdle ==
  ASSUME IdleInv, DaemonInv, NEW c \in Conns, AdmitConn(c)
  PROVE  IdleInv'
<1> DEFINE token == IF Inside[c] = None THEN None ELSE proc[Inside[c]].token
           answer == Admission(sched, Ask[c], token)
<1>1. ConnShape /\ sched \in Scheduler
  BY DEF DaemonInv, Shapes, Bound, LeaseInv, TypeOK
<1>2. /\ conn[c].task = "hello" /\ sched' = admit(sched, Ask[c], token, now)
      /\ now' = now /\ telling' = telling
  BY DEF AdmitConn, taskRest
<1>3. /\ \A d \in Conns \ {c} : conn'[d] = conn[d]
      /\ \/ answer = "queued" /\ conn'[c].task = "look"
         \/ answer # "queued" /\ conn'[c].task \in {"granted", "ended"}
  BY <1>1 DEF AdmitConn, ConnShape, Goto
<1>4. /\ sched'.unclaimed = sched.unclaimed /\ sched'.holders = sched.holders
      /\ answer # "queued" => sched'.waiting = sched.waiting
  <2>1. Admits(sched, Ask[c], token, answer, sched', now)
    BY <1>1, <1>2, AdmitWrites
  <2> QED
    BY <2>1 DEF Admits
<1>5. /\ sched'.merge_queue = sched.merge_queue /\ sched'.reserved = sched.reserved
      /\ sched'.paused = sched.paused
  BY <1>1, <1>2 DEF admit, Scheduler
<1>6. \A d \in Conns : Waits(d)' =>
        /\ Waits(d) /\ (conn[d].woken => conn'[d].woken)
        /\ Unclaimed(sched, Id(d))' \subseteq Unclaimed(sched, Id(d))
  BY <1>3, <1>4 DEF Waits, Unclaimed, Id
<1>7. Notifying => Notifying'
  BY <1>2, <1>3 DEF Notifying
<1>8. Stirring => Stirring'
  BY <1>2, <1>3 DEF Stirring, Stirs
<1>9. CASE answer = "queued"
  <2>1. Stirring'
    BY <1>3, <1>9 DEF Stirring, Stirs
  <2> QED
    BY <1>6, <1>7, <2>1, IdleKeeps
<1>10. CASE answer # "queued"
  <2>1. Grantable(sched, now)' = Grantable(sched, now)
    BY <1>2, <1>4, <1>5, <1>10, GrantableDepends
  <2> QED
    BY <1>6, <1>7, <1>8, <2>1, IdleKeeps
<1> QED
  BY <1>9, <1>10

\* What wait_for_grant() leaves of the notifications.
LEMMA LookWakes ==
  ASSUME ConnShape, NEW c \in Conns, Look(c)
  PROVE  LET s == grant(sched, now) IN
         /\ sched' \in {s, claim(s, Id(c))} /\ telling' = telling
         /\ conn'[c].task \in {"parked", "report"} => Unclaimed(s, Id(c)) = {}
         /\ conn'[c].task # "notify"
         /\ \A d \in Conns \ {c} :
              /\ conn'[d].task = conn[d].task /\ conn'[d].id = conn[d].id
              /\ conn[d].woken => conn'[d].woken
              /\ Waits(d) /\ HeldIds(s) \ (HeldIds(sched) \cup {Id(c)}) # {} => conn'[d].woken
<1> DEFINE s == grant(sched, now)
           i == Id(c)
           others == HeldIds(s) \ (HeldIds(sched) \cup {i}) # {}
           w == CHOOSE w \in s.waiting : w.id = i
           holder == s.holders[Machine(c)]
           seen == <<position(s, w), IF holder = None THEN None ELSE holder.id>>
           looking == IF others THEN Notified(conn) ELSE conn
           self == [looking EXCEPT ![c].woken = others]
<1>1. /\ DOMAIN looking = Conns
      /\ \A d \in Conns :
           /\ DOMAIN looking[d] = DOMAIN conn[d]
           /\ looking[d].task = conn[d].task /\ looking[d].id = conn[d].id
           /\ conn[d].woken => looking[d].woken
           /\ Waits(d) /\ others => looking[d].woken
  <2>1. CASE others
    <3>1. looking = Notified(conn)
      BY <2>1
    <3> HIDE DEF others, looking
    <3> QED
      BY <3>1 DEF ConnShape, Notified, Waits
  <2>2. CASE ~others
    BY <2>2 DEF ConnShape
  <2> QED
    BY <2>1, <2>2
<1>2. /\ telling' = telling
      /\ \/ /\ Unclaimed(s, i) # {} /\ sched' = claim(s, i)
            /\ conn' = [self EXCEPT ![c].task = "granted"]
         \/ /\ Unclaimed(s, i) = {} /\ sched' = s
            /\ conn' = [self EXCEPT ![c].task = "refuse"]
         \/ /\ Unclaimed(s, i) = {} /\ sched' = s
            /\ conn' = [self EXCEPT ![c].task = IF conn[c].last = seen THEN "parked" ELSE "report",
                                    ![c].seen = seen]
  BY DEF Look, taskRest
<1> HIDE DEF s, seen, looking, others
<1>3. /\ DOMAIN self = Conns /\ DOMAIN self[c] = DOMAIN conn[c]
      /\ \A d \in Conns \ {c} : self[d] = looking[d]
  BY <1>1
<1> HIDE DEF self
<1>4. \A d \in Conns \ {c} : conn'[d] = looking[d]
  BY <1>2, <1>3
<1>5. /\ conn'[c].task \in {"granted", "refuse", "parked", "report"}
      /\ conn'[c].task \in {"parked", "report"} => Unclaimed(s, i) = {}
  BY <1>2, <1>3 DEF ConnShape
<1>6. \A d \in Conns \ {c} :
        /\ conn'[d].task = conn[d].task /\ conn'[d].id = conn[d].id
        /\ conn[d].woken => conn'[d].woken
        /\ Waits(d) /\ others => conn'[d].woken
  BY <1>1, <1>4
<1> QED
  BY <1>2, <1>5, <1>6 DEF s, others

\* Who grants to others in passing tells them, and leaves no machine idle.
LEMMA LookIdle ==
  ASSUME IdleInv, DaemonInv, NEW c \in Conns, Look(c)
  PROVE  IdleInv'
<1> DEFINE s == grant(sched, now)
<1>1. /\ ConnShape /\ Bound /\ LeaseInv /\ sched \in Scheduler /\ now \in Nat
  BY DEF DaemonInv, Shapes, Bound, LeaseInv, TypeOK
<1>2. /\ conn[c].task = "look" /\ now' = now /\ conn'[c].id = conn[c].id
      /\ conn'[c].task \in {"parked", "report"} => sched' = s
  BY <1>1, LookWrites
<1>3. /\ sched' \in {s, claim(s, Id(c))} /\ telling' = telling
      /\ conn'[c].task \in {"parked", "report"} => Unclaimed(s, Id(c)) = {}
      /\ \A d \in Conns \ {c} :
           /\ conn'[d].task = conn[d].task /\ conn'[d].id = conn[d].id
           /\ conn[d].woken => conn'[d].woken
           /\ Waits(d) /\ HeldIds(s) \ (HeldIds(sched) \cup {Id(c)}) # {} => conn'[d].woken
  BY <1>1, LookWakes
<1>4. /\ s \in Scheduler /\ s.holders = HoldersAfter(sched, now)
      /\ s.unclaimed = sched.unclaimed \cup GrantsMade(sched, now)
      /\ Grantable(s, now) = {}
  BY <1>1, GrantType, NothingLeft
<1>5. sched'.unclaimed \subseteq s.unclaimed
  BY <1>3, <1>4 DEF claim, Scheduler
<1>6. Grantable(sched', now') = {}
  <2>1. /\ sched'.waiting = s.waiting /\ sched'.merge_queue = s.merge_queue
        /\ sched'.reserved = s.reserved /\ sched'.paused = s.paused
        /\ sched'.holders = s.holders
    BY <1>3, <1>4 DEF claim, Scheduler
  <2> QED
    BY <1>2, <1>4, <2>1, GrantableDepends
<1>7. ASSUME NEW d \in Conns, Waits(d)', Unclaimed(sched, Id(d))' # {}
      PROVE  conn'[d].woken \/ Notifying'
  <2>1. d # c
    BY <1>2, <1>3, <1>7 DEF Waits, Id
  <2>2. Waits(d) /\ Id(d)' = Id(d)
    BY <1>3, <1>7, <2>1 DEF Waits, Id
  <2>3. PICK g \in s.unclaimed : g.id = Id(d)
    BY <1>5, <1>7, <2>2 DEF Unclaimed
  <2>4. CASE g \in sched.unclaimed
    <3>1. conn[d].woken \/ Notifying
      BY <2>2, <2>3, <2>4 DEF IdleInv, Unclaimed
    <3> QED
      BY <1>2, <1>3, <2>1, <3>1 DEF Notifying
  <2>5. CASE g \in GrantsMade(sched, now)
    <3>1. PICK m \in Grantable(sched, now) : g = AsGrant(sched, Winner(sched, m, now), now)
      BY <2>5 DEF GrantsMade
    <3> DEFINE v == Winner(sched, m, now)
    <3>2. v \in sched.waiting /\ v.id = Id(d)
      BY <1>1, <2>3, <3>1, WinnerWaits DEF AsGrant
    <3>3. m \in Machines /\ s.holders[m] = AsHolder(v, now)
      BY <1>4, <3>1 DEF HoldersAfter, Grantable
    <3>4. s.holders[m] \in Holder /\ s.holders[m].id = Id(d)
      BY <1>1, <3>2, <3>3 DEF AsHolder, Holder, Waiting, SessionToken, Option, Scheduler
    <3>5. Id(d) \in HeldIds(s)
      BY <3>3, <3>4, NoneAssumption DEF HeldIds, Held
    <3>6. Id(d) \in WaitingIds(sched) /\ Id(d) \notin HeldIds(sched)
      BY <1>1, <3>2 DEF WaitingIds, LeaseInv, OneState
    <3>7. Id(d) # 0
      BY <1>1, <3>6, StatusKnown DEF is_waiting
    <3>8. Id(d) # Id(c)
      BY <1>1, <2>1, <3>7 DEF Bound
    <3> QED
      BY <1>3, <2>1, <2>2, <3>5, <3>6, <3>8
  <2> QED
    BY <1>4, <2>4, <2>5
<1> QED
  BY <1>6, <1>7 DEF IdleInv

\* A request that has ended is followed by regrant().
LEMMA ReleaseConnIdle ==
  ASSUME IdleInv, DaemonInv, NEW c \in Conns, ReleaseConn(c)
  PROVE  IdleInv'
<1>1. ConnShape /\ sched \in Scheduler
  BY DEF DaemonInv, Shapes, Bound, LeaseInv, TypeOK
<1>2. /\ conn[c].task \in {"release", "leave"} /\ telling' = telling
      /\ sched' = release(sched, Id(c)) /\ Goto(c, "regrant")
  BY DEF ReleaseConn, taskRest
<1>3. conn'[c].task = "regrant" /\ \A d \in Conns \ {c} : conn'[d] = conn[d]
  BY <1>1, <1>2 DEF ConnShape, Goto
<1>4. sched'.unclaimed \subseteq sched.unclaimed
  BY <1>1, <1>2 DEF release, Scheduler
<1>5. \A d \in Conns : Waits(d)' =>
        /\ Waits(d) /\ (conn[d].woken => conn'[d].woken)
        /\ Unclaimed(sched, Id(d))' \subseteq Unclaimed(sched, Id(d))
  BY <1>3, <1>4 DEF Waits, Unclaimed, Id
<1>6. Notifying => Notifying'
  BY <1>2, <1>3 DEF Notifying
<1>7. Stirring'
  BY <1>3 DEF Stirring, Stirs
<1> QED
  BY <1>5, <1>6, <1>7, IdleKeeps

\* regrant() leaves no machine idle, and notifies if it granted one.
LEMMA RegrantIdle ==
  ASSUME IdleInv, DaemonInv, NEW c \in Conns, Regrant(c)
  PROVE  IdleInv'
<1>1. ConnShape /\ sched \in Scheduler /\ now \in Nat
  BY DEF DaemonInv, Shapes, Bound, LeaseInv, TypeOK
<1>2. /\ conn[c].task = "regrant" /\ telling' = telling /\ now' = now
      /\ sched' = grant(sched, now)
      /\ Goto(c, IF Grantable(sched, now) = {} THEN "ended" ELSE "notify")
  BY DEF Regrant, taskRest
<1>3. /\ conn'[c].task = IF Grantable(sched, now) = {} THEN "ended" ELSE "notify"
      /\ \A d \in Conns \ {c} : conn'[d] = conn[d]
  BY <1>1, <1>2 DEF ConnShape, Goto
<1>4. Grantable(sched', now') = {}
  BY <1>1, <1>2, NothingLeft
<1>5. sched'.unclaimed = sched.unclaimed \cup GrantsMade(sched, now)
  BY <1>1, <1>2, GrantType
<1>6. ASSUME NEW d \in Conns, Waits(d)', Unclaimed(sched, Id(d))' # {}
      PROVE  conn'[d].woken \/ Notifying'
  <2>1. CASE Grantable(sched, now) # {}
    BY <1>3, <2>1 DEF Notifying
  <2>2. CASE Grantable(sched, now) = {}
    <3>1. sched'.unclaimed = sched.unclaimed
      BY <1>5, <2>2 DEF GrantsMade
    <3>2. d # c /\ conn'[d] = conn[d] /\ Waits(d)
      BY <1>3, <1>6 DEF Waits
    <3>3. conn[d].woken \/ Notifying
      BY <1>6, <3>1, <3>2 DEF IdleInv, Unclaimed, Id
    <3> QED
      BY <1>2, <1>3, <3>2, <3>3 DEF Notifying
  <2> QED
    BY <2>1, <2>2
<1> QED
  BY <1>4, <1>6 DEF IdleInv

\* notify_waiters(), of a task or of an order's handler; a dying daemon's waiters are gone.
LEMMA NotifyIdle ==
  ASSUME ConnShape, (\E c \in Conns : Notify(c)) \/ Tell \/ DaemonCrash
  PROVE  IdleInv'
<1>1. ASSUME NEW d \in Conns, Waits(d) PROVE Notified(conn)[d].woken
  BY <1>1 DEF Notified, Waits, ConnShape
<1>2. ASSUME NEW c \in Conns, Notify(c), NEW d \in Conns, Waits(d)' PROVE conn'[d].woken
  <2>1. conn' = [Notified(conn) EXCEPT ![c].task = "ended"]
    BY <1>2 DEF Notify
  <2>2. d # c
    BY <1>2, <2>1, NotifiedWrites DEF Waits
  <2>3. conn'[d] = Notified(conn)[d]
    BY <2>1, <2>2, NotifiedWrites
  <2> QED
    BY <1>1, <1>2, <2>3, NotifiedWrites DEF Waits
<1>3. ASSUME Tell, NEW d \in Conns, Waits(d)' PROVE conn'[d].woken
  BY <1>1, <1>3, NotifiedWrites DEF Tell, Waits
<1>4. ASSUME DaemonCrash, NEW d \in Conns PROVE ~Waits(d)'
  BY <1>4 DEF DaemonCrash, Waits, Open, ConnShape
<1> QED
  BY <1>2, <1>3, <1>4, IdleWoken

\* An order's handler tells the waiters, unless it concerns running jobs only.
LEMMA OrderIdle ==
  ASSUME IdleInv, DaemonInv, NEW o \in Orders, Order(o)
  PROVE  IdleInv'
<1>1. ConnShape /\ sched \in Scheduler /\ now \in Nat
  BY DEF DaemonInv, Shapes, Bound, LeaseInv, TypeOK
<1>2. /\ ~telling /\ telling' = Telling(o) /\ sched' = Obey(o, sched) /\ now' = now
  BY DEF Order
<1>3. CASE Telling(o)
  BY <1>2, <1>3 DEF IdleInv, Stirring, Notifying
<1>4. CASE ~Telling(o)
  <2>1. \A d \in Conns : conn'[d].task = conn[d].task /\ conn'[d].id = conn[d].id
                         /\ conn'[d].woken = conn[d].woken
    BY <1>1 DEF Order, ConnShape
  <2>2. o.type \in {"ci_start", "ci_stop", "overruns"}
    BY <1>4 DEF Telling
  <2>3. OnlyFlags(sched, sched')
    BY <1>1, <1>2, <2>2, PlainOrders
  <2>4. /\ sched'.merge_queue = sched.merge_queue /\ sched'.reserved = sched.reserved
        /\ sched'.paused = sched.paused
    BY <1>1, <1>2, <2>2 DEF Obey, ci_start, ci_stop, overruns, Scheduler
  <2>5. Grantable(sched', now) = Grantable(sched, now) /\ sched'.unclaimed = sched.unclaimed
    <3>1. \A m \in Machines : sched'.holders[m] = None <=> sched.holders[m] = None
      BY <2>3 DEF OnlyFlags
    <3> QED
      BY <2>3, <2>4, <3>1, GrantableDepends DEF OnlyFlags
  <2>6. \A d \in Conns : Waits(d)' =>
          /\ Waits(d) /\ (conn[d].woken => conn'[d].woken)
          /\ Unclaimed(sched, Id(d))' \subseteq Unclaimed(sched, Id(d))
    BY <2>1, <2>5 DEF Waits, Unclaimed, Id
  <2>7. Notifying => Notifying'
    BY <1>2, <2>1 DEF Notifying
  <2>8. Stirring => Stirring'
    BY <1>2, <2>1 DEF Stirring, Stirs
  <2> QED
    BY <1>2, <2>5, <2>6, <2>7, <2>8, IdleKeeps
<1> QED
  BY <1>3, <1>4

LEMMA IdleStep ==
  ASSUME IdleInv, DaemonInv, [DaemonNext]_allVars
  PROVE  IdleInv'
<1>1. ConnShape
  BY DEF DaemonInv, Shapes
<1>2. ASSUME NEW c \in Conns, TaskStep(c) \/ Poll(c) PROVE IdleInv'
  BY <1>1, <1>2, AdmitConnIdle, LookIdle, TaskRests, ReleaseConnIdle, RegrantIdle, NotifyIdle
     DEF TaskStep
<1>3. ASSUME NEW c \in Conns, ClientStep(c) \/ JobExit(c) \/ Interrupt(c) \/ ClientCrash(c)
      PROVE  IdleInv'
  BY <1>3, ClientRests
<1>4. ASSUME NEW o \in Orders, Order(o) PROVE IdleInv'
  BY <1>4, OrderIdle
<1>5. CASE Tell \/ DaemonCrash
  BY <1>1, <1>5, NotifyIdle
<1>6. CASE DaemonStart \/ UNCHANGED allVars
  <2>1. sched' = sched /\ now' = now /\ telling' = telling /\ conn' = conn
    BY <1>6 DEF DaemonStart, allVars
  <2> QED
    BY <2>1, IdleKeeps DEF Waits, Unclaimed, Id, Notifying, Stirring, Stirs
<1> QED
  BY <1>2, <1>3, <1>4, <1>5, <1>6 DEF DaemonNext

\* Every queued request has a task: a position could be sent to its client.
AllTended == \A w \in sched.waiting : \E c \in Conns : Id(c) = w.id /\ Open(c)

\* However many clients ask, leave and are killed and whatever is ordered, no
\* machine idles until the 15-second poll while a request may have it, and no
\* grant made by another connection waits for it: as long as no request has lost
\* its task to a failed send (leak_divergence), which nothing would look after.
THEOREM NoMachineIdles == DaemonSpec => [](AllTended => NoIdleMachine)
<1> DEFINE Inv == DaemonInv /\ IdleInv
<1>1. DaemonInit => Inv
  <2>1. ASSUME DaemonInit, NEW c \in Conns PROVE ~Waits(c)
    BY <2>1 DEF DaemonInit, Waits
  <2> QED
    BY <2>1, DaemonStarts DEF IdleInv
<1>2. Inv /\ [DaemonNext]_allVars => Inv'
  BY DaemonStep, IdleStep
<1>3. ASSUME Inv, AllTended PROVE NoIdleMachine
  <2>1. ASSUME Quiet PROVE Grantable(sched, now) = {}
    <3>1. SUFFICES ASSUME NEW m \in Grantable(sched, now) PROVE FALSE
      OBVIOUS
    <3>2. PICK w \in sched.waiting : TRUE
      BY <3>1 DEF Grantable, First, Eligible, Queue
    <3>3. PICK c \in Conns : Id(c) = w.id /\ Open(c)
      BY <1>3 DEF AllTended
    <3>4. ~Stirring
      BY <2>1 DEF Quiet, Stirring, Stirs
    <3>5. conn[c].task = "serve" \/ (conn[c].task = "parked" /\ ~conn[c].woken)
      BY <2>1, <3>3 DEF Quiet, Open
    <3>6. conn[c].task # "serve"
      <4>1. w.id \in WaitingIds(sched)
        BY DEF WaitingIds
      <4>2. ~holds(sched, Id(c))
        BY <1>3, <3>3, <4>1 DEF DaemonInv, Bound, LeaseInv, OneState, holds
      <4> QED
        BY <1>3, <4>2 DEF DaemonInv, TaskInv
    <3> QED
      BY <1>3, <3>1, <3>4, <3>5, <3>6 DEF IdleInv, Waits
  <2>2. ASSUME NEW c \in Conns, conn[c].task = "parked", Unclaimed(sched, Id(c)) # {}
        PROVE  conn[c].woken \/ telling \/ \E d \in Conns : conn[d].task = "notify"
    BY <1>3, <2>2 DEF IdleInv, Waits, Notifying
  <2> QED
    BY <2>1, <2>2 DEF NoIdleMachine
<1>4. Inv => (AllTended => NoIdleMachine)
  BY <1>3
<1> QED
  BY <1>1, <1>2, <1>4, PTL DEF DaemonSpec
=============================================================================
