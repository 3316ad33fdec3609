---------------------------- MODULE LeaseDaemon ----------------------------
(***************************************************************************)
(* leased and its clients: the daemon's connection tasks (server.rs) around *)
(* the scheduler, the `lease run` / `lease hold` processes at the other end *)
(* of their sockets (bin/client/mod.rs), and their jobs' process groups.    *)
(*                                                                         *)
(* A connection is one daemon task (conn) and one client process (proc).   *)
(* A task's steps are the stretches between its awaits that touch shared   *)
(* state: the scheduler's lock is held for one step. A channel (wire) is   *)
(* FIFO: what was sent before a close is still read, a send to a closed    *)
(* end fails.                                                              *)
(*                                                                         *)
(* Data abstraction: labels differ between clients, so the holder shown in *)
(* a queue position is its id; a session's token is its id. Ids go on      *)
(* across daemon restarts: an id stands for (incarnation, id), as tokens   *)
(* carry the incarnation's seed. Time stands still: nothing expires here   *)
(* (LeaseScheduler covers expiry).                                         *)
(***************************************************************************)
EXTENDS LeaseScheduler

CONSTANTS Conns,         \* the clients, each making one request
          Ask,           \* client -> its request
          Inside,        \* client -> the client whose job started it, or None
          Advisory,      \* the clients run with --advisory
          Mortal,        \* the clients that may be killed (SIGKILL)
          Interrupted,   \* the clients that may get SIGINT, SIGTERM or SIGHUP
          Forking,       \* the clients whose job has descendants that outlive it
          Orders,        \* what administrators, CI hooks and watchers may ask
          MaxOrders,     \* bound: orders answered Ok in one behaviour
          MaxRestarts    \* bound: daemon crashes in one behaviour

VARIABLES
  conn,        \* client -> the daemon's task for it
  proc,        \* client -> the client process and its job
  wire,        \* client -> the socket between them
  answered,    \* orders answered Ok: [orders (how many), cancels (of these clients)]
  telling,     \* an order's handler has yet to call notify_waiters()
  up,          \* the daemon is running
  restarts     \* daemon crashes so far

allVars == <<sched, now, conn, proc, wire, answered, telling, up, restarts>>

\* A client's job starts at most one level of nested clients.
ASSUME NestingAssumption ==
  \A c \in Conns : Inside[c] # None => Inside[c] \in Conns /\ Inside[Inside[c]] = None

\* Clients make well-formed requests; None is no client and no mailbox.
ASSUME ClientsAssumption ==
  /\ None \notin Conns
  /\ \A c \in Conns : Ask[c] \in Requests
  /\ None \notin Seq({"preempting", "revoked"})

\* An order names a client or a machine, and its argument.
ASSUME OrdersAssumption ==
  \A o \in Orders :
    \/ o.type \in {"cancel", "preempt"} /\ o.on \in Conns
    \/ o.type = "reorder" /\ o.on \in Conns /\ o.arg \in Nat
    \/ o.type \in {"pause", "resume", "unreserve"} /\ o.on \in Machines
    \/ o.type = "reserve" /\ o.on \in Machines /\ o.arg \in Texts
    \/ o.type \in {"ci_start", "ci_stop"} /\ o.on \in Machines /\ o.arg \in CiJobs
    \/ o.type = "merge_queue" /\ o.arg \in Queues
    \/ o.type = "overruns"

\* Where a task is: "report" sends what wait_for_grant() saw, "parked" is its
\* select, "serve" the select of a held lease, "leave" the release of a
\* request that was given up.
DaemonInit ==
  /\ sched = Initial /\ now = 0
  /\ conn = [c \in Conns |-> [task |-> "none", id |-> 0, last |-> None, seen |-> None,
                              woken |-> FALSE, mailbox |-> None, pgid |-> FALSE, code |-> FALSE]]
  /\ proc = [c \in Conns |-> [at |-> "idle", token |-> None, stop |-> FALSE,
                              leader |-> FALSE, kids |-> FALSE]]
  /\ wire = [c \in Conns |-> [down |-> <<>>, up |-> <<>>]]
  /\ answered = [orders |-> 0, cancels |-> {}] /\ telling = FALSE /\ up = TRUE /\ restarts = 0

Machine(c) == Ask[c].machine
Id(c) == conn[c].id
Alive(c) == proc[c].at \notin {"idle", "exited", "unleased"}   \* its end is open
Open(c) == conn[c].task \notin {"none", "ended"}               \* the daemon's end

\* A reply of the daemon: its kind and, for a grant, the session's token.
Reply(type) == [type |-> type, token |-> None]

Send(c, reply) ==
  wire' = IF Alive(c) THEN [wire EXCEPT ![c].down = Append(@, reply)] ELSE wire
Goto(c, task) == conn' = [conn EXCEPT ![c].task = task]
-----------------------------------------------------------------------------
(* The daemon's tasks *)

taskRest == <<now, answered, telling, up, restarts>>

\* lease(): admit the request; a refused one is told and its task ends.
AdmitConn(c) ==
  /\ conn[c].task = "hello"
  /\ LET token == IF Inside[c] = None THEN None ELSE proc[Inside[c]].token
         answer == Admission(sched, Ask[c], token)
     IN  /\ sched' = admit(sched, Ask[c], token, now)
         /\ \/ /\ answer = "queued"
               /\ conn' = [conn EXCEPT ![c].id = sched.next_id, ![c].task = "look"]
               /\ UNCHANGED wire
            \/ /\ answer = "nested"
               /\ conn' = [conn EXCEPT ![c].id = sched.next_id, ![c].task = "granted"]
               /\ UNCHANGED wire
            \/ /\ answer \in {"preempted", "refused"}
               /\ Goto(c, "ended")
               /\ Send(c, Reply("refused"))
  /\ UNCHANGED <<taskRest, proc>>

\* MUTANT of Notified: the notification is enabled after looking, when parking.
NotifiedParked(cs) == [c \in Conns |-> IF cs[c].task = "parked" THEN [cs[c] EXCEPT !.woken = TRUE]
                                                               ELSE cs[c]]

\* notify_waiters(): the enabled notifications fire; a later one does not.
Notified(cs) == [c \in Conns |-> IF cs[c].task \in {"report", "parked"} THEN [cs[c] EXCEPT !.woken = TRUE]
                                                           ELSE cs[c]]

\* wait_for_grant(), from enabling the notification to dropping the lock: grant,
\* wake the others if they got something, claim what is ours, or look.
Look(c) ==
  /\ conn[c].task = "look"
  /\ LET s == grant(sched, now)
         others == HeldIds(s) \ (HeldIds(sched) \cup {Id(c)}) # {}
         w == CHOOSE w \in s.waiting : w.id = Id(c)
         holder == s.holders[Machine(c)]
         seen == <<position(s, w), IF holder = None THEN None ELSE holder.id>>
         looking == IF others THEN Notified(conn) ELSE conn
         self == [looking EXCEPT ![c].woken = others]
     IN  \/ /\ Unclaimed(s, Id(c)) # {}
            /\ sched' = claim(s, Id(c))
            /\ conn' = [self EXCEPT ![c].task = "granted"]
         \/ /\ Unclaimed(s, Id(c)) = {} /\ ~is_waiting(s, Id(c))
            /\ sched' = s
            /\ conn' = [self EXCEPT ![c].task = "refuse"]
         \/ /\ Unclaimed(s, Id(c)) = {} /\ is_waiting(s, Id(c))
            /\ sched' = s
            /\ conn' = [self EXCEPT ![c].task = IF conn[c].last = seen THEN "parked" ELSE "report",
                                    ![c].seen = seen]
  /\ UNCHANGED <<taskRest, proc, wire>>

\* Its sends. A failed one leaves the task by `?`: the request stays.
Report(c) ==
  /\ conn[c].task = "report"
  /\ conn' = [conn EXCEPT ![c].task = IF Alive(c) THEN "parked" ELSE "ended",
                          ![c].last = conn[c].seen]
  /\ Send(c, Reply("queued"))
  /\ UNCHANGED <<taskRest, sched, proc>>

Refuse(c) ==
  /\ conn[c].task = "refuse"
  /\ Goto(c, IF Alive(c) THEN "leave" ELSE "ended")
  /\ Send(c, Reply("refused"))
  /\ UNCHANGED <<taskRest, sched, proc>>

\* Its select: notified, 15 seconds, or the client's end closed.
Wake(c) ==
  /\ conn[c].task = "parked" /\ conn[c].woken
  /\ Goto(c, "look")
  /\ UNCHANGED <<taskRest, sched, proc, wire>>

Poll(c) ==
  /\ conn[c].task = "parked"
  /\ Goto(c, "look")
  /\ UNCHANGED <<taskRest, sched, proc, wire>>

Abandon(c) ==
  /\ conn[c].task = "parked" /\ ~Alive(c)
  /\ Goto(c, "leave")
  /\ UNCHANGED <<taskRest, sched, proc, wire>>

\* lease(): open the mailbox, then tell the client; a failed send leaves by `?`.
Deliver(c) ==
  /\ conn[c].task = "granted"
  /\ conn' = [conn EXCEPT ![c].mailbox = <<>>,
                          ![c].task = IF Alive(c) THEN "serve" ELSE "ended"]
  /\ Send(c, [type |-> "granted",
              token |-> CASE Id(c) \in NestedIds(sched) -> proc[Inside[c]].token
                          [] Ask[c].session -> Id(c)
                          [] OTHER -> None])
  /\ UNCHANGED <<taskRest, sched, proc>>

\* The select while the lease is held: an event of the client, its end closed,
\* or a message of the mailbox (a failed send is ignored).
Hear(c) ==
  /\ conn[c].task = "serve" /\ wire[c].up # <<>>
  /\ wire' = [wire EXCEPT ![c].up = Tail(@)]
  /\ conn' = IF Head(wire[c].up) = "spawned"
             THEN [conn EXCEPT ![c].pgid = TRUE]
             ELSE [conn EXCEPT ![c].code = TRUE, ![c].task = "finish"]
  /\ UNCHANGED <<taskRest, sched, proc>>

Hangup(c) ==
  /\ conn[c].task = "serve" /\ wire[c].up = <<>> /\ ~Alive(c)
  /\ Goto(c, "finish")
  /\ UNCHANGED <<taskRest, sched, proc, wire>>

Forward(c) ==
  /\ conn[c].task = "serve" /\ conn[c].mailbox # <<>>
  /\ conn' = [conn EXCEPT ![c].mailbox = Tail(@)]
  /\ Send(c, Reply(Head(conn[c].mailbox)))
  /\ UNCHANGED <<taskRest, sched, proc>>

\* MUTANT of Killed: the nested clients of the group are spared.
KilledAlone(p, c) == [p EXCEPT ![c].leader = FALSE, ![c].kids = FALSE]

\* SIGKILL to the group of c's job. The nested clients in it die too, and with
\* each the leader of its own group (PR_SET_PDEATHSIG), not that group's rest.
Killed(p, c) ==
  [d \in Conns |->
     IF d = c THEN [p[d] EXCEPT !.leader = FALSE, !.kids = FALSE]
     ELSE IF Inside[d] = c /\ p[d].at \notin {"idle", "unleased"}
     THEN [p[d] EXCEPT !.at = "exited", !.leader = FALSE]
     ELSE p[d]]

\* MUTANT of Finish: the group of a client that is gone is spared.
FinishSparesJob(c) ==
  /\ conn[c].task = "finish"
  /\ conn' = [conn EXCEPT ![c].mailbox = None, ![c].task = "release"]
  /\ UNCHANGED <<taskRest, sched, proc, wire>>

\* The lease ends: close the mailbox, kill the job of a client that is gone.
Finish(c) ==
  /\ conn[c].task = "finish"
  /\ conn' = [conn EXCEPT ![c].mailbox = None, ![c].task = "release"]
  /\ proc' = IF ~conn[c].code /\ conn[c].pgid THEN Killed(proc, c) ELSE proc
  /\ UNCHANGED <<taskRest, sched, wire>>

\* release(id), after a lease or for a request given up.
ReleaseConn(c) ==
  /\ conn[c].task \in {"release", "leave"}
  /\ sched' = release(sched, Id(c))
  /\ Goto(c, "regrant")
  /\ UNCHANGED <<taskRest, proc, wire>>

\* regrant(): grant under the lock, notify after it.
Regrant(c) ==
  /\ conn[c].task = "regrant"
  /\ sched' = grant(sched, now)
  /\ Goto(c, IF Grantable(sched, now) = {} THEN "ended" ELSE "notify")
  /\ UNCHANGED <<taskRest, proc, wire>>

\* MUTANT of Notify: the waiters are not told.
NotifyNobody(c) ==
  /\ conn[c].task = "notify"
  /\ Goto(c, "ended")
  /\ UNCHANGED <<taskRest, sched, proc, wire>>

Notify(c) ==
  /\ conn[c].task = "notify"
  /\ conn' = [Notified(conn) EXCEPT ![c].task = "ended"]
  /\ UNCHANGED <<taskRest, sched, proc, wire>>
-----------------------------------------------------------------------------
(* Administrators, CI hooks and the watchers of overruns and merge queues *)

\* MUTANT of cancel: a held lease is released under its running job.
cancel_takes_machine(s, i) == release(s, i)

\* A queued request is dropped; a lease ends only when its client lets go.
cancel(s, i) == IF holds(s, i) THEN s ELSE release(s, i)

\* An order's effect on the scheduler, and whether its handler answers Ok.
Obey(o, s) ==
  CASE o.type = "reorder"     -> reorder(s, Id(o.on), o.arg)
    [] o.type = "pause"       -> set_paused(s, o.on, TRUE)
    [] o.type = "resume"      -> set_paused(s, o.on, FALSE)
    [] o.type = "reserve"     -> reserve(s, o.on, [label |-> o.arg, until |-> now + 1])
    [] o.type = "unreserve"   -> reserve(s, o.on, None)
    [] o.type = "preempt"     -> preempt(s, Id(o.on))
    [] o.type = "cancel"      -> cancel(s, Id(o.on))
    [] o.type = "ci_start"    -> ci_start(s, o.on, o.arg, now)
    [] o.type = "ci_stop"     -> ci_stop(s, o.on, o.arg)
    [] o.type = "merge_queue" -> set_merge_queue(s, o.arg)
    [] o.type = "overruns"    -> overruns(s, now)

Accepted(o, s) ==
  CASE o.type = "reorder" -> is_waiting(s, Id(o.on))
    [] o.type = "preempt" -> Id(o.on) \in HeldIds(s)
    [] o.type = "cancel"  -> is_waiting(s, Id(o.on)) \/ holds(s, Id(o.on))
    [] OTHER -> TRUE

\* What a preempted or cancelled holder is sent, if its mailbox is open.
Mail(o, s) ==
  IF o.type = "preempt" /\ Id(o.on) \in HeldIds(s) THEN <<"preempting">>
  ELSE IF o.type = "cancel" /\ holds(s, Id(o.on)) THEN <<"revoked">>
  ELSE <<>>

\* The handlers that end with notify_waiters().
Telling(o) == o.type \notin {"ci_start", "ci_stop", "overruns"}

\* Its own step: admin() under the lock. Then the waiters are told.
Order(o) ==
  /\ up /\ ~telling /\ answered.orders < MaxOrders
  /\ sched' = Obey(o, sched)
  /\ conn' = IF Mail(o, sched) # <<>> /\ conn[o.on].mailbox # None
             THEN [conn EXCEPT ![o.on].mailbox = @ \o Mail(o, sched)] ELSE conn
  /\ answered' = IF Accepted(o, sched)
                 THEN [orders |-> answered.orders + 1, cancels |-> answered.cancels \cup
                         {c \in Conns : o.type = "cancel" /\ o.on = c}]
                 ELSE answered
  /\ telling' = Telling(o)
  /\ UNCHANGED <<now, proc, wire, up, restarts>>

Tell ==
  /\ telling /\ telling' = FALSE
  /\ conn' = Notified(conn)
  /\ UNCHANGED <<sched, now, proc, wire, answered, up, restarts>>

\* The daemon dies: every connection closes and the scheduler is lost.
DaemonCrash ==
  /\ up /\ restarts < MaxRestarts
  /\ up' = FALSE /\ restarts' = restarts + 1 /\ telling' = FALSE
  /\ sched' = [Initial EXCEPT !.next_id = sched.next_id]
  /\ conn' = [c \in Conns |-> IF Open(c) THEN [conn[c] EXCEPT !.task = "ended", !.mailbox = None]
                                         ELSE conn[c]]
  /\ UNCHANGED <<now, proc, wire, answered>>

DaemonStart ==
  /\ ~up /\ up' = TRUE
  /\ UNCHANGED <<sched, now, conn, proc, wire, answered, telling, restarts>>
-----------------------------------------------------------------------------
(* The clients: lease_and_run() and the jobs it starts *)

procRest == <<sched, now, answered, telling, up, restarts>>

ProcTo(c, at) == proc' = [proc EXCEPT ![c].at = at]

\* A nested client is started by its session's job, while any of that lives.
Startable(c) == Inside[c] # None => proc[Inside[c]].leader \/ proc[Inside[c]].kids

\* Connect and send the request, or learn that the daemon is down.
Start(c) ==
  /\ proc[c].at = "idle" /\ Startable(c)
  /\ \/ /\ up
        /\ ProcTo(c, "waiting")
        /\ Goto(c, "hello")
     \/ /\ ~up
        /\ ProcTo(c, IF c \in Advisory THEN "unleased" ELSE "exited")
        /\ UNCHANGED conn
  /\ UNCHANGED <<procRest, wire>>

\* A signal is only noted; the loops below act on it.
Interrupt(c) ==
  /\ c \in Interrupted /\ Alive(c) /\ ~proc[c].stop
  /\ proc' = [proc EXCEPT ![c].stop = TRUE]
  /\ UNCHANGED <<procRest, conn, wire>>

\* The loop that waits for the grant: a signal withdraws the request...
Withdraw(c) ==
  /\ proc[c].at = "waiting" /\ proc[c].stop
  /\ ProcTo(c, "exited")
  /\ UNCHANGED <<procRest, conn, wire>>

\* ... a reply is acted on; an advisory client that is queued runs unleased...
ReadReply(c) ==
  /\ proc[c].at = "waiting" /\ wire[c].down # <<>>
  /\ wire' = [wire EXCEPT ![c].down = Tail(@)]
  /\ LET reply == Head(wire[c].down) IN
     \/ /\ reply.type = "queued"
        /\ IF c \in Advisory THEN ProcTo(c, "unleased") ELSE UNCHANGED proc
     \/ /\ reply.type = "granted"
        /\ proc' = [proc EXCEPT ![c].at = "spawning", ![c].token = reply.token]
     \/ /\ reply.type = "refused"
        /\ ProcTo(c, "exited")
  /\ UNCHANGED <<procRest, conn>>

\* ... and a closed connection ends it.
WaitLost(c) ==
  /\ proc[c].at = "waiting" /\ wire[c].down = <<>> /\ ~Open(c)
  /\ ProcTo(c, "exited")
  /\ UNCHANGED <<procRest, conn, wire>>

\* Start the job in its own group; a command that does not start is reported.
Spawn(c) ==
  /\ proc[c].at = "spawning"
  /\ proc' = [proc EXCEPT ![c].at = "spawned", ![c].leader = TRUE, ![c].kids = c \in Forking]
  /\ UNCHANGED <<procRest, conn, wire>>

Tells(c, event) == wire' = IF Open(c) THEN [wire EXCEPT ![c].up = Append(@, event)] ELSE wire

SpawnFails(c) ==
  /\ proc[c].at = "spawning"
  /\ Tells(c, "done")
  /\ ProcTo(c, "exited")
  /\ UNCHANGED <<procRest, conn>>

\* Report the group. If that fails the client exits, and the leader with it.
ReportGroup(c) ==
  /\ proc[c].at = "spawned"
  /\ Tells(c, "spawned")
  /\ proc' = IF Open(c) THEN [proc EXCEPT ![c].at = "running"]
             ELSE [proc EXCEPT ![c].at = "exited", ![c].leader = FALSE]
  /\ UNCHANGED <<procRest, conn>>

\* MUTANT of Listen: the end of the connection is ignored.
ListenOnly(c) ==
  /\ proc[c].at \in {"running", "stopping"}
  /\ wire[c].down # <<>>
  /\ wire' = [wire EXCEPT ![c].down = Tail(@)]
  /\ IF Head(wire[c].down).type = "revoked"
     THEN proc' = [proc EXCEPT ![c].stop = TRUE] ELSE UNCHANGED proc
  /\ UNCHANGED <<procRest, conn>>

\* The reader thread: a revocation or the end of the connection stops the job.
Listen(c) ==
  /\ proc[c].at \in {"running", "stopping"}
  /\ \/ /\ wire[c].down # <<>>
        /\ wire' = [wire EXCEPT ![c].down = Tail(@)]
        /\ IF Head(wire[c].down).type = "revoked"
           THEN proc' = [proc EXCEPT ![c].stop = TRUE] ELSE UNCHANGED proc
     \/ /\ wire[c].down = <<>> /\ ~Open(c) /\ ~proc[c].stop
        /\ proc' = [proc EXCEPT ![c].stop = TRUE]
        /\ UNCHANGED wire
  /\ UNCHANGED <<procRest, conn>>

\* SIGTERM to the group: nested clients in it note the signal.
StopJob(c) ==
  /\ proc[c].at = "running" /\ proc[c].stop /\ proc[c].leader
  /\ proc' = [d \in Conns |->
                IF d = c THEN [proc[d] EXCEPT !.at = "stopping"]
                ELSE IF Inside[d] = c /\ Alive(d) THEN [proc[d] EXCEPT !.stop = TRUE]
                ELSE proc[d]]
  /\ UNCHANGED <<procRest, conn, wire>>

\* Five seconds later, SIGKILL.
KillJob(c) ==
  /\ proc[c].at = "stopping" /\ proc[c].leader
  /\ proc' = Killed(proc, c)
  /\ UNCHANGED <<procRest, conn, wire>>

\* The job's leader exits, of itself or on SIGTERM.
JobExit(c) ==
  /\ proc[c].leader
  /\ proc' = [proc EXCEPT ![c].leader = FALSE]
  /\ UNCHANGED <<procRest, conn, wire>>

\* The leader has exited: kill what it left, report, exit.
Cleanup(c) ==
  /\ proc[c].at \in {"running", "stopping"} /\ ~proc[c].leader
  /\ proc' = [Killed(proc, c) EXCEPT ![c].at = "exited"]
  /\ Tells(c, "done")
  /\ UNCHANGED <<procRest, conn>>

\* SIGKILL to the client: the leader dies with it, the rest of the group not.
ClientCrash(c) ==
  /\ c \in Mortal /\ Alive(c)
  /\ proc' = [proc EXCEPT ![c].at = "exited", ![c].leader = FALSE]
  /\ UNCHANGED <<procRest, conn, wire>>
-----------------------------------------------------------------------------
TaskStep(c) ==
  \/ AdmitConn(c) \/ Look(c) \/ Report(c) \/ Refuse(c) \/ Wake(c) \/ Abandon(c)
  \/ Deliver(c) \/ Hear(c) \/ Hangup(c) \/ Forward(c)
  \/ Finish(c) \/ ReleaseConn(c) \/ Regrant(c) \/ Notify(c)

ClientStep(c) ==
  \/ Start(c) \/ Withdraw(c) \/ ReadReply(c) \/ WaitLost(c) \/ Spawn(c) \/ SpawnFails(c)
  \/ ReportGroup(c) \/ Listen(c) \/ StopJob(c) \/ KillJob(c) \/ Cleanup(c)

DaemonNext ==
  \/ \E c \in Conns : \/ TaskStep(c) \/ ClientStep(c) \/ Poll(c)
                      \/ JobExit(c) \/ Interrupt(c) \/ ClientCrash(c)
  \/ \E o \in Orders : Order(o)
  \/ Tell \/ DaemonCrash \/ DaemonStart

DaemonSpec == DaemonInit /\ [][DaemonNext]_allVars

\* Tasks and processes that can go on do; no fairness for the 15-second poll,
\* for jobs, signals, crashes or orders.
Fair == /\ \A c \in Conns : WF_allVars(TaskStep(c)) /\ WF_allVars(ClientStep(c))
        /\ WF_allVars(Tell)

FairDaemonSpec == DaemonSpec /\ Fair
-----------------------------------------------------------------------------
(* Properties *)

Cancelled(c) == c \in answered.cancels

\* The daemon was told the group of c's job, or will read it before the end of
\* the connection.
Reported(c) == conn[c].pgid \/ \E i \in DOMAIN wire[c].up : wire[c].up[i] = "spawned"

\* A task and the scheduler agree: a task that serves a lease still holds it
\* (an administrator's cancel revokes, it never takes the machine from under a
\* running job) and has its mailbox open, one that waits is queued, granted or
\* cancelled, and once the task of a client that started its job has ended, the
\* lease and the mailbox are gone, however the client ended.
ServingHolds ==
  \A c \in Conns :
    /\ conn[c].task \in {"granted", "serve", "finish", "release"} => holds(sched, Id(c))
    /\ conn[c].task \in {"serve", "finish"} => conn[c].mailbox # None
    /\ conn[c].task \in {"release", "regrant", "notify"} => conn[c].mailbox = None
    /\ conn[c].task \in {"look", "report", "parked"} =>
         is_waiting(sched, Id(c)) \/ Unclaimed(sched, Id(c)) # {} \/ Cancelled(c)
    /\ conn[c].task = "ended" /\ Reported(c) => ~holds(sched, Id(c))

\* A job runs under a lease: as long as its leader lives, and, once its group is
\* reported, as long as anything of the group lives, the request is held.
JobIsLeased ==
  \A c \in Conns :
    proc[c].leader \/ (proc[c].kids /\ Reported(c)) => holds(sched, Id(c))

Session(c) == IF Inside[c] = None THEN c ELSE Inside[c]

\* The leaders of two jobs run on one machine at a time only inside one session.
ExclusiveJobs ==
  \A c, d \in Conns :
    proc[c].leader /\ proc[d].leader /\ Machine(c) = Machine(d) => Session(c) = Session(d)

\* No task is going to call grant() of itself, the 15-second poll apart.
Quiet ==
  /\ ~telling
  /\ \A c \in Conns : \/ conn[c].task \in {"none", "serve", "ended"}
                      \/ conn[c].task = "parked" /\ ~conn[c].woken

\* Nothing waits for the poll: no free, unpaused machine with an eligible request,
\* and no grant made by another connection, since no notification is lost between
\* looking and parking (wait_for_grant, notify_waiters).
NoIdleMachine ==
  /\ Quiet => Grantable(sched, now) = {}
  /\ \A c \in Conns :
       conn[c].task = "parked" /\ Unclaimed(sched, Id(c)) # {} =>
         conn[c].woken \/ telling \/ \E d \in Conns : conn[d].task = "notify"

Revoking(c) == \/ conn[c].mailbox # None /\ \E i \in DOMAIN conn[c].mailbox : conn[c].mailbox[i] = "revoked"
               \/ \E i \in DOMAIN wire[c].down : wire[c].down[i].type = "revoked"

\* A job whose lease is revoked or lost, or whose client is interrupted, is
\* stopped with all of its group, even if it ignores SIGTERM.
StopsJob ==
  \A c \in Conns :
    Inside[c] = None /\ proc[c].at = "running" /\ (proc[c].stop \/ ~Open(c) \/ Revoking(c))
      ~> ~proc[c].leader /\ ~proc[c].kids

\* "A lease lives exactly as long as the requesting client's connection": when
\* the task has ended, the request is neither queued nor held.
LeaseEndsWithConnection ==
  \A c \in Conns : conn[c].task = "ended" => ~is_waiting(sched, Id(c)) /\ ~holds(sched, Id(c))

\* Every request is answered (granted, refused or cancelled), without the poll,
\* provided jobs end and no task left a lease behind.
Served ==
  (\A c \in Conns : WF_allVars(JobExit(c))) /\ []LeaseEndsWithConnection
    => \A c \in Conns : proc[c].at = "waiting" ~> proc[c].at # "waiting"
=============================================================================
