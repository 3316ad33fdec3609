------------------------ MODULE LeaseSchedulerProofs ------------------------
(***************************************************************************)
(* Proofs about LeaseScheduler, for any machines, requests, reservations,  *)
(* CI jobs, merge queues and bounds.                                       *)
(***************************************************************************)
EXTENDS LeaseScheduler, TLAPS, WellFoundedInduction, FiniteSetTheorems

(* Every operation of the scheduler keeps its type. *)

\* What grant() takes is a request waiting for that machine.
LEMMA WinnerWaits ==
  ASSUME NEW s \in Scheduler, NEW time \in Nat, NEW m \in Grantable(s, time)
  PROVE  Winner(s, m, time) \in s.waiting /\ Winner(s, m, time).machine = m
<1>1. First(s, m, time) # {}
  BY DEF Grantable
<1>2. Winner(s, m, time) \in First(s, m, time)
  BY <1>1 DEF Winner
<1>3. First(s, m, time) \subseteq Queue(s, m)
  BY DEF First, Eligible
<1> QED
  BY <1>2, <1>3 DEF Queue

\* admit() adds a queue entry or a nested run of the right type.
LEMMA AdmitType ==
  ASSUME NEW s \in Scheduler, NEW r \in Requests, NEW token, NEW time \in Nat
  PROVE  admit(s, r, token, time) \in Scheduler
<1>0. s.next_id \in Ids /\ s.next_id + 1 \in Ids
  BY DEF Scheduler, Ids
<1>1. CASE Admission(s, r, token) = "refused"
  BY <1>1 DEF admit
<1>2. CASE Admission(s, r, token) = "preempted"
  <2>1. admit(s, r, token, time) = [s EXCEPT !.next_id = @ + 1]
    BY <1>2 DEF admit
  <2> QED
    BY <1>0, <2>1 DEF Scheduler
<1>3. CASE Admission(s, r, token) = "nested"
  <2>1. r.machine \in Machines
    BY <1>3 DEF Admission, knows
  <2>2. s.nested \cup {[id |-> s.next_id, machine |-> r.machine]}
          \in SUBSET [id : Ids, machine : Machines]
    BY <1>0, <2>1 DEF Scheduler
  <2>3. admit(s, r, token, time)
          = [s EXCEPT !.next_id = @ + 1,
                      !.nested = @ \cup {[id |-> s.next_id, machine |-> r.machine]}]
    BY <1>3 DEF admit
  <2> QED
    BY <1>0, <2>2, <2>3 DEF Scheduler
<1>4. CASE Admission(s, r, token) = "queued"
  <2>1. r.machine \in Machines
    BY <1>4 DEF Admission, knows
  <2>2. AsWaiting(r, s.next_id, time) \in Waiting
    BY <1>0, <2>1, RequestsAssumption DEF AsWaiting, Waiting, Option
  <2>3. s.waiting \cup {AsWaiting(r, s.next_id, time)} \in SUBSET Waiting
    BY <2>2 DEF Scheduler
  <2>4. admit(s, r, token, time)
          = [s EXCEPT !.next_id = @ + 1, !.waiting = @ \cup {AsWaiting(r, s.next_id, time)}]
    BY <1>4 DEF admit
  <2> QED
    BY <1>0, <2>3, <2>4 DEF Scheduler
<1> QED
  BY <1>1, <1>2, <1>3, <1>4 DEF Admission

\* The fields grant() writes.
Winners(s, time) == {Winner(s, m, time) : m \in Grantable(s, time)}
HoldersAfter(s, time) ==
  [m \in Machines |-> IF m \in Grantable(s, time) THEN AsHolder(Winner(s, m, time), time)
                                                  ELSE s.holders[m]]
GrantsMade(s, time) == {AsGrant(s, Winner(s, m, time), time) : m \in Grantable(s, time)}

\* grant() writes three fields, as above, and no other.
LEMMA GrantFields ==
  ASSUME NEW s \in Scheduler, NEW time \in Nat
  PROVE  grant(s, time) = [s EXCEPT !.waiting = @ \ Winners(s, time),
                                    !.holders = HoldersAfter(s, time),
                                    !.unclaimed = @ \cup GrantsMade(s, time)]
<1> DEFINE won == Grantable(s, time)
           winner == [m \in won |-> Winner(s, m, time)]
<1>1. \A m \in won : winner[m] = Winner(s, m, time)
  OBVIOUS
<1>2. {winner[m] : m \in won} = Winners(s, time)
  BY <1>1 DEF Winners
<1>3. {AsGrant(s, winner[m], time) : m \in won} = GrantsMade(s, time)
  BY <1>1 DEF GrantsMade
<1>4. [m \in Machines |-> IF m \in won THEN AsHolder(winner[m], time) ELSE s.holders[m]]
        = HoldersAfter(s, time)
  BY <1>1 DEF HoldersAfter
<1> QED
  BY <1>2, <1>3, <1>4 DEF grant

\* grant() makes holders and grants of the right type, and writes these fields.
LEMMA GrantType ==
  ASSUME NEW s \in Scheduler, NEW time \in Nat
  PROVE  /\ grant(s, time) \in Scheduler
         /\ grant(s, time).waiting = s.waiting \ Winners(s, time)
         /\ grant(s, time).holders = HoldersAfter(s, time)
         /\ grant(s, time).unclaimed = s.unclaimed \cup GrantsMade(s, time)
         /\ grant(s, time).next_id = s.next_id /\ grant(s, time).nested = s.nested
<1>1. \A m \in Grantable(s, time) : Winner(s, m, time) \in Waiting
  BY WinnerWaits DEF Scheduler
<1>2. HoldersAfter(s, time) \in [Machines -> Option(Holder)]
  <2>1. \A m \in Grantable(s, time) : AsHolder(Winner(s, m, time), time) \in Holder
    BY <1>1 DEF AsHolder, Holder, Waiting, SessionToken, Option
  <2> QED
    BY <2>1 DEF HoldersAfter, Scheduler, Option
<1>3. s.unclaimed \cup GrantsMade(s, time) \in SUBSET Grant
  <2>1. \A m \in Grantable(s, time) : AsGrant(s, Winner(s, m, time), time) \in Grant
    BY <1>1 DEF AsGrant, Grant, Waiting, SessionToken, Option, jobs
  <2> QED
    BY <2>1 DEF GrantsMade, Scheduler
<1>4. s.waiting \ Winners(s, time) \in SUBSET Waiting
  BY DEF Scheduler
<1> DEFINE w == s.waiting \ Winners(s, time)
           h == HoldersAfter(s, time)
           u == s.unclaimed \cup GrantsMade(s, time)
<1>5. grant(s, time) = [s EXCEPT !.waiting = w, !.holders = h, !.unclaimed = u]
  BY GrantFields
<1>6. w \in SUBSET Waiting /\ h \in [Machines -> Option(Holder)] /\ u \in SUBSET Grant
  BY <1>2, <1>3, <1>4
<1>7. /\ grant(s, time) \in Scheduler
      /\ grant(s, time).waiting = w /\ grant(s, time).holders = h
      /\ grant(s, time).unclaimed = u
      /\ grant(s, time).next_id = s.next_id /\ grant(s, time).nested = s.nested
  <2> HIDE DEF w, h, u
  <2> QED
    BY <1>5, <1>6 DEF Scheduler
<1> QED
  BY <1>7

\* release() only removes.
LEMMA ReleaseType ==
  ASSUME NEW s \in Scheduler, NEW id
  PROVE  release(s, id) \in Scheduler
<1>1. {w \in s.waiting : w.id # id} \in SUBSET Waiting
  BY DEF Scheduler
<1>2. {g \in s.unclaimed : g.id # id} \in SUBSET Grant
  BY DEF Scheduler
<1>3. {n \in s.nested : n.id # id} \in SUBSET [id : Ids, machine : Machines]
  BY DEF Scheduler
<1>4. [m \in Machines |-> IF /\ id \notin NestedIds(s)
                             /\ s.holders[m] # None /\ s.holders[m].id = id
                          THEN None ELSE s.holders[m]]
        \in [Machines -> Option(Holder)]
  BY DEF Scheduler, Option
<1> QED
  BY <1>1, <1>2, <1>3, <1>4 DEF release, Scheduler

\* reorder() changes a position, preempt() and overruns() a flag.
LEMMA ReorderType ==
  ASSUME NEW s \in Scheduler, NEW id, NEW at \in Nat
  PROVE  reorder(s, id, at) \in Scheduler
<1>0. s.waiting \subseteq Waiting
  BY DEF Scheduler
<1>1. \A w \in s.waiting : [w EXCEPT !.manual_position = at] \in Waiting
  BY <1>0 DEF Waiting, Option
<1>2. {IF w.id = id THEN [w EXCEPT !.manual_position = at] ELSE w : w \in s.waiting}
        \in SUBSET Waiting
  BY <1>1 DEF Scheduler
<1> QED
  BY <1>2 DEF reorder, Scheduler

\* preempt() only sets a flag of a holder.
LEMMA PreemptType ==
  ASSUME NEW s \in Scheduler, NEW id
  PROVE  preempt(s, id) \in Scheduler
<1>1. \A h \in Holder : [h EXCEPT !.preempting = TRUE] \in Holder
  BY DEF Holder
<1>2. [m \in Machines |-> IF s.holders[m] # None /\ s.holders[m].id = id
                          THEN [s.holders[m] EXCEPT !.preempting = TRUE]
                          ELSE s.holders[m]] \in [Machines -> Option(Holder)]
  BY <1>1 DEF Scheduler, Option
<1> QED
  BY <1>2 DEF preempt, Scheduler

\* overruns() only sets a flag of holders.
LEMMA OverrunsType ==
  ASSUME NEW s \in Scheduler, NEW time \in Nat
  PROVE  overruns(s, time) \in Scheduler
<1>1. \A h \in Holder : [h EXCEPT !.overrun_logged = TRUE] \in Holder
  BY DEF Holder
<1>2. [m \in Machines |-> IF s.holders[m] # None /\ Overdue(s.holders[m], time)
                          THEN [s.holders[m] EXCEPT !.overrun_logged = TRUE]
                          ELSE s.holders[m]] \in [Machines -> Option(Holder)]
  BY <1>1 DEF Scheduler, Option
<1> QED
  BY <1>2 DEF overruns, Scheduler

\* The remaining operations write one field with a value of its type.
LEMMA OtherTypes ==
  ASSUME NEW s \in Scheduler
  PROVE  /\ \A id : claim(s, id) \in Scheduler
         /\ \A m \in Machines, on \in BOOLEAN : set_paused(s, m, on) \in Scheduler
         /\ \A m \in Machines, r \in Option(Reservation) : reserve(s, m, r) \in Scheduler
         /\ \A m \in Machines, j \in CiJobs, t \in Nat : ci_start(s, m, j, t) \in Scheduler
         /\ \A m \in Machines, j \in CiJobs : ci_stop(s, m, j) \in Scheduler
         /\ \A q \in Queues : set_merge_queue(s, q) \in Scheduler
<1>1. ASSUME NEW id PROVE claim(s, id) \in Scheduler
  <2>1. s.unclaimed \ Unclaimed(s, id) \in SUBSET Grant
    BY DEF Scheduler
  <2> QED
    BY <2>1 DEF claim, Scheduler
<1>2. ASSUME NEW m \in Machines, NEW on \in BOOLEAN PROVE set_paused(s, m, on) \in Scheduler
  <2>1. s.paused \cup {m} \in SUBSET Machines /\ s.paused \ {m} \in SUBSET Machines
    BY DEF Scheduler
  <2> QED
    BY <2>1 DEF set_paused, Scheduler
<1>3. ASSUME NEW m \in Machines, NEW r \in Option(Reservation) PROVE reserve(s, m, r) \in Scheduler
  <2>1. [s.reserved EXCEPT ![m] = r] \in [Machines -> Option(Reservation)]
    BY DEF Scheduler
  <2> QED
    BY <2>1 DEF reserve, Scheduler
<1>4. ASSUME NEW m \in Machines, NEW j \in CiJobs, NEW t \in Option(Nat)
      PROVE  [s EXCEPT !.ci[m][j] = t] \in Scheduler
  <2>1. [s.ci EXCEPT ![m][j] = t] \in [Machines -> [CiJobs -> Option(Nat)]]
    BY DEF Scheduler
  <2> QED
    BY <2>1 DEF Scheduler
<1>5. ASSUME NEW q \in Queues PROVE set_merge_queue(s, q) \in Scheduler
  BY DEF set_merge_queue, Scheduler
<1>6. ASSUME NEW m \in Machines, NEW j \in CiJobs, NEW t \in Nat
      PROVE  ci_start(s, m, j, t) \in Scheduler /\ ci_stop(s, m, j) \in Scheduler
  BY <1>4 DEF ci_start, ci_stop, Option
<1> QED
  BY <1>1, <1>2, <1>3, <1>5, <1>6
-----------------------------------------------------------------------------
(* The type invariant *)

\* Every action keeps the type invariant.
LEMMA TypeStep ==
  TypeOK /\ [Next]_vars => TypeOK'
<1> SUFFICES ASSUME TypeOK, [Next]_vars PROVE TypeOK'
  OBVIOUS
<1> USE DEF TypeOK
<1>1. CASE Admit
  <2>1. PICK r \in Requests, token \in Option(KnownIds) : sched' = admit(sched, r, token, now)
    BY <1>1 DEF Admit
  <2> QED
    BY <1>1, <2>1, AdmitType DEF Admit
<1>2. CASE GrantAll
  BY <1>2, GrantType DEF GrantAll
<1>3. CASE Claim
  BY <1>3, OtherTypes DEF Claim
<1>4. CASE Release
  BY <1>4, ReleaseType DEF Release
<1>5. CASE Reorder
  BY <1>5, ReorderType, ConfigAssumption DEF Reorder
<1>6. CASE SetPaused
  BY <1>6, OtherTypes DEF SetPaused
<1>7. CASE Reserve
  <2>1. \A text \in Texts, for \in Holds : [label |-> text, until |-> now + for] \in Reservation
    BY ConfigAssumption DEF Reservation
  <2> QED
    BY <1>7, <2>1, OtherTypes DEF Reserve, Option
<1>8. CASE Preempt
  BY <1>8, PreemptType DEF Preempt
<1>9. CASE Ci
  BY <1>9, OtherTypes DEF Ci
<1>10. CASE SetMergeQueue
  BY <1>10, OtherTypes DEF SetMergeQueue
<1>11. CASE Overruns
  BY <1>11, OverrunsType DEF Overruns
<1>12. CASE Tick
  BY <1>12 DEF Tick
<1>13. CASE UNCHANGED vars
  BY <1>13 DEF vars
<1> QED
  BY <1>1, <1>2, <1>3, <1>4, <1>5, <1>6, <1>7, <1>8, <1>9, <1>10, <1>11, <1>12, <1>13 DEF Next

\* So does the initial state.
LEMMA TypeInit ==
  Init => TypeOK
  BY DEF Init, TypeOK, Initial, Scheduler, Ids, Option

\* Whatever is called, in whatever order, the scheduler's fields keep their types.
THEOREM TypeCorrect == Spec => []TypeOK
  BY TypeInit, TypeStep, PTL DEF Spec
-----------------------------------------------------------------------------
(* Ids, states and unclaimed grants. None of the three invariants is       *)
(* inductive alone: a grant's holder is new because ids are fresh, a       *)
(* request leaves the queue when granted because its id is unique there.   *)

LeaseInv == TypeOK /\ FreshIds /\ OneState /\ UnclaimedIsHeld

Parts == FreshIds /\ OneState /\ UnclaimedIsHeld

\* A step that removes ids, and otherwise keeps who waits, holds and runs
\* nested, keeps the invariants: release(), preempt(), reorder() and the rest.
LEMMA ShrinkStep ==
  ASSUME LeaseInv, TypeOK',
         sched'.next_id = sched.next_id,
         WaitingIds(sched') \subseteq WaitingIds(sched),
         \A v, w \in sched'.waiting : v.id = w.id => v = w,
         sched'.nested \subseteq sched.nested,
         \A m \in Machines : \/ sched'.holders[m] = None
                             \/ /\ sched.holders[m] # None /\ sched'.holders[m] # None
                                /\ sched'.holders[m].id = sched.holders[m].id
                                /\ sched'.holders[m].token = sched.holders[m].token,
         \A g \in sched'.unclaimed : g \in sched.unclaimed /\ sched'.holders[g.machine] # None
  PROVE  Parts'
<1>1. Held(sched') \subseteq Held(sched)
  BY DEF Held
<1>2. \A m \in Held(sched') : sched'.holders[m].id = sched.holders[m].id
  BY DEF Held
<1>3. HeldIds(sched') \subseteq HeldIds(sched)
  BY <1>1, <1>2 DEF HeldIds
<1>4. NestedIds(sched') \subseteq NestedIds(sched)
  BY DEF NestedIds
<1>5. KnownIds' = KnownIds
  BY DEF KnownIds
<1>6. FreshIds'
  BY <1>3, <1>4, <1>5 DEF LeaseInv, FreshIds
<1>7. OneState'
  BY <1>1, <1>2, <1>3, <1>4 DEF LeaseInv, OneState
<1>8. UnclaimedIsHeld'
  <2>1. \A g \in sched'.unclaimed : g.machine \in Machines
    BY DEF TypeOK, Scheduler, Grant
  <2> QED
    BY <2>1 DEF LeaseInv, UnclaimedIsHeld
<1> QED
  BY <1>6, <1>7, <1>8 DEF Parts

\* admit() gives the newcomer an id nobody has.
LEMMA AdmitStep ==
  ASSUME LeaseInv, NEW r \in Requests, NEW token, sched' = admit(sched, r, token, now)
  PROVE  Parts'
<1>1. sched' = admit(sched, r, token, now)
  OBVIOUS
<1> DEFINE new == sched.next_id
<1>2. new \in Nat /\ new > 0 /\ sched \in Scheduler
  BY DEF LeaseInv, TypeOK, Scheduler, Ids
<1>3. new \notin WaitingIds(sched) \cup HeldIds(sched) \cup NestedIds(sched)
  BY <1>2 DEF LeaseInv, FreshIds, KnownIds
<1>4. CASE Admission(sched, r, token) = "refused"
  <2>1. sched' = sched
    BY <1>1, <1>4 DEF admit
  <2> QED
    BY <2>1 DEF LeaseInv, Parts, FreshIds, OneState, UnclaimedIsHeld, KnownIds
<1>5. ASSUME sched'.next_id = new + 1, sched'.holders = sched.holders,
             sched'.unclaimed = sched.unclaimed,
             \/ sched'.waiting = sched.waiting
             \/ \E w : w.id = new /\ sched'.waiting = sched.waiting \cup {w},
             \/ sched'.nested = sched.nested
             \/ \E n : n.id = new /\ sched'.nested = sched.nested \cup {n},
             sched'.waiting = sched.waiting \/ sched'.nested = sched.nested
      PROVE  Parts'
  <2>1. KnownIds' = KnownIds \cup {new}
    BY <1>2, <1>5 DEF KnownIds
  <2>2. Held(sched') = Held(sched) /\ HeldIds(sched') = HeldIds(sched)
    BY <1>5 DEF Held, HeldIds
  <2>3. WaitingIds(sched') \subseteq WaitingIds(sched) \cup {new}
    BY <1>5 DEF WaitingIds
  <2>4. NestedIds(sched') \subseteq NestedIds(sched) \cup {new}
    BY <1>5 DEF NestedIds
  <2>5. WaitingIds(sched') = WaitingIds(sched) \/ NestedIds(sched') = NestedIds(sched)
    BY <1>5 DEF WaitingIds, NestedIds
  <2>6. \A v, w \in sched'.waiting : v.id = w.id => v = w
    BY <1>3, <1>5 DEF LeaseInv, FreshIds, WaitingIds
  <2>7. FreshIds'
    BY <2>1, <2>2, <2>3, <2>4, <2>6 DEF LeaseInv, FreshIds
  <2>8. OneState'
    BY <1>3, <1>5, <2>2, <2>3, <2>4, <2>5 DEF LeaseInv, OneState
  <2>9. UnclaimedIsHeld'
    BY <1>5 DEF LeaseInv, UnclaimedIsHeld
  <2> QED
    BY <2>7, <2>8, <2>9 DEF Parts
<1>6. CASE Admission(sched, r, token) = "preempted"
  <2>1. sched' = [sched EXCEPT !.next_id = @ + 1]
    BY <1>1, <1>6 DEF admit
  <2> QED
    BY <1>2, <1>5, <2>1 DEF Scheduler
<1>7. CASE Admission(sched, r, token) = "nested"
  <2>1. sched' = [sched EXCEPT !.next_id = @ + 1,
                               !.nested = @ \cup {[id |-> new, machine |-> r.machine]}]
    BY <1>1, <1>7 DEF admit
  <2>2. /\ sched'.next_id = new + 1 /\ sched'.holders = sched.holders
        /\ sched'.unclaimed = sched.unclaimed /\ sched'.waiting = sched.waiting
        /\ sched'.nested = sched.nested \cup {[id |-> new, machine |-> r.machine]}
    BY <1>2, <2>1 DEF Scheduler
  <2>3. [id |-> new, machine |-> r.machine].id = new
    OBVIOUS
  <2> QED
    BY <1>5, <2>2, <2>3
<1>8. CASE Admission(sched, r, token) = "queued"
  <2>1. sched' = [sched EXCEPT !.next_id = @ + 1,
                               !.waiting = @ \cup {AsWaiting(r, new, now)}]
    BY <1>1, <1>8 DEF admit
  <2>2. /\ sched'.next_id = new + 1 /\ sched'.holders = sched.holders
        /\ sched'.unclaimed = sched.unclaimed /\ sched'.nested = sched.nested
        /\ sched'.waiting = sched.waiting \cup {AsWaiting(r, new, now)}
    BY <1>2, <2>1 DEF Scheduler
  <2>3. AsWaiting(r, new, now).id = new
    BY DEF AsWaiting
  <2> QED
    BY <1>5, <2>2, <2>3
<1> QED
  BY <1>4, <1>6, <1>7, <1>8 DEF Admission

\* grant() moves winners from the queue to free machines; some of the grants may
\* be claimed in the same step.
LEMMA GrantStep ==
  ASSUME LeaseInv,
         sched'.waiting = sched.waiting \ Winners(sched, now),
         sched'.holders = HoldersAfter(sched, now),
         sched'.unclaimed \subseteq sched.unclaimed \cup GrantsMade(sched, now),
         sched'.next_id = sched.next_id, sched'.nested = sched.nested
  PROVE  Parts'
<1> DEFINE won == Grantable(sched, now)
           win(m) == Winner(sched, m, now)
<1>1. sched \in Scheduler /\ now \in Nat
  BY DEF LeaseInv, TypeOK
<1>2. /\ sched'.waiting = sched.waiting \ Winners(sched, now)
      /\ sched'.holders = HoldersAfter(sched, now)
      /\ sched'.unclaimed \subseteq sched.unclaimed \cup GrantsMade(sched, now)
      /\ sched'.next_id = sched.next_id /\ sched'.nested = sched.nested
  OBVIOUS
<1>3. \A m \in won : /\ win(m) \in sched.waiting /\ win(m).machine = m
                     /\ m \in Machines /\ sched.holders[m] = None
  BY <1>1, WinnerWaits DEF Grantable
<1>4. \A m \in won : /\ sched'.holders[m] = AsHolder(win(m), now)
                     /\ sched'.holders[m].id = win(m).id
                     /\ sched'.holders[m].token = SessionToken(win(m))
                     /\ sched'.holders[m] # None
  <2>1. \A m \in won : AsHolder(win(m), now) \in Holder
    BY <1>1, <1>3 DEF AsHolder, Holder, Scheduler, Waiting, SessionToken, Option
  <2>2. \A m \in won : sched'.holders[m] = AsHolder(win(m), now)
    BY <1>2, <1>3 DEF HoldersAfter
  <2> QED
    BY <2>1, <2>2, NoneAssumption DEF AsHolder
<1>5. \A m \in Machines : m \notin won => sched'.holders[m] = sched.holders[m]
  BY <1>2 DEF HoldersAfter
<1>6. \A m \in Held(sched') : \/ m \in won /\ sched'.holders[m].id = win(m).id
                              \/ m \in Held(sched) /\ sched'.holders[m].id = sched.holders[m].id
  BY <1>4, <1>5 DEF Held
<1>7. \A m \in won : win(m).id \in WaitingIds(sched) /\ win(m).id \notin WaitingIds(sched')
  <2>1. \A m \in won : win(m) \in Winners(sched, now)
    BY DEF Winners
  <2> QED
    BY <1>2, <1>3, <2>1 DEF LeaseInv, FreshIds, WaitingIds
<1>8. WaitingIds(sched') \subseteq WaitingIds(sched)
  BY <1>2 DEF WaitingIds
<1>9. NestedIds(sched') = NestedIds(sched)
  BY <1>2 DEF NestedIds
<1>10. \A m, n \in won : win(m).id = win(n).id => m = n
  BY <1>3 DEF LeaseInv, FreshIds
<1>11. \A i \in HeldIds(sched') : i \in HeldIds(sched) \/ \E m \in won : i = win(m).id
  BY <1>6 DEF HeldIds
<1>12. \A m \in Held(sched) : sched.holders[m].id \in HeldIds(sched)
  BY DEF HeldIds
<1>13. FreshIds'
  <2>1. KnownIds' = KnownIds
    BY <1>2 DEF KnownIds
  <2>2. \A v, w \in sched'.waiting : v.id = w.id => v = w
    BY <1>2 DEF LeaseInv, FreshIds
  <2>3. WaitingIds(sched') \cup HeldIds(sched') \cup NestedIds(sched') \subseteq KnownIds
    BY <1>7, <1>8, <1>9, <1>11 DEF LeaseInv, FreshIds
  <2> QED
    BY <2>1, <2>2, <2>3 DEF FreshIds
<1>14. OneState'
  <2>1. WaitingIds(sched') \cap HeldIds(sched') = {}
    BY <1>7, <1>8, <1>11 DEF LeaseInv, OneState
  <2>2. NestedIds(sched') \cap (WaitingIds(sched') \cup HeldIds(sched')) = {}
    BY <1>7, <1>8, <1>9, <1>11 DEF LeaseInv, OneState
  <2>3. ASSUME NEW m \in Held(sched'), NEW n \in Held(sched'),
               sched'.holders[m].id = sched'.holders[n].id
        PROVE  m = n
    <3>1. CASE m \in won /\ n \in won
      BY <1>4, <1>10, <2>3, <3>1
    <3>2. CASE m \notin won /\ n \notin won
      BY <1>5, <1>6, <2>3, <3>2 DEF LeaseInv, OneState
    <3>3. CASE m \in won /\ n \notin won
      <4>1. sched'.holders[n].id \in HeldIds(sched)
        BY <1>6, <1>12, <3>3
      <4>2. sched'.holders[m].id \in WaitingIds(sched)
        BY <1>4, <1>7, <3>3
      <4> QED
        BY <2>3, <4>1, <4>2 DEF LeaseInv, OneState
    <3>4. CASE m \notin won /\ n \in won
      <4>1. sched'.holders[m].id \in HeldIds(sched)
        BY <1>6, <1>12, <3>4
      <4>2. sched'.holders[n].id \in WaitingIds(sched)
        BY <1>4, <1>7, <3>4
      <4> QED
        BY <2>3, <4>1, <4>2 DEF LeaseInv, OneState
    <3> QED
      BY <3>1, <3>2, <3>3, <3>4
  <2> QED
    BY <2>1, <2>2, <2>3 DEF OneState
<1>15. UnclaimedIsHeld'
  <2>1. ASSUME NEW g \in sched.unclaimed
        PROVE  /\ sched'.holders[g.machine] # None
               /\ sched'.holders[g.machine].id = g.id
               /\ sched'.holders[g.machine].token = g.token
               /\ ~g.nested
    <3>1. g.machine \in Machines
      BY <1>1 DEF Scheduler, Grant
    <3>2. sched.holders[g.machine] # None
      BY DEF LeaseInv, UnclaimedIsHeld
    <3>3. g.machine \notin won
      BY <1>3, <3>2
    <3> QED
      BY <1>5, <3>1, <3>3 DEF LeaseInv, UnclaimedIsHeld
  <2>2. ASSUME NEW m \in won
        PROVE  LET g == AsGrant(sched, win(m), now)
               IN  /\ sched'.holders[g.machine] # None
                   /\ sched'.holders[g.machine].id = g.id
                   /\ sched'.holders[g.machine].token = g.token
                   /\ ~g.nested
    <3> DEFINE g == AsGrant(sched, win(m), now)
    <3>1. g.machine = m /\ g.id = win(m).id /\ g.token = SessionToken(win(m)) /\ ~g.nested
      BY <1>3 DEF AsGrant
    <3> QED
      BY <1>4, <3>1
  <2>3. \A g \in GrantsMade(sched, now) : \E m \in won : g = AsGrant(sched, win(m), now)
    BY DEF GrantsMade
  <2> QED
    BY <1>2, <2>1, <2>2, <2>3 DEF UnclaimedIsHeld
<1> QED
  BY <1>13, <1>14, <1>15 DEF Parts

\* release() drops one id everywhere; its grant goes with its lease.
LEMMA ReleaseStep ==
  ASSUME LeaseInv, TypeOK', NEW id, sched' = release(sched, id)
  PROVE  Parts'
<1>1. sched' = release(sched, id)
  OBVIOUS
<1>2. sched \in Scheduler
  BY DEF LeaseInv, TypeOK
<1>3. /\ sched'.waiting = {w \in sched.waiting : w.id # id}
      /\ sched'.unclaimed = {g \in sched.unclaimed : g.id # id}
      /\ sched'.nested = {n \in sched.nested : n.id # id}
      /\ sched'.next_id = sched.next_id
      /\ \A m \in Machines : sched'.holders[m] = IF /\ id \notin NestedIds(sched)
                                                    /\ sched.holders[m] # None
                                                    /\ sched.holders[m].id = id
                                                 THEN None ELSE sched.holders[m]
  BY <1>1, <1>2 DEF release, Scheduler
<1>4. \A g \in sched'.unclaimed : g \in sched.unclaimed /\ sched'.holders[g.machine] # None
  <2>1. \A g \in sched.unclaimed : g.machine \in Machines
    BY <1>2 DEF Scheduler, Grant
  <2> QED
    BY <1>3, <2>1 DEF LeaseInv, UnclaimedIsHeld
<1>5. WaitingIds(sched') \subseteq WaitingIds(sched)
  BY <1>3 DEF WaitingIds
<1>6. \A v, w \in sched'.waiting : v.id = w.id => v = w
  BY <1>3 DEF LeaseInv, FreshIds
<1>7. \A m \in Machines : \/ sched'.holders[m] = None
                          \/ /\ sched.holders[m] # None /\ sched'.holders[m] # None
                             /\ sched'.holders[m].id = sched.holders[m].id
                             /\ sched'.holders[m].token = sched.holders[m].token
  BY <1>3
<1> QED
  BY <1>3, <1>4, <1>5, <1>6, <1>7, ShrinkStep

\* A step that keeps queue, nested runs and next id, and of each holder its id
\* and token, keeps the invariants.
LEMMA FlagStep ==
  ASSUME LeaseInv, TypeOK',
         sched'.next_id = sched.next_id, sched'.waiting = sched.waiting,
         sched'.nested = sched.nested, sched'.unclaimed \subseteq sched.unclaimed,
         \A m \in Machines : \/ sched'.holders[m] = sched.holders[m]
                             \/ /\ sched.holders[m] # None /\ sched'.holders[m] # None
                                /\ sched'.holders[m].id = sched.holders[m].id
                                /\ sched'.holders[m].token = sched.holders[m].token
  PROVE  Parts'
<1>1. \A g \in sched.unclaimed : g.machine \in Machines /\ sched.holders[g.machine] # None
  BY DEF LeaseInv, TypeOK, Scheduler, Grant, UnclaimedIsHeld
<1>2. \A g \in sched'.unclaimed : g \in sched.unclaimed /\ sched'.holders[g.machine] # None
  BY <1>1
<1>3. WaitingIds(sched') \subseteq WaitingIds(sched)
  BY DEF WaitingIds
<1>4. \A v, w \in sched'.waiting : v.id = w.id => v = w
  BY DEF LeaseInv, FreshIds
<1> QED
  BY <1>2, <1>3, <1>4, ShrinkStep

\* reorder() moves a request within the queue.
LEMMA ReorderStep ==
  ASSUME LeaseInv, TypeOK', NEW id, NEW at, sched' = reorder(sched, id, at)
  PROVE  Parts'
<1>1. sched' = reorder(sched, id, at)
  OBVIOUS
<1> DEFINE move(w) == IF w.id = id THEN [w EXCEPT !.manual_position = at] ELSE w
<1>2. sched \in Scheduler
  BY DEF LeaseInv, TypeOK
<1>3. /\ sched'.waiting = {move(w) : w \in sched.waiting}
      /\ sched'.next_id = sched.next_id /\ sched'.nested = sched.nested
      /\ sched'.holders = sched.holders /\ sched'.unclaimed = sched.unclaimed
  BY <1>1, <1>2 DEF reorder, Scheduler
<1>4. \A w \in sched.waiting : move(w).id = w.id
  BY <1>2 DEF Scheduler, Waiting
<1>5. WaitingIds(sched') \subseteq WaitingIds(sched)
  BY <1>3, <1>4, ZenonT(60) DEF WaitingIds
<1>6. \A v, w \in sched'.waiting : v.id = w.id => v = w
  <2>1. \A v, w \in sched.waiting : move(v).id = move(w).id => v = w
    BY <1>4 DEF LeaseInv, FreshIds
  <2>2. SUFFICES ASSUME NEW x \in sched'.waiting, NEW y \in sched'.waiting, x.id = y.id
                 PROVE  x = y
    OBVIOUS
  <2>3. PICK v \in sched.waiting : x = move(v)
    BY <1>3
  <2>4. PICK w \in sched.waiting : y = move(w)
    BY <1>3
  <2> QED
    BY <2>1, <2>2, <2>3, <2>4
<1>7. \A g \in sched'.unclaimed : g \in sched.unclaimed /\ sched'.holders[g.machine] # None
  BY <1>3 DEF LeaseInv, UnclaimedIsHeld
<1>8. \A m \in Machines : \/ sched'.holders[m] = None
                          \/ /\ sched.holders[m] # None /\ sched'.holders[m] # None
                             /\ sched'.holders[m].id = sched.holders[m].id
                             /\ sched'.holders[m].token = sched.holders[m].token
  BY <1>3
<1> QED
  BY <1>3, <1>5, <1>6, <1>7, <1>8, ShrinkStep

\* What preempt() and overruns() may change between two schedulers: flags.
OnlyFlags(s, t) ==
  /\ t.next_id = s.next_id /\ t.waiting = s.waiting
  /\ t.nested = s.nested /\ t.unclaimed = s.unclaimed
  /\ \A m \in Machines : \/ t.holders[m] = s.holders[m]
                         \/ /\ s.holders[m] # None /\ t.holders[m] # None
                            /\ t.holders[m].id = s.holders[m].id
                            /\ t.holders[m].token = s.holders[m].token

LEMMA PreemptFields ==
  ASSUME NEW s \in Scheduler, NEW id PROVE OnlyFlags(s, preempt(s, id))
<1> DEFINE t == preempt(s, id)
<1>1. \A m \in Machines : s.holders[m] # None =>
        LET h == [s.holders[m] EXCEPT !.preempting = TRUE]
        IN  h \in Holder /\ h.id = s.holders[m].id /\ h.token = s.holders[m].token
  BY DEF Scheduler, Option, Holder
<1>2. /\ t.next_id = s.next_id /\ t.waiting = s.waiting
      /\ t.nested = s.nested /\ t.unclaimed = s.unclaimed
      /\ \A m \in Machines :
           t.holders[m] = IF s.holders[m] # None /\ s.holders[m].id = id
                          THEN [s.holders[m] EXCEPT !.preempting = TRUE]
                          ELSE s.holders[m]
  BY DEF preempt, Scheduler
<1> QED
  BY <1>1, <1>2, NoneAssumption DEF OnlyFlags

LEMMA OverrunsFields ==
  ASSUME NEW s \in Scheduler, NEW time PROVE OnlyFlags(s, overruns(s, time))
<1> DEFINE t == overruns(s, time)
<1>1. \A m \in Machines : s.holders[m] # None =>
        LET h == [s.holders[m] EXCEPT !.overrun_logged = TRUE]
        IN  h \in Holder /\ h.id = s.holders[m].id /\ h.token = s.holders[m].token
  BY DEF Scheduler, Option, Holder
<1>2. /\ t.next_id = s.next_id /\ t.waiting = s.waiting
      /\ t.nested = s.nested /\ t.unclaimed = s.unclaimed
      /\ \A m \in Machines :
           t.holders[m] = IF s.holders[m] # None /\ Overdue(s.holders[m], time)
                          THEN [s.holders[m] EXCEPT !.overrun_logged = TRUE]
                          ELSE s.holders[m]
  BY DEF overruns, Scheduler
<1> QED
  BY <1>1, <1>2, NoneAssumption DEF OnlyFlags

\* The remaining actions leave queue, holders, nested runs and ids alone, but for
\* flags of a holder and the grant that is claimed.
LEMMA PlainFields ==
  ASSUME TypeOK,
         Claim \/ SetPaused \/ Reserve \/ Preempt \/ Ci \/ SetMergeQueue \/ Overruns \/ Tick
           \/ UNCHANGED vars
  PROVE  /\ sched'.next_id = sched.next_id /\ sched'.waiting = sched.waiting
         /\ sched'.nested = sched.nested /\ sched'.unclaimed \subseteq sched.unclaimed
         /\ \A m \in Machines : \/ sched'.holders[m] = sched.holders[m]
                                \/ /\ sched.holders[m] # None /\ sched'.holders[m] # None
                                   /\ sched'.holders[m].id = sched.holders[m].id
                                   /\ sched'.holders[m].token = sched.holders[m].token
<1>0. sched \in Scheduler
  BY DEF TypeOK
<1>1. CASE Claim
  BY <1>0, <1>1 DEF Claim, claim, Scheduler
<1>2. CASE SetPaused
  BY <1>0, <1>2 DEF SetPaused, set_paused, Scheduler
<1>3. CASE Reserve
  BY <1>0, <1>3 DEF Reserve, reserve, Scheduler
<1>4. CASE Preempt
  BY <1>0, <1>4, PreemptFields DEF Preempt, OnlyFlags
<1>5. CASE Ci
  BY <1>0, <1>5 DEF Ci, ci_start, ci_stop, Scheduler
<1>6. CASE SetMergeQueue
  BY <1>0, <1>6 DEF SetMergeQueue, set_merge_queue, Scheduler
<1>7. CASE Overruns
  BY <1>0, <1>7, OverrunsFields DEF Overruns, OnlyFlags
<1>8. CASE Tick \/ UNCHANGED vars
  BY <1>8 DEF Tick, vars
<1> QED
  BY <1>1, <1>2, <1>3, <1>4, <1>5, <1>6, <1>7, <1>8

\* LeaseInv is inductive.
LEMMA InvInit ==
  Init => LeaseInv
<1>1. Init => FreshIds /\ OneState /\ UnclaimedIsHeld
  BY DEF Init, Initial, FreshIds, OneState, UnclaimedIsHeld, KnownIds,
         WaitingIds, NestedIds, HeldIds, Held
<1> QED
  BY <1>1, TypeInit DEF LeaseInv

\* Every action keeps LeaseInv.
LEMMA InvStep ==
  LeaseInv /\ [Next]_vars => LeaseInv'
<1> SUFFICES ASSUME LeaseInv, [Next]_vars PROVE LeaseInv'
  OBVIOUS
<1>1. TypeOK'
  BY TypeStep DEF LeaseInv
<1>2. CASE Admit
  BY <1>1, <1>2, AdmitStep DEF Admit, LeaseInv, Parts
<1>3. CASE GrantAll
  <2>1. sched \in Scheduler /\ now \in Nat
    BY DEF LeaseInv, TypeOK
  <2>2. Parts'
    BY <1>3, <2>1, GrantType, GrantStep DEF GrantAll
  <2> QED
    BY <1>1, <2>2 DEF LeaseInv, Parts
<1>4. CASE Release
  BY <1>1, <1>4, ReleaseStep DEF Release, LeaseInv, Parts
<1>5. CASE Reorder
  BY <1>1, <1>5, ReorderStep DEF Reorder, LeaseInv, Parts
<1>6. CASE Claim \/ SetPaused \/ Reserve \/ Preempt \/ Ci \/ SetMergeQueue \/ Overruns
            \/ Tick \/ UNCHANGED vars
  <2>1. TypeOK
    BY DEF LeaseInv
  <2>2. Parts'
    BY <1>1, <1>6, <2>1, PlainFields, FlagStep
  <2> QED
    BY <1>1, <2>2 DEF LeaseInv, Parts
<1> QED
  BY <1>2, <1>3, <1>4, <1>5, <1>6 DEF Next

\* In every reachable state ids are unique and below next_id, a request waits,
\* holds one machine or runs nested but never two of these, and an unclaimed
\* grant is the lease of its machine's holder.
THEOREM LeasesConsistent == Spec => []LeasesAgree
<1>1. LeaseInv => LeasesAgree
  BY DEF LeaseInv, LeasesAgree
<1> QED
  BY <1>1, InvInit, InvStep, PTL DEF Spec

-----------------------------------------------------------------------------
(* Refinement: the scheduler implements MachineLease. *)

Owner(s) == [m \in Machines |-> IF s.holders[m] = None THEN None ELSE s.holders[m].id]
Spent(s) == (1..(s.next_id - 1)) \ WaitingIds(s)

\* A step that leaves the owners alone and revives no request is a Retire.
LEMMA KeepOwners ==
  ASSUME Owner(sched') = Owner(sched), Spent(sched) \subseteq Spent(sched')
  PROVE  Lease!Next
  BY DEF Owner, Spent, KnownIds, Lease!Next, Lease!Retire

\* grant() is an Acquire: each machine that gets an owner was free, and its new
\* owner was waiting.
LEMMA GrantAcquires ==
  ASSUME LeaseInv, GrantAll PROVE Lease!Next
<1> DEFINE won == Grantable(sched, now)
           win(m) == Winner(sched, m, now)
           changed == {m \in Machines : Owner(sched)[m] # Owner(sched')[m]}
<1>1. sched \in Scheduler /\ now \in Nat
  BY DEF LeaseInv, TypeOK
<1>2. /\ sched'.waiting = sched.waiting \ Winners(sched, now)
      /\ sched'.holders = HoldersAfter(sched, now)
      /\ sched'.next_id = sched.next_id
  BY <1>1, GrantType DEF GrantAll
<1>3. \A m \in won : /\ win(m) \in sched.waiting /\ win(m) \in Waiting /\ win(m).machine = m
                     /\ m \in Machines /\ sched.holders[m] = None
  BY <1>1, WinnerWaits DEF Grantable, Scheduler
<1>4. \A m \in won : Owner(sched)[m] = None /\ Owner(sched')[m] = win(m).id
  <2>1. \A m \in won : AsHolder(win(m), now) \in Holder /\ AsHolder(win(m), now).id = win(m).id
    BY <1>1, <1>3 DEF AsHolder, Holder, Waiting, SessionToken, Option
  <2>2. \A m \in won : sched'.holders[m] = AsHolder(win(m), now)
    BY <1>2, <1>3 DEF HoldersAfter
  <2> QED
    BY <1>3, <2>1, <2>2, NoneAssumption DEF Owner
<1>5. \A m \in Machines : m \notin won => Owner(sched')[m] = Owner(sched)[m]
  BY <1>2 DEF Owner, HoldersAfter
<1>6. \A m \in won : win(m).id \in Nat /\ win(m).id # None
  BY <1>3, NoneAssumption DEF Waiting, Ids
<1>7. changed = won
  BY <1>3, <1>4, <1>5, <1>6
<1>8. \A m, n \in won : win(m).id = win(n).id => m = n
  BY <1>3 DEF LeaseInv, FreshIds
<1>9. \A m \in won : win(m).id \in WaitingIds(sched) /\ win(m).id \in KnownIds
  BY <1>3 DEF LeaseInv, FreshIds, WaitingIds
<1>10. WaitingIds(sched') = WaitingIds(sched) \ {win(m).id : m \in won}
  <2>1. \A w \in sched.waiting : w.id \in {win(m).id : m \in won} <=> w \in Winners(sched, now)
    BY <1>3 DEF LeaseInv, FreshIds, Winners
  <2> QED
    BY <1>2, <2>1 DEF WaitingIds
<1>11. Spent(sched') = Spent(sched) \cup {Owner(sched')[m] : m \in changed}
  <2>1. {Owner(sched')[m] : m \in changed} = {win(m).id : m \in won}
    BY <1>4, <1>7
  <2> QED
    BY <1>2, <1>9, <1>10, <2>1 DEF Spent, KnownIds
<1>12. \A m \in changed : /\ Owner(sched)[m] = None
                          /\ Owner(sched')[m] \in Nat \ Spent(sched)
                          /\ \A n \in changed : Owner(sched')[m] = Owner(sched')[n] => m = n
  BY <1>4, <1>6, <1>7, <1>8, <1>9 DEF Spent
<1> QED
  BY <1>11, <1>12 DEF Lease!Next, Lease!Acquire, Owner, Spent, KnownIds

\* release() is a Retire: by OneState at most one machine loses its owner.
LEMMA ReleaseRetires ==
  ASSUME LeaseInv, Release PROVE Lease!Next
<1>1. PICK id \in KnownIds : sched' = release(sched, id)
  BY DEF Release
<1>2. sched \in Scheduler
  BY DEF LeaseInv, TypeOK
<1>3. /\ sched'.waiting = {w \in sched.waiting : w.id # id}
      /\ sched'.next_id = sched.next_id
      /\ \A m \in Machines : sched'.holders[m] = IF /\ id \notin NestedIds(sched)
                                                    /\ sched.holders[m] # None
                                                    /\ sched.holders[m].id = id
                                                 THEN None ELSE sched.holders[m]
  BY <1>1, <1>2 DEF release, Scheduler
<1>4. Spent(sched) \subseteq Spent(sched')
  BY <1>3 DEF Spent, WaitingIds
<1>5. CASE \E m \in Machines : /\ id \notin NestedIds(sched)
                               /\ sched.holders[m] # None /\ sched.holders[m].id = id
  <2>1. PICK m \in Machines : /\ id \notin NestedIds(sched)
                              /\ sched.holders[m] # None /\ sched.holders[m].id = id
    BY <1>5
  <2>2. \A n \in Machines : sched.holders[n] # None /\ sched.holders[n].id = id => n = m
    BY <2>1 DEF LeaseInv, OneState, Held
  <2>3. Owner(sched)[m] # None
    BY <1>2, <2>1, NoneAssumption DEF Owner, Scheduler, Option, Holder, Ids
  <2>4. Owner(sched') = [Owner(sched) EXCEPT ![m] = None]
    BY <1>3, <2>1, <2>2 DEF Owner
  <2> QED
    BY <1>4, <2>3, <2>4 DEF Lease!Next, Lease!Retire, Owner, Spent, KnownIds
<1>6. CASE ~\E m \in Machines : /\ id \notin NestedIds(sched)
                                /\ sched.holders[m] # None /\ sched.holders[m].id = id
  <2>1. \A m \in Machines : sched'.holders[m] = sched.holders[m]
    BY <1>3, <1>6
  <2>2. Owner(sched') = Owner(sched)
    BY <2>1 DEF Owner
  <2> QED
    BY <1>4, <2>2, KeepOwners
<1> QED
  BY <1>5, <1>6

\* Every step of the scheduler is a step of MachineLease, or none.
LEMMA LeaseStep ==
  LeaseInv /\ [Next]_vars => [Lease!Next]_(Lease!leaseVars)
<1> SUFFICES ASSUME LeaseInv, [Next]_vars PROVE Lease!Next
  OBVIOUS
<1>0. sched \in Scheduler
  BY DEF LeaseInv, TypeOK
<1>1. CASE Admit
  <2>1. PICK r \in Requests, token \in Option(KnownIds) : sched' = admit(sched, r, token, now)
    BY <1>1 DEF Admit
  <2>2. /\ sched'.holders = sched.holders
        /\ \/ sched' = sched
           \/ sched'.next_id = sched.next_id + 1 /\ sched'.waiting = sched.waiting
           \/ /\ sched'.next_id = sched.next_id + 1
              /\ sched'.waiting = sched.waiting \cup {AsWaiting(r, sched.next_id, now)}
    <3>1. CASE Admission(sched, r, token) = "refused"
      BY <2>1, <3>1 DEF admit
    <3>2. CASE Admission(sched, r, token) = "preempted"
      <4>1. sched' = [sched EXCEPT !.next_id = @ + 1]
        BY <2>1, <3>2 DEF admit
      <4> QED
        BY <1>0, <4>1 DEF Scheduler
    <3>3. CASE Admission(sched, r, token) = "nested"
      <4>1. sched' = [sched EXCEPT !.next_id = @ + 1,
                                   !.nested = @ \cup {[id |-> sched.next_id, machine |-> r.machine]}]
        BY <2>1, <3>3 DEF admit
      <4> QED
        BY <1>0, <4>1 DEF Scheduler
    <3>4. CASE Admission(sched, r, token) = "queued"
      <4>1. sched' = [sched EXCEPT !.next_id = @ + 1,
                                   !.waiting = @ \cup {AsWaiting(r, sched.next_id, now)}]
        BY <2>1, <3>4 DEF admit
      <4> QED
        BY <1>0, <4>1 DEF Scheduler
    <3> QED
      BY <3>1, <3>2, <3>3, <3>4 DEF Admission
  <2>3. sched.next_id \in Nat
    BY <1>0 DEF Scheduler, Ids
  <2>4. AsWaiting(r, sched.next_id, now).id = sched.next_id
    BY DEF AsWaiting
  <2>5. Spent(sched) \subseteq Spent(sched')
    <3>1. WaitingIds(sched') \subseteq WaitingIds(sched) \cup {sched.next_id}
      BY <2>2, <2>4 DEF WaitingIds
    <3>2. sched'.next_id = sched.next_id \/ sched'.next_id = sched.next_id + 1
      BY <2>2
    <3> QED
      BY <2>3, <3>1, <3>2 DEF Spent
  <2>6. Owner(sched') = Owner(sched)
    BY <2>2 DEF Owner
  <2> QED
    BY <2>5, <2>6, KeepOwners
<1>2. CASE GrantAll
  BY <1>2, GrantAcquires
<1>3. CASE Release
  BY <1>3, ReleaseRetires
<1>4. CASE Reorder
  <2>1. PICK id \in WaitingIds(sched), at \in Positions : sched' = reorder(sched, id, at)
    BY <1>4 DEF Reorder
  <2> DEFINE move(w) == IF w.id = id THEN [w EXCEPT !.manual_position = at] ELSE w
  <2>2. /\ sched'.waiting = {move(w) : w \in sched.waiting}
        /\ sched'.next_id = sched.next_id /\ sched'.holders = sched.holders
    BY <1>0, <2>1 DEF reorder, Scheduler
  <2>3. \A w \in sched.waiting : move(w).id = w.id
    <3>1. sched.waiting \subseteq Waiting
      BY <1>0 DEF Scheduler
    <3> QED
      BY <3>1 DEF Waiting
  <2>4. WaitingIds(sched') \subseteq WaitingIds(sched)
    BY <2>2, <2>3 DEF WaitingIds
  <2>5. Owner(sched') = Owner(sched) /\ Spent(sched) \subseteq Spent(sched')
    BY <2>2, <2>4 DEF Owner, Spent
  <2> QED
    BY <2>5, KeepOwners
<1>5. CASE Claim \/ SetPaused \/ Reserve \/ Preempt \/ Ci \/ SetMergeQueue \/ Overruns
            \/ Tick \/ UNCHANGED vars
  <2>1. TypeOK
    BY DEF LeaseInv
  <2>2. /\ sched'.next_id = sched.next_id /\ sched'.waiting = sched.waiting
        /\ \A m \in Machines : \/ sched'.holders[m] = sched.holders[m]
                               \/ /\ sched.holders[m] # None /\ sched'.holders[m] # None
                                  /\ sched'.holders[m].id = sched.holders[m].id
    BY <1>5, <2>1, PlainFields
  <2>3. Owner(sched') = Owner(sched) /\ Spent(sched') = Spent(sched)
    BY <2>2 DEF Owner, Spent, WaitingIds
  <2> QED
    BY <2>3, KeepOwners
<1> QED
  BY <1>1, <1>2, <1>3, <1>4, <1>5 DEF Next

\* For every machine set and every order of calls: a machine has one owner, is
\* free between two owners, and a request that held, ran nested or left never
\* gets a machine again.
THEOREM SchedulerImplementsLease == Spec => LeaseSpec
<1>1. Init => Lease!Init
  BY DEF Init, Initial, Lease!Init, KnownIds, WaitingIds
<1> QED
  BY <1>1, InvInit, InvStep, LeaseStep, PTL DEF Spec, LeaseSpec, Lease!Spec

-----------------------------------------------------------------------------
(* Preemption. *)

\* Every step of the scheduler lets a preempted session only end.
LEMMA PreemptStep ==
  ASSUME TypeOK, [Next]_vars, NEW m \in Held(sched), sched.holders[m].preempting
  PROVE  /\ \/ sched'.holders[m] = None
            \/ sched'.holders[m].id = sched.holders[m].id /\ sched'.holders[m].preempting
         /\ {n \in sched'.nested : n.machine = m} \subseteq sched.nested
<1>0. /\ sched \in Scheduler /\ now \in Nat /\ m \in Machines /\ sched.holders[m] # None
      /\ sched.holders[m] \in Holder
  BY DEF TypeOK, Held, Scheduler, Option
<1>1. CASE Admit
  <2>1. PICK r \in Requests, token \in Option(KnownIds) : sched' = admit(sched, r, token, now)
    BY <1>1 DEF Admit
  <2> DEFINE run == [id |-> sched.next_id, machine |-> r.machine]
             new == AsWaiting(r, sched.next_id, now)
  <2>2. CASE Admission(sched, r, token) = "nested"
    <3>1. sched' = [sched EXCEPT !.next_id = @ + 1, !.nested = @ \cup {run}]
      BY <2>1, <2>2 DEF admit
    <3>2. r.machine # m
      BY <2>2 DEF Admission
    <3>3. run.machine # m
      BY <3>2
    <3> HIDE DEF run
    <3>4. sched'.holders = sched.holders /\ sched'.nested = sched.nested \cup {run}
      BY <1>0, <3>1 DEF Scheduler
    <3> QED
      BY <3>3, <3>4
  <2>3. CASE Admission(sched, r, token) # "nested"
    <3>1. \/ sched' = sched
          \/ sched' = [sched EXCEPT !.next_id = @ + 1]
          \/ sched' = [sched EXCEPT !.next_id = @ + 1, !.waiting = @ \cup {new}]
      BY <2>1, <2>3 DEF admit
    <3> HIDE DEF new
    <3>2. sched'.holders = sched.holders /\ sched'.nested = sched.nested
      BY <1>0, <3>1 DEF Scheduler
    <3> QED
      BY <3>2
  <2> QED
    BY <2>2, <2>3
<1>2. CASE GrantAll
  <2>1. sched'.holders = HoldersAfter(sched, now) /\ sched'.nested = sched.nested
    BY <1>0, <1>2, GrantType DEF GrantAll
  <2>2. m \notin Grantable(sched, now)
    BY <1>0 DEF Grantable
  <2>3. sched'.holders[m] = sched.holders[m]
    BY <1>0, <2>1, <2>2 DEF HoldersAfter
  <2> QED
    BY <2>1, <2>3
<1>3. CASE Release
  <2>1. PICK id \in KnownIds : sched' = release(sched, id)
    BY <1>3 DEF Release
  <2>2. /\ sched'.holders[m] = None \/ sched'.holders[m] = sched.holders[m]
        /\ sched'.nested \subseteq sched.nested
    BY <1>0, <2>1 DEF release, Scheduler
  <2> QED
    BY <2>2
<1>4. CASE Preempt
  <2>1. PICK id \in HeldIds(sched) : sched' = preempt(sched, id)
    BY <1>4 DEF Preempt
  <2> DEFINE h == [sched.holders[m] EXCEPT !.preempting = TRUE]
  <2>2. h.id = sched.holders[m].id /\ h.preempting
    BY <1>0 DEF Holder
  <2>3. /\ sched'.holders[m] = h \/ sched'.holders[m] = sched.holders[m]
        /\ sched'.nested = sched.nested
    BY <1>0, <2>1 DEF preempt, Scheduler
  <2> HIDE DEF h
  <2> QED
    BY <2>2, <2>3
<1>5. CASE Overruns
  <2> DEFINE h == [sched.holders[m] EXCEPT !.overrun_logged = TRUE]
  <2>2. h.id = sched.holders[m].id /\ h.preempting = sched.holders[m].preempting
    BY <1>0 DEF Holder
  <2>3. /\ sched'.holders[m] = h \/ sched'.holders[m] = sched.holders[m]
        /\ sched'.nested = sched.nested
    BY <1>0, <1>5 DEF Overruns, overruns, Scheduler
  <2> HIDE DEF h
  <2> QED
    BY <2>2, <2>3
<1>6. CASE Reorder
  <2>1. sched'.holders = sched.holders /\ sched'.nested = sched.nested
    BY <1>0, <1>6 DEF Reorder, reorder, Scheduler
  <2> QED
    BY <2>1
<1>7. CASE Claim \/ SetPaused \/ Reserve \/ Ci \/ SetMergeQueue \/ Tick \/ UNCHANGED vars
  <2>1. sched'.holders = sched.holders /\ sched'.nested = sched.nested
    <3>1. CASE Claim
      BY <1>0, <3>1 DEF Claim, claim, Scheduler
    <3>2. CASE SetPaused
      BY <1>0, <3>2 DEF SetPaused, set_paused, Scheduler
    <3>3. CASE Reserve
      BY <1>0, <3>3 DEF Reserve, reserve, Scheduler
    <3>4. CASE Ci
      BY <1>0, <3>4 DEF Ci, ci_start, ci_stop, Scheduler
    <3>5. CASE SetMergeQueue
      BY <1>0, <3>5 DEF SetMergeQueue, set_merge_queue, Scheduler
    <3>6. CASE Tick \/ UNCHANGED vars
      BY <3>6 DEF Tick, vars
    <3> QED
      BY <1>7, <3>1, <3>2, <3>3, <3>4, <3>5, <3>6
  <2> QED
    BY <2>1
<1> QED
  BY <1>1, <1>2, <1>3, <1>4, <1>5, <1>6, <1>7 DEF Next

\* Once preempt() has marked a session, whatever is called in whatever order, the
\* machine stays with it, marked, and gets no nested run until release() frees it.
THEOREM PreemptionIsFinal == Spec => PreemptEndsSession
<1>1. TypeOK /\ [Next]_vars =>
        [\A m \in Held(sched) : sched.holders[m].preempting =>
           /\ \/ sched'.holders[m] = None
              \/ sched'.holders[m].id = sched.holders[m].id /\ sched'.holders[m].preempting
           /\ {n \in sched'.nested : n.machine = m} \subseteq sched.nested]_vars
  BY PreemptStep
<1> QED
  BY <1>1, TypeInit, TypeStep, PTL DEF Spec, PreemptEndsSession

-----------------------------------------------------------------------------
(* The grant order.  A sort is followed by counting, and the placing of the *)
(* moved requests by an induction on a set, since the library's induction   *)
(* theorem takes a predicate as a parameter.                                *)

\* Every nonempty set of naturals has a least element.
LEMMA Least ==
  ASSUME NEW T \in SUBSET Nat, T # {}
  PROVE  \E n \in T : \A m \in T : n <= m
<1>1. \E n \in T : \A m \in T : ~ (<<m, n>> \in OpToRel(<, Nat))
  BY NatLessThanWellFounded, WFMin
<1>2. \A m, n \in Nat : <<m, n>> \in OpToRel(<, Nat) <=> m < n
  BY DEF OpToRel
<1>3. PICK n \in T : \A m \in T : ~ (<<m, n>> \in OpToRel(<, Nat))
  BY <1>1
<1>4. \A m \in T : ~ (m < n)
  BY <1>2, <1>3
<1> QED
  BY <1>4

\* A set with 0 and the successor of each natural in it has all naturals.
LEMMA Induction ==
  ASSUME NEW S, 0 \in S, \A n \in Nat : n \in S => n + 1 \in S
  PROVE  \A n \in Nat : n \in S
<1> SUFFICES ASSUME Nat \ S # {} PROVE FALSE
  OBVIOUS
<1>1. PICK n \in Nat \ S : \A m \in Nat \ S : n <= m
  BY Least
<1>2. n # 0 /\ n - 1 \in Nat /\ ~ (n <= n - 1)
  BY <1>1
<1>3. n - 1 \in S
  BY <1>1, <1>2
<1>4. (n - 1) + 1 \in S
  BY <1>2, <1>3
<1> QED
  BY <1>1, <1>4

\* A strict total order of S, as a set of pairs.
TotalOrder(S, R) ==
  /\ \A v \in S : <<v, v>> \notin R
  /\ \A v, w \in S : v # w => <<v, w>> \in R \/ <<w, v>> \in R
  /\ \A u, v, w \in S : <<u, v>> \in R /\ <<v, w>> \in R => <<u, w>> \in R

\* The places of the elements of a finite total order, which are how many come
\* before each, follow the order and are all taken.
LEMMA Ranks ==
  ASSUME NEW S, IsFiniteSet(S), NEW R, TotalOrder(S, R),
         NEW place, place = [w \in S |-> Cardinality({v \in S : <<v, w>> \in R})]
  PROVE  /\ \A w \in S : place[w] \in 0 .. Cardinality(S) - 1
         /\ \A v, w \in S : <<v, w>> \in R => place[v] < place[w]
         /\ \A n \in 0 .. Cardinality(S) - 1 : \E w \in S : place[w] = n
<1> DEFINE N == Cardinality(S)
           ahead(w) == {v \in S : <<v, w>> \in R}
<1> USE DEF TotalOrder
<1>1. N \in Nat
  BY FS_CardinalityType
<1>2. IsFiniteSet(0 .. N - 1) /\ Cardinality(0 .. N - 1) = N
  <2> HIDE DEF N
  <2>1. 0 \in Int /\ N - 1 \in Int /\ (0 > N - 1 <=> N = 0)
    BY <1>1
  <2>2. Cardinality(0 .. N - 1) = IF 0 > N - 1 THEN 0 ELSE (N - 1) - 0 + 1
    BY <2>1, FS_Interval
  <2> QED
    BY <1>1, <2>1, <2>2, FS_Interval
<1>3. ASSUME NEW w \in S
      PROVE  IsFiniteSet(ahead(w)) /\ place[w] = Cardinality(ahead(w)) /\ place[w] \in 0 .. N - 1
  <2>1. ahead(w) \in SUBSET S /\ w \notin ahead(w)
    OBVIOUS
  <2>2. place[w] = Cardinality(ahead(w))
    OBVIOUS
  <2> HIDE DEF ahead
  <2>3. IsFiniteSet(ahead(w)) /\ Cardinality(ahead(w)) \in Nat
    BY <2>1, FS_Subset, FS_CardinalityType
  <2>4. Cardinality(ahead(w)) <= N /\ Cardinality(ahead(w)) # N
    BY <2>1, FS_Subset
  <2> HIDE DEF N
  <2> QED
    BY <1>1, <2>2, <2>3, <2>4
<1>4. ASSUME NEW v \in S, NEW w \in S, <<v, w>> \in R
      PROVE  place[v] < place[w]
  <2>1. ahead(v) \in SUBSET ahead(w) /\ v \in ahead(w) /\ v \notin ahead(v)
    BY <1>4
  <2>2. IsFiniteSet(ahead(v)) /\ IsFiniteSet(ahead(w))
    BY <1>3
  <2>3. place[v] = Cardinality(ahead(v)) /\ place[w] = Cardinality(ahead(w))
    BY <1>3
  <2>4. Cardinality(ahead(v)) \in Nat /\ Cardinality(ahead(w)) \in Nat
    BY <2>2, FS_CardinalityType
  <2> HIDE DEF ahead
  <2>5. Cardinality(ahead(v)) <= Cardinality(ahead(w))
    BY <2>1, <2>2, FS_Subset
  <2>6. Cardinality(ahead(v)) # Cardinality(ahead(w))
    BY <2>1, <2>2, FS_Subset
  <2> QED
    BY <2>3, <2>4, <2>5, <2>6
<1> HIDE DEF N, ahead
<1>5. place \in [S -> 0 .. N - 1]
  BY <1>3
<1>6. place \in Injection(S, 0 .. N - 1)
  <2>1. ASSUME NEW v \in S, NEW w \in S, v # w
        PROVE  place[v] # place[w]
    <3>1. place[v] < place[w] \/ place[w] < place[v]
      BY <2>1, <1>4
    <3> QED
      BY <3>1, <1>5
  <2>2. DOMAIN place = S
    BY <1>5
  <2>3. \A a, b \in DOMAIN place : place[a] = place[b] => a = b
    BY <2>1, <2>2
  <2>4. IsInjective(place)
    BY <2>3, Zenon DEF IsInjective
  <2> QED
    BY <2>4, <1>5, Zenon DEF Injection
<1>7. place \in Surjection(S, 0 .. N - 1)
  BY <1>2, <1>6, FS_Injection DEF N
<1>8. \A n \in 0 .. N - 1 : \E w \in S : place[w] = n
  BY <1>7 DEF Surjection
<1> QED
  BY <1>3, <1>4, <1>8 DEF N

\* q lists S in the order R.
Lists(S, R, q) ==
  /\ q \in Seq(S)
  /\ \A w \in S : \E n \in 1 .. Len(q) : q[n] = w
  /\ \A m, n \in 1 .. Len(q) : m < n => <<q[m], q[n]>> \in R

\* A list whose n-th element is one that n - 1 others come before lists a finite
\* set, each element once and in order.
LEMMA SortSorts ==
  ASSUME NEW S, IsFiniteSet(S), NEW R, TotalOrder(S, R),
         NEW place,
         \A w \in S : place[w] \in 0 .. Cardinality(S) - 1,
         \A v, w \in S : <<v, w>> \in R => place[v] < place[w],
         NEW q \in [1 .. Cardinality(S) -> S],
         \A n \in 1 .. Cardinality(S) : place[q[n]] = n - 1
  PROVE  Lists(S, R, q)
<1> DEFINE N == Cardinality(S)
<1>1. N \in Nat
  BY FS_CardinalityType
<1>2. /\ \A w \in S : place[w] \in 0 .. N - 1
      /\ \A v, w \in S : <<v, w>> \in R => place[v] < place[w]
  OBVIOUS
<1>3. \A n \in 1 .. N : q[n] \in S /\ place[q[n]] = n - 1
  OBVIOUS
<1>4. q \in [1 .. N -> S]
  OBVIOUS
<1> HIDE DEF N
<1>5. q \in Seq(S) /\ Len(q) = N
  BY <1>1, <1>4
<1>6. ASSUME NEW w \in S PROVE \E n \in 1 .. N : q[n] = w
  <2> DEFINE n == place[w] + 1
  <2>1. n \in 1 .. N
    BY <1>1, <1>2
  <2>2. place[q[n]] = n - 1 /\ q[n] \in S
    BY <2>1, <1>3
  <2>3. place[q[n]] = place[w]
    BY <2>2, <1>2
  <2> HIDE DEF n
  <2>4. q[n] = w
    <3> SUFFICES ASSUME q[n] # w PROVE FALSE
      OBVIOUS
    <3>1. <<q[n], w>> \in R \/ <<w, q[n]>> \in R
      BY <2>2 DEF TotalOrder
    <3>2. place[q[n]] < place[w] \/ place[w] < place[q[n]]
      BY <3>1, <2>2, <1>2
    <3> QED
      BY <3>2, <2>3, <1>2
  <2> QED
    BY <2>1, <2>4
<1>7. ASSUME NEW m \in 1 .. N, NEW n \in 1 .. N, m < n
      PROVE  <<q[m], q[n]>> \in R
  <2>1. place[q[m]] < place[q[n]] /\ q[m] \in S /\ q[n] \in S
    BY <1>1, <1>3, <1>7
  <2>2. q[m] # q[n] /\ ~ (place[q[n]] < place[q[m]])
    BY <2>1, <1>2
  <2> QED
    BY <2>1, <2>2, <1>2 DEF TotalOrder
<1> QED
  BY <1>5, <1>6, <1>7 DEF Lists

\* The two sorts of order() do so.
LEMMA AutomaticSorts ==
  ASSUME NEW s, NEW machine, NEW S, S = Automatic(s, machine), IsFiniteSet(S),
         NEW R, R = {p \in S \X S : Before(s.merge_queue, p[1], p[2])}, TotalOrder(S, R),
         NEW q, q = SortedAutomatic(s, machine)
  PROVE  Lists(S, R, q)
<1> DEFINE N == Cardinality(S)
           At(n, w) == Cardinality({v \in S : Before(s.merge_queue, v, w)}) = n - 1
           place == [w \in S |-> Cardinality({v \in S : <<v, w>> \in R})]
<1>1. q = [n \in 1 .. N |-> CHOOSE w \in S : At(n, w)]
  BY DEF SortedAutomatic, InGrantOrder
<1>2. \A w \in S : {v \in S : <<v, w>> \in R} = {v \in S : Before(s.merge_queue, v, w)}
  OBVIOUS
<1>3. \A n, w : w \in S => (place[w] = n - 1 <=> At(n, w))
  BY <1>2
<1>3a. place = [w \in S |-> Cardinality({v \in S : <<v, w>> \in R})]
  OBVIOUS
<1> HIDE DEF place
<1>3b. /\ \A w \in S : place[w] \in 0 .. N - 1
       /\ \A v, w \in S : <<v, w>> \in R => place[v] < place[w]
       /\ \A k \in 0 .. N - 1 : \E w \in S : place[w] = k
  BY <1>3a, Ranks
<1>4. ASSUME NEW n \in 1 .. N PROVE q[n] \in S /\ place[q[n]] = n - 1
  <2>1. q[n] = CHOOSE v \in S : At(n, v)
    BY <1>1
  <2>2. \E w \in S : At(n, w)
    <3>1. n - 1 \in 0 .. N - 1
      BY FS_CardinalityType
    <3> QED
      BY <1>3, <1>3b, <3>1
  <2> HIDE DEF At
  <2>3. q[n] \in S /\ At(n, q[n])
    BY <2>1, <2>2
  <2> QED
    BY <1>3, <2>3
<1>5. q \in [1 .. N -> S]
  <2> DEFINE at(n) == CHOOSE w \in S : At(n, w)
  <2>1. q = [n \in 1 .. N |-> at(n)]
    BY <1>1
  <2>2. \A n \in 1 .. N : at(n) \in S
    BY <1>4, <2>1
  <2> HIDE DEF at
  <2> QED
    BY <2>1, <2>2
<1>6. \A n \in 1 .. N : place[q[n]] = n - 1
  BY <1>4
<1> HIDE DEF At
<1> QED
  BY <1>3b, <1>5, <1>6, SortSorts

LEMMA ManualSorts ==
  ASSUME NEW s, NEW machine, NEW S, S = Manual(s, machine), IsFiniteSet(S),
         NEW R, R = {p \in S \X S : EarlierMove(p[1], p[2])}, TotalOrder(S, R),
         NEW q, q = SortedManual(s, machine)
  PROVE  Lists(S, R, q)
<1> DEFINE N == Cardinality(S)
           At(n, w) == Cardinality({v \in S : EarlierMove(v, w)}) = n - 1
           place == [w \in S |-> Cardinality({v \in S : <<v, w>> \in R})]
<1>1. q = [n \in 1 .. N |-> CHOOSE w \in S : At(n, w)]
  BY DEF SortedManual
<1>2. \A w \in S : {v \in S : <<v, w>> \in R} = {v \in S : EarlierMove(v, w)}
  OBVIOUS
<1>3. \A n, w : w \in S => (place[w] = n - 1 <=> At(n, w))
  BY <1>2
<1>3a. place = [w \in S |-> Cardinality({v \in S : <<v, w>> \in R})]
  OBVIOUS
<1> HIDE DEF place
<1>3b. /\ \A w \in S : place[w] \in 0 .. N - 1
       /\ \A v, w \in S : <<v, w>> \in R => place[v] < place[w]
       /\ \A k \in 0 .. N - 1 : \E w \in S : place[w] = k
  BY <1>3a, Ranks
<1>4. ASSUME NEW n \in 1 .. N PROVE q[n] \in S /\ place[q[n]] = n - 1
  <2>1. q[n] = CHOOSE v \in S : At(n, v)
    BY <1>1
  <2>2. \E w \in S : At(n, w)
    <3>1. n - 1 \in 0 .. N - 1
      BY FS_CardinalityType
    <3> QED
      BY <1>3, <1>3b, <3>1
  <2> HIDE DEF At
  <2>3. q[n] \in S /\ At(n, q[n])
    BY <2>1, <2>2
  <2> QED
    BY <1>3, <2>3
<1>5. q \in [1 .. N -> S]
  <2> DEFINE at(n) == CHOOSE w \in S : At(n, w)
  <2>1. q = [n \in 1 .. N |-> at(n)]
    BY <1>1
  <2>2. \A n \in 1 .. N : at(n) \in S
    BY <1>4, <2>1
  <2> HIDE DEF at
  <2> QED
    BY <2>1, <2>2
<1>6. \A n \in 1 .. N : place[q[n]] = n - 1
  BY <1>4
<1> HIDE DEF At
<1> QED
  BY <1>3b, <1>5, <1>6, SortSorts

\* The smaller of two naturals.
LEMMA MinOfTwo ==
  ASSUME NEW a \in Nat, NEW b \in Nat
  PROVE  Min({a, b}) = IF a < b THEN a ELSE b
<1>1. \E x \in {a, b} : \A y \in {a, b} : x <= y
  OBVIOUS
<1>2. Min({a, b}) \in {a, b} /\ \A y \in {a, b} : Min({a, b}) <= y
  BY <1>1 DEF Min
<1> QED
  BY <1>2

\* Where Put puts a request.
Spot(q, w) == IF w.manual_position < Len(q) THEN w.manual_position ELSE Len(q)

\* r is q with w at its spot, and those behind it one place later.
Shifted(D, q, w, r) ==
  /\ r \in Seq(D)
  /\ Len(r) = Len(q) + 1
  /\ \A i \in 1 .. Spot(q, w) : r[i] = q[i]
  /\ r[Spot(q, w) + 1] = w
  /\ \A i \in Spot(q, w) + 2 .. Len(q) + 1 : r[i] = q[i - 1]

LEMMA PutShifts ==
  ASSUME NEW D, NEW q \in Seq(D), NEW w \in D, w.manual_position \in Nat
  PROVE  Shifted(D, q, w, Put(q, w))
<1> DEFINE at == Spot(q, w)
           front == SubSeq(q, 1, at)
           back == SubSeq(q, at + 1, Len(q))
<1>1. Len(q) \in Nat
  OBVIOUS
<1>2. at \in 0 .. Len(q) /\ Min({w.manual_position, Len(q)}) = at
  BY <1>1, MinOfTwo DEF Spot
<1>3. Put(q, w) = (front \o <<w>>) \o back
  <2> HIDE DEF at
  <2>1. (at + 1) - 1 = at
    BY <1>1, <1>2
  <2> QED
    BY <1>2, <2>1 DEF Put, InsertAt
<1> HIDE DEF at
<1>4. /\ front \in Seq(D) /\ Len(front) = at
      /\ \A i \in 1 .. at : front[i] = q[i]
  BY <1>1, <1>2
<1>5. /\ back \in Seq(D) /\ Len(back) = Len(q) - at
      /\ \A i \in 1 .. Len(q) - at : back[i] = q[at + i]
  BY <1>1, <1>2
<1> HIDE DEF front, back
<1> DEFINE r == front \o <<w>>
<1>6. /\ r \in Seq(D) /\ Len(r) = at + 1 /\ r[at + 1] = w
      /\ \A i \in 1 .. at : r[i] = q[i]
  BY <1>2, <1>4
<1> HIDE DEF r
<1>7. /\ r \o back \in Seq(D) /\ Len(r \o back) = Len(q) + 1
      /\ \A i \in 1 .. at + 1 : (r \o back)[i] = r[i]
      /\ \A i \in at + 2 .. Len(q) + 1 : (r \o back)[i] = back[i - (at + 1)]
  BY <1>1, <1>2, <1>5, <1>6
<1>8. \A i \in at + 2 .. Len(q) + 1 : back[i - (at + 1)] = q[i - 1]
  <2> TAKE i \in at + 2 .. Len(q) + 1
  <2>1. i - (at + 1) \in 1 .. Len(q) - at /\ at + (i - (at + 1)) = i - 1
    BY <1>1, <1>2
  <2> QED
    BY <2>1, <1>5
<1>9. Put(q, w) = r \o back
  BY <1>3 DEF r
<1> DEFINE put == Put(q, w)
<1>10. /\ \A i \in 1 .. at : put[i] = q[i]
       /\ put[at + 1] = w
       /\ \A i \in at + 2 .. Len(q) + 1 : put[i] = q[i - 1]
       /\ put \in Seq(D) /\ Len(put) = Len(q) + 1
  <2> HIDE DEF put
  <2>1. put = r \o back
    BY <1>9 DEF put
  <2> QED
    BY <2>1, <1>2, <1>6, <1>7, <1>8
<1> QED
  BY <1>10 DEF at, Shifted

\* The recursive function in PutAll exists, and is what it says.
LEMMA PutAllSteps ==
  ASSUME NEW q, NEW moved, Len(moved) \in Nat
  PROVE  \E after :
           /\ PutAll(q, moved) = after[Len(moved)]
           /\ after[0] = q
           /\ \A n \in 1 .. Len(moved) : after[n] = Put(after[n - 1], moved[n])
<1> DEFINE Step(f, n) == IF n = 0 THEN q ELSE Put(f[n - 1], moved[n])
           Recursive(f, m) == f = [n \in 0 .. m |-> Step(f, n)]
           S == {m \in Nat : \E f : Recursive(f, m)}
<1>1. 0 \in S
  <2>1. Recursive([n \in 0 .. 0 |-> q], 0)
    OBVIOUS
  <2> QED
    BY <2>1
<1>2. ASSUME NEW m \in Nat, m \in S PROVE m + 1 \in S
  <2>1. PICK f : Recursive(f, m)
    BY <1>2
  <2> DEFINE g == [n \in 0 .. m + 1 |-> IF n <= m THEN f[n] ELSE Step(f, m + 1)]
  <2>2. ASSUME NEW n \in 0 .. m + 1 PROVE g[n] = Step(g, n)
    <3>1. CASE n = m + 1
      <4>1. g[n] = Step(f, m + 1) /\ g[n - 1] = f[n - 1]
        BY <3>1
      <4> QED
        BY <4>1, <3>1
    <3>2. CASE n <= m
      <4>1. g[n] = f[n] /\ (n # 0 => g[n - 1] = f[n - 1])
        BY <3>2
      <4>2. f[n] = Step(f, n)
        <5> HIDE DEF Step
        <5> QED
          BY <2>1, <3>2
      <4> QED
        BY <4>1, <4>2
    <3> QED
      BY <3>1, <3>2
  <2>3. g = [n \in 0 .. m + 1 |-> g[n]]
    OBVIOUS
  <2>4. Recursive(g, m + 1)
    <3> HIDE DEF g, Step
    <3> QED
      BY <2>2, <2>3
  <2> HIDE DEF g, Recursive
  <2> QED
    BY <2>4
<1>3. \E f : Recursive(f, Len(moved))
  <2> HIDE DEF S
  <2>1. Len(moved) \in S
    BY <1>1, <1>2, Induction
  <2> QED
    BY <2>1 DEF S
<1> DEFINE after == CHOOSE f : Recursive(f, Len(moved))
<1>4. PutAll(q, moved) = after[Len(moved)]
  BY DEF PutAll
<1>5. \A n \in 0 .. Len(moved) : after[n] = Step(after, n)
  <2>1. Recursive(after, Len(moved))
    BY <1>3
  <2> HIDE DEF Step, after
  <2> QED
    BY <2>1
<1>6. after[0] = q
  BY <1>5
<1>7. \A n \in 1 .. Len(moved) : after[n] = Put(after[n - 1], moved[n])
  <2> HIDE DEF after
  <2> QED
    BY <1>5
<1> HIDE DEF after, Recursive, Step
<1> QED
  BY <1>4, <1>6, <1>7

\* The elements of A stand in q as they do in `first`; a Put of another leaves
\* them so.
InOrderOf(first, A, q) ==
  \A i, j \in 1 .. Len(q) : i < j /\ q[i] \in A /\ q[j] \in A =>
    \E a, b \in 1 .. Len(first) : a < b /\ first[a] = q[i] /\ first[b] = q[j]

LEMMA PutKeepsOrder ==
  ASSUME NEW D, NEW A, NEW first, NEW q \in Seq(D), NEW w \in D, w \notin A,
         w.manual_position \in Nat, InOrderOf(first, A, q)
  PROVE  InOrderOf(first, A, Put(q, w))
<1> DEFINE r == Put(q, w)
           at == Spot(q, w)
           from(i) == IF i <= at THEN i ELSE i - 1
<1>1. /\ Len(r) = Len(q) + 1 /\ r[at + 1] = w
      /\ \A i \in 1 .. at : r[i] = q[i]
      /\ \A i \in at + 2 .. Len(q) + 1 : r[i] = q[i - 1]
  BY PutShifts DEF Shifted
<1>2. Len(q) \in Nat /\ at \in 0 .. Len(q)
  BY DEF Spot
<1> HIDE DEF r, at
<1>3. ASSUME NEW i \in 1 .. Len(r), r[i] \in A
      PROVE  from(i) \in 1 .. Len(q) /\ q[from(i)] = r[i] /\ i # at + 1
  <2>1. i # at + 1
    BY <1>1, <1>3
  <2>2. CASE i <= at
    BY <2>2, <1>1, <1>2
  <2>3. CASE i > at + 1
    BY <2>3, <1>1, <1>2
  <2> QED
    BY <2>1, <2>2, <2>3, <1>2
<1>4. ASSUME NEW i \in 1 .. Len(r), NEW j \in 1 .. Len(r), i < j, r[i] \in A, r[j] \in A
      PROVE  \E a, b \in 1 .. Len(first) : a < b /\ first[a] = r[i] /\ first[b] = r[j]
  <2>1. from(i) < from(j)
    BY <1>2, <1>3, <1>4
  <2> HIDE DEF from
  <2>2. /\ from(i) \in 1 .. Len(q) /\ q[from(i)] = r[i]
        /\ from(j) \in 1 .. Len(q) /\ q[from(j)] = r[j]
    BY <1>3, <1>4
  <2> QED
    BY <2>1, <2>2, <1>4 DEF InOrderOf
<1>5. InOrderOf(first, A, r)
  BY <1>4 DEF InOrderOf
<1> QED
  BY <1>5 DEF r

\* The elements of M that are in the queue stand at or ahead of their positions.
AtPositions(M, q) == \A i \in 1 .. Len(q) : q[i] \in M => i - 1 <= q[i].manual_position

\* Putting one behind all of them moves none of them.
LEMMA PutKeepsPositions ==
  ASSUME NEW D, NEW M, NEW q \in Seq(D), NEW w \in D, w \in M,
         \A v \in M : v.manual_position \in Nat,
         AtPositions(M, q),
         \A i \in 1 .. Len(q) : q[i] \in M => q[i].manual_position < w.manual_position
  PROVE  AtPositions(M, Put(q, w))
<1> DEFINE r == Put(q, w)
           at == Spot(q, w)
<1>1. /\ Len(r) = Len(q) + 1 /\ r[at + 1] = w
      /\ \A i \in 1 .. at : r[i] = q[i]
      /\ \A i \in at + 2 .. Len(q) + 1 : r[i] = q[i - 1]
  BY PutShifts DEF Shifted
<1>2. /\ Len(q) \in Nat /\ at \in 0 .. Len(q) /\ w.manual_position \in Nat
      /\ at = Len(q) \/ at = w.manual_position
      /\ at <= w.manual_position
  BY DEF Spot
<1> HIDE DEF r, at
<1>3. ASSUME NEW i \in 1 .. Len(r), r[i] \in M
      PROVE  i - 1 <= r[i].manual_position
  <2>1. CASE i <= at
    <3>1. i \in 1 .. Len(q) /\ r[i] = q[i]
      BY <2>1, <1>1, <1>2
    <3> QED
      BY <3>1, <1>3 DEF AtPositions
  <2>2. CASE i = at + 1
    BY <2>2, <1>1, <1>2
  <2>3. CASE i > at + 1
    <3>1. i - 1 \in 1 .. Len(q) /\ r[i] = q[i - 1] /\ i - 1 > at
      BY <2>3, <1>1, <1>2
    <3> DEFINE k == i - 1
    <3>2. /\ q[k] \in M /\ q[k].manual_position \in Nat
          /\ k - 1 <= q[k].manual_position /\ q[k].manual_position < w.manual_position
      BY <3>1, <1>3 DEF AtPositions
    <3>3. k < w.manual_position + 1
      BY <3>1, <3>2, <1>2
    <3> QED
      BY <3>1, <3>3, <1>2
  <2> QED
    BY <2>1, <2>2, <2>3, <1>2
<1>4. AtPositions(M, r)
  BY <1>3 DEF AtPositions
<1> QED
  BY <1>4 DEF r

\* Requests M were put into a queue of others, A: everything is in the result r,
\* A in the order it had, and M at or ahead of its positions if they ascend.
AllPut(A, M, first, moved, r) ==
  /\ r \in Seq(A \cup M)
  /\ \A a \in 1 .. Len(first) : \E i \in 1 .. Len(r) : r[i] = first[a]
  /\ \A k \in 1 .. Len(moved) : \E i \in 1 .. Len(r) : r[i] = moved[k]
  /\ InOrderOf(first, A, r)
  /\ (\A k, l \in 1 .. Len(moved) :
        k < l => moved[k].manual_position < moved[l].manual_position)
       => AtPositions(M, r)

LEMMA PutAllKeeps ==
  ASSUME NEW A, NEW M, A \cap M = {}, NEW first \in Seq(A), NEW moved \in Seq(M),
         \A v \in M : v.manual_position \in Nat
  PROVE  AllPut(A, M, first, moved, PutAll(first, moved))
<1>1. PICK after : /\ PutAll(first, moved) = after[Len(moved)]
                   /\ after[0] = first
                   /\ \A n \in 1 .. Len(moved) : after[n] = Put(after[n - 1], moved[n])
  BY PutAllSteps
<1> DEFINE Ascends == \A k, l \in 1 .. Len(moved) :
                        k < l => moved[k].manual_position < moved[l].manual_position
           Listed(n) == \A a \in 1 .. Len(first) : \E i \in 1 .. Len(after[n]) : after[n][i] = first[a]
           Placed(n) == \A k \in 1 .. n : \E i \in 1 .. Len(after[n]) : after[n][i] = moved[k]
           From(n) == \A i \in 1 .. Len(after[n]) :
                        after[n][i] \in M => \E k \in 1 .. n : after[n][i] = moved[k]
           Ok(n) == /\ after[n] \in Seq(A \cup M) /\ Listed(n) /\ Placed(n) /\ From(n)
                    /\ InOrderOf(first, A, after[n]) /\ (Ascends => AtPositions(M, after[n]))
           S == {n \in Nat : n <= Len(moved) => Ok(n)}
<1> HIDE DEF Ascends
<1>2. Ok(0)
  <2>1. first \in Seq(A \cup M) /\ Len(first) \in Nat
        /\ \A i \in 1 .. Len(first) : first[i] \in A /\ first[i] \notin M
    <3>1. \A i \in 1 .. Len(first) : first[i] \in A
      OBVIOUS
    <3> QED
      BY <3>1
  <2>2. after[0] = first /\ 1 .. 0 = {}
    BY <1>1
  <2>3. Listed(0) /\ Placed(0) /\ From(0)
    BY <2>1, <2>2
  <2>4. InOrderOf(first, A, after[0]) /\ AtPositions(M, after[0])
    BY <2>1, <2>2 DEF InOrderOf, AtPositions
  <2> HIDE DEF Listed, Placed, From
  <2> QED
    BY <2>1, <2>2, <2>3, <2>4
<1>3. ASSUME NEW n \in Nat, n + 1 <= Len(moved), Ok(n) PROVE Ok(n + 1)
  <2> DEFINE q == after[n]
             w == moved[n + 1]
             r == after[n + 1]
             at == Spot(q, w)
  <2>1. r = Put(q, w) /\ w \in M /\ w \in A \cup M /\ w \notin A /\ w.manual_position \in Nat
    <3>1. n + 1 \in 1 .. Len(moved) /\ (n + 1) - 1 = n
      BY <1>3
    <3>2. w \in M
      BY <3>1
    <3> QED
      BY <3>1, <3>2, <1>1
  <2>2. q \in Seq(A \cup M) /\ Len(q) \in Nat
    BY <1>3
  <2>3. InOrderOf(first, A, q) /\ (Ascends => AtPositions(M, q))
    BY <1>3
  <2>4. Listed(n) /\ Placed(n) /\ From(n)
    BY <1>3
  <2> HIDE DEF w
  <2>5. /\ r \in Seq(A \cup M) /\ Len(r) = Len(q) + 1 /\ r[at + 1] = w
        /\ \A i \in 1 .. at : r[i] = q[i]
        /\ \A i \in at + 2 .. Len(q) + 1 : r[i] = q[i - 1]
    <3> HIDE DEF r, q, at
    <3>1. Shifted(A \cup M, q, w, Put(q, w))
      BY <2>1, <2>2, PutShifts
    <3>2. r = Put(q, w) /\ at = Spot(q, w)
      BY <2>1 DEF at
    <3> QED
      BY <3>1, <3>2 DEF Shifted
  <2>6. at \in 0 .. Len(q)
    BY <2>1, <2>2 DEF Spot
  <2> HIDE DEF at, q, r
  <2>7. ASSUME NEW i \in 1 .. Len(q) PROVE \E j \in 1 .. Len(r) : r[j] = q[i]
    <3>1. CASE i <= at
      BY <3>1, <2>2, <2>5, <2>6
    <3>2. CASE i > at
      <4>1. i + 1 \in at + 2 .. Len(q) + 1 /\ (i + 1) - 1 = i
        BY <3>2, <2>2, <2>6
      <4>2. r[i + 1] = q[i] /\ i + 1 \in 1 .. Len(r)
        BY <4>1, <2>2, <2>5
      <4> QED
        BY <4>2
    <3> QED
      BY <3>1, <3>2, <2>6
  <2>8. ASSUME NEW j \in 1 .. Len(r), j # at + 1 PROVE \E i \in 1 .. Len(q) : r[j] = q[i]
    <3>1. CASE j <= at
      BY <3>1, <2>2, <2>5, <2>6
    <3>2. CASE j > at + 1
      <4>1. j \in at + 2 .. Len(q) + 1 /\ j - 1 \in 1 .. Len(q)
        BY <3>2, <2>2, <2>5, <2>6
      <4> QED
        BY <4>1, <2>5
    <3> QED
      BY <3>1, <3>2, <2>6, <2>8
  <2>9. Listed(n + 1)
    <3> SUFFICES ASSUME NEW a \in 1 .. Len(first) PROVE \E j \in 1 .. Len(r) : r[j] = first[a]
      BY DEF r
    <3>1. PICK i \in 1 .. Len(q) : q[i] = first[a]
      BY <2>4 DEF q
    <3> QED
      BY <3>1, <2>7
  <2>10. Placed(n + 1)
    <3> SUFFICES ASSUME NEW k \in 1 .. n + 1 PROVE \E i \in 1 .. Len(r) : r[i] = moved[k]
      BY DEF r
    <3>1. CASE k = n + 1
      <4>1. at + 1 \in 1 .. Len(r)
        BY <2>2, <2>5, <2>6
      <4> QED
        BY <3>1, <4>1, <2>5 DEF w
    <3>2. CASE k # n + 1
      <4>1. k \in 1 .. n
        BY <3>2
      <4>2. PICK i \in 1 .. Len(q) : q[i] = moved[k]
        BY <4>1, <2>4 DEF q
      <4> QED
        BY <4>2, <2>7
    <3> QED
      BY <3>1, <3>2
  <2>11. From(n + 1)
    <3> SUFFICES ASSUME NEW j \in 1 .. Len(r), r[j] \in M
                 PROVE  \E k \in 1 .. n + 1 : r[j] = moved[k]
      BY DEF r
    <3>1. CASE j = at + 1
      BY <3>1, <2>5 DEF w
    <3>2. CASE j # at + 1
      <4>1. PICK i \in 1 .. Len(q) : r[j] = q[i]
        BY <3>2, <2>8
      <4>2. PICK k \in 1 .. n : q[i] = moved[k]
        BY <4>1, <2>4 DEF q
      <4> QED
        BY <4>1, <4>2
    <3> QED
      BY <3>1, <3>2
  <2>12. InOrderOf(first, A, r)
    BY <2>1, <2>2, <2>3, PutKeepsOrder DEF q
  <2>13. ASSUME Ascends PROVE AtPositions(M, r)
    <3>1. ASSUME NEW i \in 1 .. Len(q), q[i] \in M
          PROVE  q[i].manual_position < w.manual_position
      <4>1. PICK k \in 1 .. n : q[i] = moved[k]
        BY <3>1, <2>4 DEF q
      <4>2. k \in 1 .. Len(moved) /\ n + 1 \in 1 .. Len(moved) /\ k < n + 1
        BY <1>3
      <4> QED
        BY <4>1, <4>2, <2>13 DEF Ascends, w
    <3>2. AtPositions(M, q)
      BY <2>3, <2>13 DEF q
    <3> QED
      BY <3>1, <3>2, <2>1, <2>2, PutKeepsPositions
  <2> HIDE DEF Listed, Placed, From
  <2> QED
    BY <2>5, <2>9, <2>10, <2>11, <2>12, <2>13 DEF r
<1>4. Ok(Len(moved))
  <2>0. Len(moved) \in Nat
    OBVIOUS
  <2> HIDE DEF Ok
  <2>1. 0 \in S
    BY <1>2
  <2>2. ASSUME NEW n \in Nat, n \in S PROVE n + 1 \in S
    BY <2>0, <2>2, <1>3
  <2> HIDE DEF S
  <2>3. Len(moved) \in S
    BY <2>0, <2>1, <2>2, Induction
  <2> QED
    BY <2>0, <2>3 DEF S
<1> QED
  BY <1>1, <1>4 DEF Ascends, AllPut

-----------------------------------------------------------------------------
(* The queue of a machine. *)

\* What the order of the queue rests on besides the ids: a request that came
\* later has a later time.
Arrivals ==
  /\ IsFiniteSet(sched.waiting)
  /\ \A w \in sched.waiting : w.since <= now
  /\ \A v, w \in sched.waiting : v.id < w.id => v.since <= w.since

QueueInv == LeaseInv /\ Arrivals

\* The keys requests are sorted by.
LEMMA RequestKeys ==
  ASSUME TypeOK, NEW w \in sched.waiting
  PROVE  /\ w.priority \in Int /\ w.since \in Nat /\ w.id \in Nat
         /\ Rank(sched.merge_queue, w) \in Nat
         /\ w.manual_position # None => w.manual_position \in Nat
<1>1. w \in Waiting /\ sched.merge_queue \in Queues \cup {[p \in {} |-> 0]}
  BY DEF TypeOK, Scheduler
<1>2. Rank(sched.merge_queue, w) \in Nat
  BY <1>1, MergeQueueAssumption DEF Rank, Unranked
<1> QED
  BY <1>1, <1>2 DEF Waiting, Ids, Option

\* The automatic requests are totally ordered, and so are the moved ones.
LEMMA BeforeOrders ==
  ASSUME LeaseInv, NEW S \in SUBSET sched.waiting
  PROVE  TotalOrder(S, {p \in S \X S : Before(sched.merge_queue, p[1], p[2])})
<1> DEFINE R == {p \in S \X S : Before(sched.merge_queue, p[1], p[2])}
           rank(w) == Rank(sched.merge_queue, w)
<1>1. ASSUME NEW v \in S, NEW w \in S
      PROVE  <<v, w>> \in R <=>
               \/ v.priority > w.priority
               \/ v.priority = w.priority /\ rank(v) < rank(w)
               \/ v.priority = w.priority /\ rank(v) = rank(w) /\ v.since < w.since
               \/ /\ v.priority = w.priority /\ rank(v) = rank(w) /\ v.since = w.since
                  /\ v.id < w.id
  BY DEF Before
<1>2. \A w \in S : w.priority \in Int /\ w.since \in Nat /\ w.id \in Nat /\ rank(w) \in Nat
  BY RequestKeys DEF LeaseInv
<1>3. \A v, w \in S : v.id = w.id => v = w
  BY DEF LeaseInv, FreshIds
<1> HIDE DEF R, rank
<1>4. ASSUME NEW v \in S PROVE <<v, v>> \notin R
  BY <1>1, <1>2
<1>5. ASSUME NEW v \in S, NEW w \in S, v # w PROVE <<v, w>> \in R \/ <<w, v>> \in R
  BY <1>1, <1>2, <1>3, <1>5
<1>6. ASSUME NEW u \in S, NEW v \in S, NEW w \in S, <<u, v>> \in R, <<v, w>> \in R
      PROVE  <<u, w>> \in R
  BY <1>1, <1>2, <1>6
<1>7. TotalOrder(S, R)
  BY <1>4, <1>5, <1>6 DEF TotalOrder
<1> QED
  BY <1>7 DEF R

LEMMA MovesOrder ==
  ASSUME LeaseInv, NEW S \in SUBSET sched.waiting, \A w \in S : w.manual_position # None
  PROVE  TotalOrder(S, {p \in S \X S : EarlierMove(p[1], p[2])})
<1> DEFINE R == {p \in S \X S : EarlierMove(p[1], p[2])}
<1>1. ASSUME NEW v \in S, NEW w \in S
      PROVE  <<v, w>> \in R <=>
               \/ v.manual_position < w.manual_position
               \/ v.manual_position = w.manual_position /\ v.id < w.id
  BY DEF EarlierMove
<1>2. \A w \in S : w.manual_position \in Nat /\ w.id \in Nat
  BY RequestKeys DEF LeaseInv
<1>3. \A v, w \in S : v.id = w.id => v = w
  BY DEF LeaseInv, FreshIds
<1> HIDE DEF R
<1>4. ASSUME NEW v \in S PROVE <<v, v>> \notin R
  BY <1>1, <1>2
<1>5. ASSUME NEW v \in S, NEW w \in S, v # w PROVE <<v, w>> \in R \/ <<w, v>> \in R
  BY <1>1, <1>2, <1>3, <1>5
<1>6. ASSUME NEW u \in S, NEW v \in S, NEW w \in S, <<u, v>> \in R, <<v, w>> \in R
      PROVE  <<u, w>> \in R
  BY <1>1, <1>2, <1>6
<1>7. TotalOrder(S, R)
  BY <1>4, <1>5, <1>6 DEF TotalOrder
<1> QED
  BY <1>7 DEF R

\* order() lists a machine's requests; of two that were not moved, the one that
\* goes first stands ahead; those moved to different positions stand there or
\* ahead.
LEMMA OrderLists ==
  ASSUME LeaseInv, IsFiniteSet(sched.waiting), NEW m
  PROVE  LET q == order(sched, m) IN
         /\ q \in Seq(Queue(sched, m))
         /\ \A w \in Queue(sched, m) : \E i \in 1 .. Len(q) : q[i] = w
         /\ \A i, j \in 1 .. Len(q) :
              i < j /\ q[i].manual_position = None /\ q[j].manual_position = None
                => Before(sched.merge_queue, q[i], q[j])
         /\ (\A v, w \in Moved(m) : v.manual_position = w.manual_position => v = w)
              => \A i \in 1 .. Len(q) :
                   q[i].manual_position # None => i - 1 <= q[i].manual_position
<1> DEFINE A == Automatic(sched, m)
           M == Manual(sched, m)
           RA == {p \in A \X A : Before(sched.merge_queue, p[1], p[2])}
           RM == {p \in M \X M : EarlierMove(p[1], p[2])}
           first == SortedAutomatic(sched, m)
           moved == SortedManual(sched, m)
           q == order(sched, m)
<1>1. /\ A \in SUBSET sched.waiting /\ M \in SUBSET sched.waiting
      /\ A \cap M = {} /\ A \cup M = Queue(sched, m) /\ M = Moved(m)
      /\ \A w \in Queue(sched, m) : /\ w \in A <=> w.manual_position = None
                                    /\ w \in M <=> w.manual_position # None
  BY DEF Automatic, Manual, Moved, Queue
<1>2. q = PutAll(first, moved)
  BY DEF order
<1>3. IsFiniteSet(A) /\ IsFiniteSet(M)
  BY <1>1, FS_Subset
<1>3a. A = Automatic(sched, m) /\ M = Manual(sched, m)
  OBVIOUS
<1> HIDE DEF A, M
<1>4. TotalOrder(A, RA)
  BY <1>1, BeforeOrders
<1>5. TotalOrder(M, RM)
  <2>1. \A w \in M : w.manual_position # None
    BY <1>1
  <2> QED
    BY <1>1, <2>1, MovesOrder
<1>6. \A v \in M : v.manual_position \in Nat
  BY <1>1, RequestKeys DEF LeaseInv
<1>7. ASSUME NEW v, NEW w, <<v, w>> \in RA PROVE Before(sched.merge_queue, v, w)
  BY <1>7
<1>8. ASSUME NEW v, NEW w, <<v, w>> \in RM PROVE EarlierMove(v, w)
  BY <1>8
<1>8a. /\ RA = {p \in A \X A : Before(sched.merge_queue, p[1], p[2])}
       /\ RM = {p \in M \X M : EarlierMove(p[1], p[2])}
  OBVIOUS
<1> HIDE DEF RA, RM
<1>9. /\ first \in Seq(A)
      /\ \A w \in A : \E n \in 1 .. Len(first) : first[n] = w
      /\ \A a, b \in 1 .. Len(first) : a < b => <<first[a], first[b]>> \in RA
  BY <1>3, <1>3a, <1>4, <1>8a, AutomaticSorts DEF Lists
<1>10. /\ moved \in Seq(M)
       /\ \A w \in M : \E n \in 1 .. Len(moved) : moved[n] = w
       /\ \A k, l \in 1 .. Len(moved) : k < l => <<moved[k], moved[l]>> \in RM
  BY <1>3, <1>3a, <1>5, <1>8a, ManualSorts DEF Lists
<1> HIDE DEF first, moved, q
<1> DEFINE Ascends == \A k, l \in 1 .. Len(moved) :
                        k < l => moved[k].manual_position < moved[l].manual_position
<1>11. /\ q \in Seq(A \cup M)
       /\ \A a \in 1 .. Len(first) : \E i \in 1 .. Len(q) : q[i] = first[a]
       /\ \A k \in 1 .. Len(moved) : \E i \in 1 .. Len(q) : q[i] = moved[k]
       /\ InOrderOf(first, A, q)
       /\ Ascends => AtPositions(M, q)
  <2> DEFINE r == PutAll(first, moved)
  <2>1. /\ r \in Seq(A \cup M)
        /\ \A a \in 1 .. Len(first) : \E i \in 1 .. Len(r) : r[i] = first[a]
        /\ \A k \in 1 .. Len(moved) : \E i \in 1 .. Len(r) : r[i] = moved[k]
        /\ InOrderOf(first, A, r)
        /\ Ascends => AtPositions(M, r)
    <3>1. /\ A \cap M = {} /\ first \in Seq(A) /\ moved \in Seq(M)
          /\ \A v \in M : v.manual_position \in Nat
      BY <1>1, <1>6, <1>9, <1>10
    <3>2. AllPut(A, M, first, moved, r)
      BY <3>1, PutAllKeeps
    <3> HIDE DEF r
    <3> QED
      BY <3>2 DEF AllPut
  <2>2. q = r
    BY <1>2
  <2> HIDE DEF r, Ascends
  <2> QED
    BY <2>1, <2>2
<1>12. \A i \in 1 .. Len(q) : q[i] \in Queue(sched, m)
  BY <1>1, <1>11
<1>13. ASSUME NEW w \in Queue(sched, m) PROVE \E i \in 1 .. Len(q) : q[i] = w
  <2>1. CASE w \in A
    <3>1. PICK a \in 1 .. Len(first) : first[a] = w
      BY <2>1, <1>9
    <3> QED
      BY <3>1, <1>11
  <2>2. CASE w \in M
    <3>1. PICK k \in 1 .. Len(moved) : moved[k] = w
      BY <2>2, <1>10
    <3> QED
      BY <3>1, <1>11
  <2> QED
    BY <2>1, <2>2, <1>1
<1>14. ASSUME NEW i \in 1 .. Len(q), NEW j \in 1 .. Len(q), i < j,
              q[i].manual_position = None, q[j].manual_position = None
       PROVE  Before(sched.merge_queue, q[i], q[j])
  <2>1. q[i] \in A /\ q[j] \in A
    BY <1>1, <1>12, <1>14
  <2>2. PICK a, b \in 1 .. Len(first) : a < b /\ first[a] = q[i] /\ first[b] = q[j]
    BY <2>1, <1>11, <1>14 DEF InOrderOf
  <2> QED
    BY <2>2, <1>7, <1>9
<1>15. ASSUME \A v, w \in M : v.manual_position = w.manual_position => v = w
       PROVE  Ascends
  <2> SUFFICES ASSUME NEW k \in 1 .. Len(moved), NEW l \in 1 .. Len(moved), k < l
               PROVE  moved[k].manual_position < moved[l].manual_position
    OBVIOUS
  <2>1. moved[k] \in M /\ moved[l] \in M
    <3>1. moved \in Seq(M)
      BY <1>10
    <3> QED
      BY <3>1
  <2>2. <<moved[k], moved[l]>> \in RM
    BY <1>10
  <2>3. moved[k] # moved[l]
    BY <2>1, <2>2, <1>5 DEF TotalOrder
  <2>4. moved[k].manual_position # moved[l].manual_position
    BY <2>1, <2>3, <1>15
  <2> QED
    BY <2>2, <2>4, <1>8 DEF EarlierMove
<1>16. ASSUME \A v, w \in M : v.manual_position = w.manual_position => v = w,
              NEW i \in 1 .. Len(q), q[i].manual_position # None
       PROVE  i - 1 <= q[i].manual_position
  <2>1. AtPositions(M, q)
    BY <1>11, <1>15, <1>16
  <2>2. q[i] \in M
    BY <1>1, <1>12, <1>16
  <2> QED
    BY <2>1, <2>2 DEF AtPositions
<1> QED
  BY <1>1, <1>11, <1>13, <1>14, <1>16 DEF q

\* order() asks for no later request first: what outranks another goes ahead of it.
LEMMA OutranksFirst ==
  ASSUME QueueInv, NEW v \in sched.waiting, NEW w \in sched.waiting,
         Outranks(v, w)
  PROVE  v # w /\ ~ Before(sched.merge_queue, w, v)
<1> DEFINE rv == Rank(sched.merge_queue, v)
           rw == Rank(sched.merge_queue, w)
<1>1. /\ v.priority \in Int /\ v.since \in Nat /\ v.id \in Nat /\ rv \in Nat
      /\ w.priority \in Int /\ w.since \in Nat /\ w.id \in Nat /\ rw \in Nat
  BY RequestKeys DEF QueueInv, LeaseInv
<1>2. v.id < w.id => v.since <= w.since
  BY DEF QueueInv, Arrivals
<1>3. \/ v.priority > w.priority
      \/ v.priority = w.priority /\ rv < rw
      \/ v.priority = w.priority /\ rv = rw /\ v.id < w.id
  BY DEF Outranks
<1>4. Before(sched.merge_queue, w, v) <=>
        \/ w.priority > v.priority
        \/ w.priority = v.priority /\ rw < rv
        \/ w.priority = v.priority /\ rw = rv /\ w.since < v.since
        \/ w.priority = v.priority /\ rw = rv /\ w.since = v.since /\ w.id < v.id
  BY DEF Before
<1>5. v = w => rv = rw
  OBVIOUS
<1> HIDE DEF rv, rw
<1>6. v # w
  BY <1>1, <1>3, <1>5
<1> QED
  BY <1>1, <1>2, <1>3, <1>4, <1>6

\* position() is where the request stands, counted from 0.
LEMMA PositionIs ==
  ASSUME QueueInv, NEW w \in sched.waiting
  PROVE  LET q == order(sched, w.machine) IN
         /\ position(sched, w) + 1 \in 1 .. Len(q)
         /\ q[position(sched, w) + 1] = w
         /\ position(sched, w) \in Int
<1> DEFINE q == order(sched, w.machine)
           at == CHOOSE i \in DOMAIN q : q[i] = w
<1>1. w \in Queue(sched, w.machine)
  BY DEF Queue
<1>2. q \in Seq(Queue(sched, w.machine)) /\ \E i \in 1 .. Len(q) : q[i] = w
  BY <1>1, OrderLists DEF QueueInv, Arrivals
<1>3. position(sched, w) = at - 1
  BY DEF position
<1> HIDE DEF q
<1>4. at \in 1 .. Len(q) /\ q[at] = w
  BY <1>2
<1> HIDE DEF at
<1>5. (at - 1) + 1 = at /\ at - 1 \in Int
  BY <1>4
<1> QED
  BY <1>3, <1>4, <1>5 DEF q

\* The order of a queue follows from QueueInv.
LEMMA QueueOrdered ==
  QueueInv => QueueInOrder
<1> SUFFICES ASSUME QueueInv, NEW m \in Machines
             PROVE  /\ (\A v, w \in Moved(m) :
                          v.manual_position = w.manual_position => v = w) =>
                         \A w \in Moved(m) : position(sched, w) <= w.manual_position
                    /\ \A v, w \in Queue(sched, m) \ Moved(m) :
                         Outranks(v, w) => position(sched, v) < position(sched, w)
  BY DEF QueueInOrder
<1> DEFINE q == order(sched, m)
           at(w) == position(sched, w) + 1
<1>1. \A w \in Queue(sched, m) : w \in sched.waiting /\ w.machine = m
  BY DEF Queue
<1>2. ASSUME NEW w \in Queue(sched, m)
      PROVE  at(w) \in 1 .. Len(q) /\ q[at(w)] = w /\ position(sched, w) = at(w) - 1
  BY <1>1, PositionIs
<1>3. /\ \A i, j \in 1 .. Len(q) :
           i < j /\ q[i].manual_position = None /\ q[j].manual_position = None
             => Before(sched.merge_queue, q[i], q[j])
      /\ (\A v, w \in Moved(m) : v.manual_position = w.manual_position => v = w)
           => \A i \in 1 .. Len(q) :
                q[i].manual_position # None => i - 1 <= q[i].manual_position
      /\ q \in Seq(Queue(sched, m))
  BY OrderLists DEF QueueInv, Arrivals
<1> HIDE DEF q, at
<1>4. ASSUME \A v, w \in Moved(m) : v.manual_position = w.manual_position => v = w,
             NEW w \in Moved(m)
      PROVE  position(sched, w) <= w.manual_position
  <2>1. w \in Queue(sched, m) /\ w.manual_position # None
    BY DEF Moved
  <2> QED
    BY <2>1, <1>2, <1>3, <1>4
<1>5. ASSUME NEW v \in Queue(sched, m) \ Moved(m), NEW w \in Queue(sched, m) \ Moved(m),
             Outranks(v, w)
      PROVE  position(sched, v) < position(sched, w)
  <2>1. v.manual_position = None /\ w.manual_position = None
    BY DEF Moved
  <2>2. v # w /\ ~ Before(sched.merge_queue, w, v)
    BY <1>1, <1>5, OutranksFirst
  <2>3. at(v) # at(w) /\ ~ (at(w) < at(v))
    BY <2>1, <2>2, <1>2, <1>3
  <2>4. at(v) \in Int /\ at(w) \in Int
    BY <1>2, <1>3
  <2> QED
    BY <2>3, <2>4, <1>2
<1> QED
  BY <1>4, <1>5

\* The number of waiting requests stays finite, and later ids come later.
LEMMA QueueInit == Init => QueueInv
<1> SUFFICES ASSUME Init PROVE Arrivals
  BY InvInit DEF QueueInv
<1>1. sched.waiting = {}
  BY DEF Init, Initial
<1> QED
  BY <1>1, FS_EmptySet DEF Arrivals

LEMMA QueueStep == QueueInv /\ [Next]_vars => QueueInv'
<1> SUFFICES ASSUME QueueInv, [Next]_vars PROVE Arrivals'
  BY InvStep DEF QueueInv
<1>1. /\ sched \in Scheduler /\ now \in Nat /\ LeaseInv
      /\ IsFiniteSet(sched.waiting)
      /\ \A w \in sched.waiting : w.since <= now /\ w.since \in Nat /\ w.id \in Nat
      /\ \A v, w \in sched.waiting : v.id < w.id => v.since <= w.since
  BY RequestKeys DEF QueueInv, LeaseInv, TypeOK, Arrivals
<1>2. ASSUME sched'.waiting \in SUBSET sched.waiting, now' \in Nat, now <= now'
      PROVE  Arrivals'
  <2>1. IsFiniteSet(sched'.waiting)
    BY <1>1, <1>2, FS_Subset
  <2>2. \A w \in sched'.waiting : w.since <= now'
    BY <1>1, <1>2
  <2> QED
    BY <1>1, <1>2, <2>1, <2>2 DEF Arrivals
<1>3. CASE Admit
  <2>1. PICK r \in Requests, token \in Option(KnownIds) : sched' = admit(sched, r, token, now)
    BY <1>3 DEF Admit
  <2>2. now' = now
    BY <1>3 DEF Admit
  <2>3. CASE Admission(sched, r, token) = "queued"
    <3> DEFINE new == AsWaiting(r, sched.next_id, now)
    <3>1. new.id = sched.next_id /\ new.since = now
      BY DEF AsWaiting
    <3>2. sched' = [sched EXCEPT !.next_id = @ + 1, !.waiting = @ \cup {new}]
      BY <2>1, <2>3 DEF admit
    <3> HIDE DEF new
    <3>3. sched'.waiting = sched.waiting \cup {new}
      BY <1>1, <3>2 DEF Scheduler
    <3>4. \A w \in sched.waiting : w.id < new.id
      BY <1>1, <3>1 DEF LeaseInv, FreshIds, WaitingIds, KnownIds, Scheduler, Ids
    <3>5. IsFiniteSet(sched'.waiting)
      BY <1>1, <3>3, FS_AddElement
    <3>6. \A w \in sched'.waiting : w.since <= now'
      BY <1>1, <2>2, <3>1, <3>3
    <3>7. sched.next_id \in Nat
      BY <1>1 DEF Scheduler, Ids
    <3>8. \A v, w \in sched'.waiting : v.id < w.id => v.since <= w.since
      BY <1>1, <3>1, <3>3, <3>4, <3>7
    <3> QED
      BY <3>5, <3>6, <3>8 DEF Arrivals
  <2>4. CASE Admission(sched, r, token) # "queued"
    <3> DEFINE run == [id |-> sched.next_id, machine |-> r.machine]
    <3>1. \/ sched' = sched
          \/ sched' = [sched EXCEPT !.next_id = @ + 1]
          \/ sched' = [sched EXCEPT !.next_id = @ + 1, !.nested = @ \cup {run}]
      BY <2>1, <2>4 DEF admit, Admission
    <3> HIDE DEF run
    <3>2. sched'.waiting = sched.waiting
      BY <1>1, <3>1 DEF Scheduler
    <3> QED
      BY <1>1, <1>2, <2>2, <3>2
  <2> QED
    BY <2>3, <2>4
<1>4. CASE GrantAll
  <2>1. sched'.waiting = sched.waiting \ Winners(sched, now) /\ now' = now
    BY <1>1, <1>4, GrantType DEF GrantAll
  <2> QED
    BY <1>1, <1>2, <2>1
<1>5. CASE Release
  <2>1. PICK id \in KnownIds : sched' = release(sched, id)
    BY <1>5 DEF Release
  <2>2. sched'.waiting = {w \in sched.waiting : w.id # id} /\ now' = now
    BY <1>1, <1>5, <2>1 DEF release, Scheduler, Release
  <2> QED
    BY <1>1, <1>2, <2>2
<1>6. CASE Reorder
  <2>1. PICK id \in WaitingIds(sched), at \in Positions : sched' = reorder(sched, id, at)
    BY <1>6 DEF Reorder
  <2> DEFINE move(w) == IF w.id = id THEN [w EXCEPT !.manual_position = at] ELSE w
             f == [w \in sched.waiting |-> move(w)]
  <2>2. sched'.waiting = {move(w) : w \in sched.waiting} /\ now' = now
    BY <1>1, <1>6, <2>1 DEF reorder, Scheduler, Reorder
  <2>3. \A w \in sched.waiting : move(w).id = w.id /\ move(w).since = w.since
    BY <1>1 DEF Scheduler, Waiting
  <2>4. f \in Surjection(sched.waiting, sched'.waiting)
    <3> HIDE DEF move
    <3>1. f \in [sched.waiting -> sched'.waiting]
      BY <2>2
    <3>2. \A x \in sched'.waiting : \E w \in sched.waiting : f[w] = x
      BY <2>2
    <3> QED
      BY <3>1, <3>2, Zenon DEF Surjection
  <2> HIDE DEF f
  <2>5. IsFiniteSet(sched'.waiting)
    BY <1>1, <2>4, FS_Surjection
  <2> HIDE DEF move
  <2>6. \A w \in sched'.waiting : w.since <= now'
    BY <1>1, <2>2, <2>3
  <2>7. \A v, w \in sched'.waiting : v.id < w.id => v.since <= w.since
    BY <1>1, <2>2, <2>3
  <2> QED
    BY <2>5, <2>6, <2>7 DEF Arrivals
<1>7. CASE Claim \/ SetPaused \/ Reserve \/ Preempt \/ Ci \/ SetMergeQueue \/ Overruns
            \/ Tick \/ UNCHANGED vars
  <2>1. sched'.waiting = sched.waiting
    BY <1>7, PlainFields DEF QueueInv, LeaseInv
  <2>2. now' \in Nat /\ now <= now'
    BY <1>1, <1>7 DEF Claim, SetPaused, Reserve, Preempt, Ci, SetMergeQueue, Overruns, Tick, vars
  <2> QED
    BY <1>2, <2>1, <2>2
<1> QED
  BY <1>3, <1>4, <1>5, <1>6, <1>7 DEF Next

\* However requests arrive, are moved and leave, two that nobody moved stand in
\* the order of priority, merge queue and arrival, and moved ones stand at or
\* ahead of different positions asked for (Scheduler::order, scheduler.rs:134).
THEOREM QueueKeepsOrder == Spec => []QueueInOrder
  BY QueueInit, QueueStep, QueueOrdered, PTL DEF Spec

-----------------------------------------------------------------------------
(* Grants. *)

\* If any waiting request is eligible, one of them is the first.
LEMMA FirstExists ==
  ASSUME QueueInv, NEW m, NEW w \in Eligible(sched, m, now)
  PROVE  First(sched, m, now) # {}
<1> DEFINE q == order(sched, m)
           fit == Eligible(sched, m, now)
           T == {i \in 1 .. Len(q) : q[i] \in fit}
<1>1. w \in Queue(sched, m) /\ w \in fit
  BY DEF Eligible
<1>2. q \in Seq(Queue(sched, m)) /\ \E i \in 1 .. Len(q) : q[i] = w
  BY <1>1, OrderLists DEF QueueInv, Arrivals
<1>3. First(sched, m, now) =
        {v \in fit : \E i \in DOMAIN q : /\ q[i] = v
                                         /\ \A j \in 1..(i - 1) : q[j] \notin fit}
  BY DEF First
<1> HIDE DEF q, fit
<1>4. T \in SUBSET Nat /\ T # {}
  BY <1>1, <1>2
<1>5. PICK i \in T : \A j \in T : i <= j
  BY <1>4, Least
<1>6. i \in DOMAIN q /\ q[i] \in fit
  BY <1>2, <1>5
<1>7. \A j \in 1 .. (i - 1) : q[j] \notin fit
  <2> SUFFICES ASSUME NEW j \in 1 .. (i - 1), q[j] \in fit PROVE FALSE
    OBVIOUS
  <2>1. i \in 1 .. Len(q) /\ Len(q) \in Nat
    BY <1>2, <1>5
  <2>2. j \in 1 .. Len(q) /\ ~ (i <= j)
    BY <2>1
  <2> QED
    BY <2>2, <1>5
<1> QED
  BY <1>3, <1>6, <1>7

\* Who is let through waits eligibly.
LEMMA LetThroughEligible ==
  ASSUME NEW m, NEW w \in Queue(sched, m)
  PROVE  w \in Eligible(sched, m, now) <=> LetThrough(m, w)
  BY DEF Eligible, LetThrough

\* The winner is let through, and nobody who is, and outranks it, was passed over.
LEMMA WinnerIsFirst ==
  ASSUME QueueInv, NEW m \in Grantable(sched, now)
  PROVE  LET w == Winner(sched, m, now) IN
         /\ w \in Queue(sched, m) /\ LetThrough(m, w)
         /\ w.manual_position = None =>
              ~ \E v \in Queue(sched, m) : /\ v.manual_position = None
                                           /\ LetThrough(m, v)
                                           /\ Outranks(v, w)
<1> DEFINE w == Winner(sched, m, now)
           q == order(sched, m)
           fit == Eligible(sched, m, now)
<1>1. w \in First(sched, m, now)
  BY DEF Grantable, Winner
<1>2. /\ w \in fit
      /\ \E i \in DOMAIN q : q[i] = w /\ \A j \in 1..(i - 1) : q[j] \notin fit
  BY <1>1 DEF First
<1>3. w \in Queue(sched, m) /\ LetThrough(m, w)
  <2>1. w \in Queue(sched, m)
    BY <1>2 DEF Eligible
  <2> QED
    BY <2>1, <1>2, LetThroughEligible
<1>4. /\ q \in Seq(Queue(sched, m))
      /\ \A v \in Queue(sched, m) : \E i \in 1 .. Len(q) : q[i] = v
      /\ \A i, j \in 1 .. Len(q) :
           i < j /\ q[i].manual_position = None /\ q[j].manual_position = None
             => Before(sched.merge_queue, q[i], q[j])
  BY OrderLists DEF QueueInv, Arrivals
<1> HIDE DEF w, q
<1>5. ASSUME w.manual_position = None, NEW v \in Queue(sched, m),
             v.manual_position = None, LetThrough(m, v), Outranks(v, w)
      PROVE  FALSE
  <2>1. v \in fit
    BY <1>5, LetThroughEligible
  <2>2. v \in sched.waiting /\ w \in sched.waiting
    BY <1>3 DEF Queue
  <2>3. v # w /\ ~ Before(sched.merge_queue, w, v)
    BY <2>2, <1>5, OutranksFirst
  <2> HIDE DEF fit
  <2>4. PICK i \in DOMAIN q : q[i] = w /\ \A j \in 1..(i - 1) : q[j] \notin fit
    BY <1>2
  <2>5. PICK j \in 1 .. Len(q) : q[j] = v
    BY <1>4
  <2>6. i \in 1 .. Len(q) /\ Len(q) \in Nat
    <3>1. q \in Seq(Queue(sched, m))
      BY <1>4
    <3> QED
      BY <3>1, <2>4
  <2>7. j \notin 1 .. (i - 1) /\ j # i
    BY <2>1, <2>3, <2>4, <2>5
  <2>8. i < j
    BY <2>6, <2>7
  <2> QED
    BY <2>3, <2>4, <2>5, <2>6, <2>8, <1>4, <1>5
<1> QED
  BY <1>3, <1>5 DEF w

\* Only grant() gives a free machine to a holder.
LEMMA OnlyGrants ==
  ASSUME TypeOK, [Next]_vars, NEW m \in Machines,
         sched.holders[m] = None, sched'.holders[m] # None
  PROVE  sched'.holders = HoldersAfter(sched, now)
<1>0. sched \in Scheduler /\ now \in Nat
  BY DEF TypeOK
<1>1. CASE Admit
  <2>1. PICK r \in Requests, token \in Option(KnownIds) : sched' = admit(sched, r, token, now)
    BY <1>1 DEF Admit
  <2> DEFINE run == [id |-> sched.next_id, machine |-> r.machine]
             new == AsWaiting(r, sched.next_id, now)
  <2>2. \/ sched' = sched
        \/ sched' = [sched EXCEPT !.next_id = @ + 1]
        \/ sched' = [sched EXCEPT !.next_id = @ + 1, !.nested = @ \cup {run}]
        \/ sched' = [sched EXCEPT !.next_id = @ + 1, !.waiting = @ \cup {new}]
    BY <2>1 DEF admit
  <2> HIDE DEF run, new
  <2>3. sched'.holders = sched.holders
    BY <1>0, <2>2 DEF Scheduler
  <2> QED
    BY <2>3
<1>2. CASE GrantAll
  BY <1>0, <1>2, GrantType DEF GrantAll
<1>3. CASE Release
  <2>1. PICK id \in KnownIds : sched' = release(sched, id)
    BY <1>3 DEF Release
  <2>2. sched'.holders[m] = None \/ sched'.holders[m] = sched.holders[m]
    BY <1>0, <2>1 DEF release, Scheduler
  <2> QED
    BY <2>2
<1>4. CASE Reorder
  <2>1. sched'.holders = sched.holders
    BY <1>0, <1>4 DEF Reorder, reorder, Scheduler
  <2> QED
    BY <2>1
<1>5. CASE Claim \/ SetPaused \/ Reserve \/ Preempt \/ Ci \/ SetMergeQueue \/ Overruns
            \/ Tick \/ UNCHANGED vars
  <2>1. sched'.holders[m] = sched.holders[m] \/ sched.holders[m] # None
    BY <1>5, PlainFields
  <2> QED
    BY <2>1
<1> QED
  BY <1>1, <1>2, <1>3, <1>4, <1>5 DEF Next

\* A machine that changes from free to held was granted, to its winner.
LEMMA GrantedIsWinner ==
  ASSUME QueueInv, [Next]_vars, NEW m \in Machines, NEW w \in Queue(sched, m), Granted(m, w)
  PROVE  m \in Grantable(sched, now) /\ w = Winner(sched, m, now)
<1>1. sched.holders[m] = None /\ sched'.holders[m] # None /\ sched'.holders[m].id = w.id
  BY DEF Granted
<1>2. sched'.holders = HoldersAfter(sched, now)
  BY <1>1, OnlyGrants DEF QueueInv, LeaseInv
<1>3. m \in Grantable(sched, now) /\ sched'.holders[m] = AsHolder(Winner(sched, m, now), now)
  BY <1>1, <1>2 DEF HoldersAfter
<1>4. Winner(sched, m, now).id = w.id
  BY <1>1, <1>3 DEF AsHolder
<1>5. Winner(sched, m, now) \in sched.waiting /\ w \in sched.waiting
  BY <1>3, WinnerWaits DEF QueueInv, LeaseInv, TypeOK, Queue
<1> QED
  BY <1>3, <1>4, <1>5 DEF QueueInv, LeaseInv, FreshIds

\* What GrantInOrder says of a step.
GrantsInOrder ==
  /\ \A m \in Machines : \A w \in Queue(sched, m) : Granted(m, w) =>
       /\ m \notin sched.paused
       /\ LetThrough(m, w)
       /\ w.manual_position = None =>
            ~\E v \in Queue(sched, m) : /\ v.manual_position = None
                                        /\ LetThrough(m, v)
                                        /\ Outranks(v, w)
  /\ sched' = grant(sched, now) =>
       \A m \in Machines : sched'.holders[m] = None /\ m \notin sched.paused =>
         ~\E w \in Queue(sched, m) : LetThrough(m, w)

LEMMA GrantOrderStep ==
  QueueInv /\ [Next]_vars => GrantsInOrder
<1> SUFFICES ASSUME QueueInv, [Next]_vars PROVE GrantsInOrder
  OBVIOUS
<1>1. ASSUME NEW m \in Machines, NEW w \in Queue(sched, m), Granted(m, w)
      PROVE  /\ m \notin sched.paused
             /\ LetThrough(m, w)
             /\ w.manual_position = None =>
                  ~\E v \in Queue(sched, m) : /\ v.manual_position = None
                                              /\ LetThrough(m, v)
                                              /\ Outranks(v, w)
  <2>1. m \in Grantable(sched, now) /\ w = Winner(sched, m, now)
    BY <1>1, GrantedIsWinner
  <2>2. m \notin sched.paused
    BY <2>1 DEF Grantable
  <2> QED
    BY <2>1, <2>2, WinnerIsFirst
<1>2. ASSUME sched' = grant(sched, now), NEW m \in Machines,
             sched'.holders[m] = None, m \notin sched.paused,
             NEW w \in Queue(sched, m), LetThrough(m, w)
      PROVE  FALSE
  <2>1. sched'.holders = HoldersAfter(sched, now)
    BY <1>2, GrantType DEF QueueInv, LeaseInv, TypeOK
  <2>2. w \in Eligible(sched, m, now)
    BY <1>2, LetThroughEligible
  <2>3. First(sched, m, now) # {}
    BY <2>2, FirstExists
  <2>4. m \notin Grantable(sched, now)
    <3> SUFFICES ASSUME m \in Grantable(sched, now) PROVE FALSE
      OBVIOUS
    <3>1. sched'.holders[m] = AsHolder(Winner(sched, m, now), now)
      BY <2>1 DEF HoldersAfter
    <3>2. Winner(sched, m, now) \in Waiting
      BY WinnerWaits DEF QueueInv, LeaseInv, TypeOK, Scheduler
    <3>3. AsHolder(Winner(sched, m, now), now) \in Holder
      BY <3>2 DEF AsHolder, Holder, Waiting, SessionToken, Option, QueueInv, LeaseInv, TypeOK
    <3> QED
      BY <3>1, <3>3, <1>2, NoneAssumption
  <2>5. sched.holders[m] = None
    BY <2>1, <2>4, <1>2 DEF HoldersAfter
  <2> QED
    BY <2>3, <2>4, <2>5, <1>2 DEF Grantable
<1> QED
  BY <1>1, <1>2 DEF GrantsInOrder

\* A machine that changes hands was free and unpaused; it goes to a request its
\* live reservation lets through, past nobody who should go first; and a call of
\* grant() leaves no machine idle for which somebody waits (scheduler.rs:220).
THEOREM GrantsKeepOrder == Spec => GrantInOrder
<1>1. QueueInv /\ [Next]_vars => [GrantsInOrder]_vars
  BY GrantOrderStep
<1>2. [][GrantsInOrder]_vars => GrantInOrder
  BY PTL DEF GrantsInOrder, GrantInOrder
<1> QED
  BY <1>1, <1>2, QueueInit, QueueStep, PTL DEF Spec
=============================================================================
