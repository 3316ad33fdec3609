---------------------------- MODULE SingleFlight ----------------------------
(***************************************************************************)
(* Single-flight compilation: the compiler wrapper's cache pipeline        *)
(* (cache_or_compile in crates/bellows-cli/src/main.rs) of several runners *)
(* of one static key, and the compiler leases of the server                *)
(* (acquire_lease and release_lease in crates/bellows-server/src/main.rs). *)
(*                                                                         *)
(* A static key may have several candidates, one for each variant of its   *)
(* inputs; a candidate fits a runner when it is the runner's variant       *)
(* (validate_candidate).  Times are what is left of them, in ticks, on one *)
(* clock.  A token is the runner it was given to: a runner owns a lease at *)
(* most once.                                                              *)
(***************************************************************************)
EXTENDS Integers, FiniteSets

CONSTANTS
  Runners,     \* compiler wrappers, each with one invocation
  Wants,       \* runner -> its variant
  Host,        \* runner -> the checkout whose L1 store it uses
  ReadOnly,    \* the runners that publish nothing (BELLOWS_READ_ONLY)
  Ttl,         \* how long a lease is given for
  MaxWait,     \* BELLOWS_MAX_WAIT_MS
  MaxFaults,   \* bound: failed requests, kills, restarts and evictions
  None

ASSUME SingleFlightAssumption ==
  /\ Ttl \in Nat \ {0} /\ MaxWait \in Nat /\ MaxFaults \in Nat
  /\ None \notin [by : Runners, left : 0 .. Ttl]

Variants == {Wants[r] : r \in Runners}
Hosts    == {Host[r] : r \in Runners}

VARIABLES
  runner,   \* the pipelines, see Start
  l1,       \* host -> the variants in its L1 store
  index,    \* the variants the server has candidates of
  lease,    \* the server's lease of the key: [by, left], or None
  faults    \* counts what MaxFaults bounds

vars == <<runner, l1, index, lease, faults>>

Start ==
  [pc      |-> "l1",
   index   |-> {},      \* candidates still to try
   checked |-> {},      \* checked_candidates
   shown   |-> {},      \* every candidate the server ever listed for it
   tried   |-> {},      \* fitting candidates whose restore failed
   remote  |-> TRUE,    \* remote_available
   token   |-> FALSE,   \* owned_token
   ttl     |-> 0,       \* what is left of the lease it was given
   wait    |-> 0,       \* what is left to its deadline
   expiry  |-> 0,       \* what was left of the lease it waits for
   result  |-> None]

Init ==
  /\ runner = [r \in Runners |-> Start]
  /\ l1 = [h \in Hosts |-> {}]
  /\ index = {}
  /\ lease = None
  /\ faults = 0

Fault == faults < MaxFaults /\ faults' = faults + 1

At(r, pc)   == runner[r].pc = pc
Goto(r, pc) == runner' = [runner EXCEPT ![r].pc = pc]

(* The process ends; what is left of it is how. *)
End(r, result) ==
  runner' = [runner EXCEPT ![r] =
    [Start EXCEPT !.pc = "end", !.result = result, !.token = runner[r].token]]

(* leases.retain: an expired lease is none. *)
Free == ~(lease # None /\ lease.left > 0)

-----------------------------------------------------------------------------
(* The runner's own store first; whatever goes wrong there is a miss. *)
L1Hit(r) ==
  /\ At(r, "l1") /\ Wants[r] \in l1[Host[r]]
  /\ End(r, "hit")
  /\ UNCHANGED <<l1, index, lease, faults>>

L1Miss(r) ==
  /\ At(r, "l1")
  /\ Goto(r, "read")
  /\ UNCHANGED <<l1, index, lease, faults>>

(* Remote::candidates; an error makes the remote unavailable. *)
ReadIndex(r) ==
  /\ At(r, "read")
  /\ runner' = [runner EXCEPT ![r].pc = "try", ![r].index = index, ![r].shown = index]
  /\ UNCHANGED <<l1, index, lease, faults>>

ReadFails(r) ==
  /\ At(r, "read") /\ Fault
  /\ runner' = [runner EXCEPT ![r].pc = "compile", ![r].remote = FALSE]
  /\ UNCHANGED <<l1, index, lease>>

(* try_candidates, before the lease and again while waiting for it. *)
Trying(r) == At(r, "try") \/ At(r, "retry")
Then(r)   == IF At(r, "try") THEN "acquire" ELSE "reacquire"

Hit(r) ==
  /\ Trying(r) /\ Wants[r] \in runner[r].index
  /\ End(r, "hit")
  /\ \/ l1' = [l1 EXCEPT ![Host[r]] = @ \cup {Wants[r]}]
     \/ UNCHANGED l1
  /\ UNCHANGED <<index, lease, faults>>

RestoreFails(r) ==
  /\ Trying(r) /\ Wants[r] \in runner[r].index /\ Fault
  /\ runner' = [runner EXCEPT ![r].pc = Then(r), ![r].tried = @ \cup {Wants[r]}]
  /\ UNCHANGED <<l1, index, lease>>

NoneFits(r) ==
  /\ Trying(r) /\ Wants[r] \notin runner[r].index
  /\ Goto(r, Then(r))
  /\ UNCHANGED <<l1, index, lease, faults>>

-----------------------------------------------------------------------------
(* Remote::acquire and acquire_lease. *)
Acquiring(r) == At(r, "acquire") \/ At(r, "reacquire")

Acquire(r) ==
  /\ Acquiring(r) /\ Free
  /\ lease' = [by |-> r, left |-> Ttl]
  /\ runner' = [runner EXCEPT ![r].pc = "compile", ![r].token = TRUE, ![r].ttl = Ttl]
  /\ UNCHANGED <<l1, index, faults>>

(* LeaseResponse::Wait: the first answer starts the wait. *)
MustWait(r) ==
  /\ Acquiring(r) /\ ~Free
  /\ runner' = IF At(r, "reacquire") THEN [runner EXCEPT ![r].pc = "waiting"]
               ELSE [runner EXCEPT ![r].pc = "waiting", ![r].checked = runner[r].index,
                                   ![r].wait = MaxWait, ![r].expiry = lease.left]
  /\ UNCHANGED <<l1, index, lease, faults>>

(* The request fails, or its answer is lost. *)
AcquireFails(r) ==
  /\ Acquiring(r) /\ Fault
  /\ Goto(r, "compile")
  /\ \/ Free /\ lease' = [by |-> r, left |-> Ttl]
     \/ UNCHANGED lease
  /\ UNCHANGED <<l1, index>>

(* The wait loop: sleep while there is time, ...                            *)
Sleep(r) ==
  /\ At(r, "waiting") /\ runner[r].wait > 0 /\ runner[r].expiry > 0
  /\ Goto(r, "asleep")
  /\ UNCHANGED <<l1, index, lease, faults>>

(* Takes every listed candidate for one that was checked before. *)
PollForgets(r) ==
  /\ At(r, "asleep")
  /\ runner' = [runner EXCEPT ![r].pc = "retry", ![r].index = {},
                              ![r].checked = @ \cup index, ![r].shown = @ \cup index]
  /\ UNCHANGED <<l1, index, lease, faults>>

(* ... look for candidates not seen before, try them and ask again,         *)
Poll(r) ==
  /\ At(r, "asleep")
  /\ runner' = [runner EXCEPT ![r].pc = "retry", ![r].index = index \ runner[r].checked,
                              ![r].checked = @ \cup index, ![r].shown = @ \cup index]
  /\ UNCHANGED <<l1, index, lease, faults>>

PollFails(r) ==
  /\ At(r, "asleep") /\ Fault
  /\ Goto(r, "reacquire")
  /\ UNCHANGED <<l1, index, lease>>

(* ... until the deadline, or until the lease first waited for has run out.  *)
GiveUp(r) ==
  /\ At(r, "waiting") /\ (runner[r].wait = 0 \/ runner[r].expiry = 0)
  /\ Goto(r, "compile")
  /\ UNCHANGED <<l1, index, lease, faults>>

-----------------------------------------------------------------------------
(* compile_and_capture.  A captured result goes to the L1 store, then to the *)
(* server if that was reachable.                                             *)
Compiled(r) ==
  /\ At(r, "compile") /\ r \notin ReadOnly
  /\ runner' = [runner EXCEPT ![r].pc = IF runner[r].remote THEN "publish" ELSE "release",
                              ![r].result = "built"]
  /\ \/ l1' = [l1 EXCEPT ![Host[r]] = @ \cup {Wants[r]}]
     \/ UNCHANGED l1
  /\ UNCHANGED <<index, lease, faults>>

(* Nothing was captured, or the runner is read-only. *)
NotCaptured(r) ==
  /\ At(r, "compile")
  /\ runner' = [runner EXCEPT ![r].pc = "release", ![r].result = "uncached"]
  /\ UNCHANGED <<l1, index, lease, faults>>

(* rustc failed, or capturing did and the wrapper runs rustc again. *)
CompileFails(r) ==
  /\ At(r, "compile")
  /\ runner' = [runner EXCEPT ![r].pc = "release", ![r].result = "failed"]
  /\ UNCHANGED <<l1, index, lease, faults>>

(* publish; a failed one is only noted. *)
Publish(r) ==
  /\ At(r, "publish")
  /\ index' = index \cup {Wants[r]}
  /\ Goto(r, "release")
  /\ UNCHANGED <<l1, lease, faults>>

PublishFails(r) ==
  /\ At(r, "publish") /\ Fault
  /\ Goto(r, "release")
  /\ UNCHANGED <<l1, index, lease>>

(* release_lease without a look at the token. *)
ReleaseAny(r) ==
  /\ At(r, "release")
  /\ lease' = IF runner[r].token THEN None ELSE lease
  /\ End(r, runner[r].result)
  /\ UNCHANGED <<l1, index, faults>>

(* A lease that is never given back. *)
ReleaseNothing(r) ==
  /\ At(r, "release")
  /\ End(r, runner[r].result)
  /\ UNCHANGED <<l1, index, lease, faults>>

(* Remote::release and release_lease: only with the lease's own token. *)
Release(r) ==
  /\ At(r, "release")
  /\ lease' = IF runner[r].token /\ lease # None /\ lease.by = r THEN None ELSE lease
  /\ End(r, runner[r].result)
  /\ UNCHANGED <<l1, index, faults>>

(* The release is lost: nobody sends it again. *)
ReleaseFails(r) ==
  /\ At(r, "release") /\ Fault
  /\ End(r, runner[r].result)
  /\ UNCHANGED <<l1, index, lease>>

-----------------------------------------------------------------------------
(* The wrapper is killed. *)
Kill(r) ==
  /\ ~At(r, "end") /\ Fault
  /\ End(r, "killed")
  /\ UNCHANGED <<l1, index, lease>>

(* The server is restarted: it remembers its records, not its leases. *)
Restart ==
  /\ Fault
  /\ lease' = None
  /\ runner' = [r \in Runners |-> [runner[r] EXCEPT !.ttl = 0]]
  /\ UNCHANGED <<l1, index>>

(* A collection, or newer candidates, displace a candidate. *)
Evict(v) ==
  /\ v \in index /\ Fault
  /\ index' = index \ {v}
  /\ UNCHANGED <<runner, l1, lease>>

(* One tick less of a time. *)
Less(n) == IF n > 0 THEN n - 1 ELSE 0

Tick ==
  /\ lease' = IF lease = None THEN None ELSE [lease EXCEPT !.left = Less(@)]
  /\ runner' = [r \in Runners |->
       [runner[r] EXCEPT !.ttl = Less(@), !.wait = Less(@), !.expiry = Less(@)]]
  /\ UNCHANGED <<l1, index, faults>>

RunnerStep(r) ==
  \/ L1Hit(r) \/ L1Miss(r) \/ ReadIndex(r) \/ ReadFails(r)
  \/ Hit(r) \/ RestoreFails(r) \/ NoneFits(r)
  \/ Acquire(r) \/ MustWait(r) \/ AcquireFails(r)
  \/ Sleep(r) \/ Poll(r) \/ PollFails(r) \/ GiveUp(r)
  \/ Compiled(r) \/ NotCaptured(r) \/ CompileFails(r)
  \/ Publish(r) \/ PublishFails(r) \/ Release(r) \/ ReleaseFails(r)

Next ==
  \/ \E r \in Runners : RunnerStep(r) \/ Kill(r)
  \/ Restart
  \/ \E v \in Variants : Evict(v)
  \/ Tick

Spec == Init /\ [][Next]_vars

(***************************************************************************)
(* Wrappers go on and compilers end.  No fairness for the clock: nothing   *)
(* below may have to wait for a lease or a deadline to run out.            *)
(***************************************************************************)
FairSpec == Spec /\ \A r \in Runners : WF_vars(RunnerStep(r))

-----------------------------------------------------------------------------
PipelineStates ==
  {"l1", "read", "try", "acquire", "waiting", "asleep", "retry", "reacquire", "compile",
   "publish", "release", "end"}

Pipelines ==
  [pc : PipelineStates, index : SUBSET Variants, checked : SUBSET Variants,
   shown : SUBSET Variants, tried : SUBSET Variants, remote : BOOLEAN,
   token : BOOLEAN, ttl : 0 .. Ttl, wait : 0 .. MaxWait, expiry : 0 .. Ttl,
   result : {None, "hit", "built", "uncached", "failed", "killed"}]

(* The types of the pipelines, the stores and the lease. *)
SingleFlightTypeOK ==
  /\ runner \in [Runners -> Pipelines]
  /\ l1 \in [Hosts -> SUBSET Variants]
  /\ index \subseteq Variants
  /\ lease = None \/ lease \in [by : Runners, left : 0 .. Ttl]
  /\ faults \in Nat

(* r compiles or publishes under a lease that has not run out. *)
Owns(r) == runner[r].token /\ runner[r].ttl > 0 /\ runner[r].pc \in {"compile", "publish", "release"}

(***************************************************************************)
(* While a runner's lease lasts, it is the server's lease of the key: no   *)
(* late release of an earlier owner takes it away, nobody else is given    *)
(* it, and its end is where the owner thinks it is (release_lease,         *)
(* acquire_lease).                                                         *)
(***************************************************************************)
OwnerHolds ==
  \A r \in Runners : Owns(r) => lease # None /\ lease.by = r /\ lease.left = runner[r].ttl

(* So two runners never own one cold action at a time.                       *)
OneOwner == \A r, q \in Runners : Owns(r) /\ Owns(q) => r = q

(***************************************************************************)
(* A runner compiles only if every fitting candidate the server ever       *)
(* listed for it failed to restore: the wait loop's checked_candidates     *)
(* never hide a result from the runner that waits for it.                  *)
(***************************************************************************)
NothingSkipped ==
  \A r \in Runners : At(r, "compile") /\ Wants[r] \in runner[r].shown =>
                       Wants[r] \in runner[r].tried

(***************************************************************************)
(* Every pipeline ends, whatever the others of its key do, without waiting *)
(* for a lease to expire or for a deadline, as long as nothing fails: a    *)
(* killed owner does make the others wait for its lease to run out.        *)
(***************************************************************************)
Finishes == \A r \in Runners : <>(At(r, "end") \/ faults > 0)
=============================================================================
