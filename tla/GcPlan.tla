------------------------------- MODULE GcPlan -------------------------------
(***************************************************************************)
(* What a collection decides to evict: Plan::new of                        *)
(* crates/bellows-core/src/gc.rs, as operators on a snapshot of the store. *)
(*                                                                         *)
(* A snapshot lists the evictable units (compiler candidates, declared     *)
(* actions, archives) and the blobs that were on disk, with their sizes    *)
(* and times.  The plan visits the units from the least recently used,     *)
(* first the executables until they fit a budget of their own, then all    *)
(* of them until the blobs that stay fit the budget of the store.          *)
(* Reference counts are kept as sets of referring units.                   *)
(***************************************************************************)
EXTENDS Integers, FiniteSets, FiniteSetsExt, SequencesExt, TLC

CONSTANTS
  Grace,      \* UNPUBLISHED_BLOB_GRACE: how long an unreferenced blob is kept
  NoBudget    \* no executable budget (max_executable_bytes is None)

Executable == "executable"

(***************************************************************************)
(* A unit is [candidate, protocol, kind, last, blobs]: whether it is a     *)
(* compiler candidate, its protocol, its kind, its last use and the        *)
(* listed blobs it references.  A snapshot is [units, blobs], the blobs a  *)
(* function from the digests found on disk to [bytes, modified].  Options  *)
(* are [max_bytes, min_protocol, max_executable_bytes]; no minimum         *)
(* protocol is 0.                                                          *)
(***************************************************************************)
Referrers(s, b) == {i \in DOMAIN s.units : b \in s.units[i].blobs}

Bytes(s, B) == MapThenSumSet(LAMBDA b : s.blobs[b].bytes, B)

(* u64::saturating_sub *)
SaturatingSub(m, n) == IF m > n THEN m - n ELSE 0

(* Blobs no unit references, past the grace period of an upload. *)
Unreferenced(s, now) ==
  {b \in DOMAIN s.blobs :
     /\ Referrers(s, b) = {}
     /\ SaturatingSub(now, s.blobs[b].modified) >= Grace}

(* A candidate of a protocol current clients do not read. *)
Obsolete(u, options) == u.candidate /\ u.protocol < options.min_protocol

(* Sort key (!obsolete, last_used_ms, index). *)
EvictedBefore(s, options, i, j) ==
  LET u == s.units[i]  v == s.units[j] IN
  \/ Obsolete(u, options) /\ ~Obsolete(v, options)
  \/ /\ Obsolete(u, options) <=> Obsolete(v, options)
     /\ \/ u.last < v.last
        \/ u.last = v.last /\ i < j

(* The n-th unit to go is the one n - 1 others go before. *)
EvictionOrder(s, options) ==
  [n \in DOMAIN s.units |->
     CHOOSE i \in DOMAIN s.units :
       Cardinality({j \in DOMAIN s.units : EvictedBefore(s, options, j, i)}) = n - 1]

(* Counts every byte of the unit as freed, shared or not. *)
EvictCountsShared(s, p, i) ==
  LET unit  == s.units[i]
      freed == {b \in unit.blobs : Referrers(s, b) \subseteq p.evicted \cup {i}}
      bytes == Bytes(s, unit.blobs) IN
  IF i \in p.evicted THEN p ELSE
  [evicted |-> p.evicted \cup {i},
   freed |-> p.freed \cup (freed \X {i}),
   bytes_after |-> SaturatingSub(p.bytes_after, bytes),
   executable_bytes |-> p.executable_bytes]

(***************************************************************************)
(* The closure `evict`: unit i goes, and with it the blobs only evicted    *)
(* units referenced.                                                       *)
(***************************************************************************)
Evict(s, p, i) ==
  LET unit  == s.units[i]
      freed == {b \in unit.blobs : Referrers(s, b) \subseteq p.evicted \cup {i}}
      bytes == Bytes(s, freed) IN
  IF i \in p.evicted THEN p ELSE
  [evicted |-> p.evicted \cup {i},
   freed |-> p.freed \cup (freed \X {i}),
   bytes_after |-> SaturatingSub(p.bytes_after, bytes),
   executable_bytes |->
     IF unit.kind = Executable THEN SaturatingSub(p.executable_bytes, bytes)
     ELSE p.executable_bytes]

(* Blobs only executables reference: what evicting all of them would free. *)
ExecutableOnly(s) ==
  {b \in DOMAIN s.blobs :
     /\ Referrers(s, b) # {}
     /\ \A i \in Referrers(s, b) : s.units[i].kind = Executable}

(* Whether a pass over the units evicts unit i when it comes to it. *)
Due(s, options, pass, p, i) ==
  IF pass = Executable
  THEN /\ p.executable_bytes > options.max_executable_bytes
       /\ s.units[i].kind = Executable
  ELSE p.bytes_after > options.max_bytes \/ Obsolete(s.units[i], options)

(***************************************************************************)
(* One loop over the order.  A `break` leaves the rest alone: once its     *)
(* condition holds no later unit can make it false, since nothing more is  *)
(* evicted and the obsolete units come first.                              *)
(***************************************************************************)
Pass(s, options, pass, start) ==
  LET order == EvictionOrder(s, options)
      after[n \in 0 .. Len(s.units)] ==
        IF n = 0 THEN start
        ELSE IF Due(s, options, pass, after[n - 1], order[n])
        THEN Evict(s, after[n - 1], order[n])
        ELSE after[n - 1] IN
  after[Len(s.units)]

(* Plan::new. *)
Plan(s, options, now) ==
  LET unreferenced == Unreferenced(s, now)
      start ==
        [evicted |-> {}, freed |-> {},
         bytes_after |-> SaturatingSub(Bytes(s, DOMAIN s.blobs),
                                       Bytes(s, unreferenced)),
         executable_bytes |-> Bytes(s, ExecutableOnly(s))]
      first == IF options.max_executable_bytes = NoBudget THEN start
               ELSE Pass(s, options, Executable, start)
      last  == Pass(s, options, "all", first) IN
  [evicted |-> last.evicted, freed |-> last.freed,
   unreferenced |-> unreferenced, bytes_after |-> last.bytes_after]
=============================================================================
