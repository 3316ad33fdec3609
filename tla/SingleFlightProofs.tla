------------------------- MODULE SingleFlightProofs -------------------------
(***************************************************************************)
(* For any number of runners, variants, ticks and faults: the pipelines    *)
(* keep their types, an unexpired owner is the server's lease holder, and  *)
(* so a cold action has one owner at a time.                               *)
(***************************************************************************)
EXTENDS SingleFlight, TLAPS

(***************************************************************************)
(* The inductive invariant.  OwnerHolds is inductive once it is known that *)
(* a runner has no token before it compiles: a step that gives the lease   *)
(* away finds it free, so no runner owns it; a step that takes it back     *)
(* comes from its holder; and a runner that compiles without having been   *)
(* given the lease does not own it by an older token.                      *)
(***************************************************************************)
Early == {"l1", "read", "try", "acquire", "waiting", "asleep", "retry", "reacquire"}

NoTokenYet == \A r \in Runners : runner[r].pc \in Early => ~runner[r].token

FlightInv == SingleFlightTypeOK /\ NoTokenYet /\ OwnerHolds

(* The pipelines other than r's are left alone: the shape of every step of r. *)
OnlyRunner(r, p) == runner' = [runner EXCEPT ![r] = p]

(* One tick less is a time of the same range, and is positive only if the    *)
(* time was (Less).                                                          *)
LEMMA LessIsLess ==
  ASSUME NEW m \in Nat, NEW n \in 0 .. m
  PROVE  /\ Less(n) \in 0 .. m
         /\ Less(n) > 0 => n > 0
BY DEF Less

(* A pipeline starts, and ends, with fields of their types (Start, End).     *)
LEMMA StartType ==
  /\ Start \in Pipelines
  /\ \A res \in {None, "hit", "built", "uncached", "failed", "killed"}, tok \in BOOLEAN :
       [Start EXCEPT !.pc = "end", !.result = res, !.token = tok] \in Pipelines
<1>1. 0 \in 0 .. Ttl /\ 0 \in 0 .. MaxWait /\ "l1" \in PipelineStates /\ "end" \in PipelineStates
  BY SingleFlightAssumption DEF PipelineStates
<1>2. Start \in Pipelines
  BY <1>1, Zenon DEF Start, Pipelines
<1>3. ASSUME NEW res \in {None, "hit", "built", "uncached", "failed", "killed"}, NEW tok \in BOOLEAN
      PROVE  [Start EXCEPT !.pc = "end", !.result = res, !.token = tok] \in Pipelines
  BY <1>1, <1>2 DEF Pipelines
<1> QED BY <1>2, <1>3

(* The initial states have their types.                                      *)
LEMMA TypeInit == Init => SingleFlightTypeOK
<1> SUFFICES ASSUME Init PROVE SingleFlightTypeOK
  OBVIOUS
<1>1. runner \in [Runners -> Pipelines]
  BY StartType DEF Init
<1>2. l1 \in [Hosts -> SUBSET Variants] /\ index \subseteq Variants
  BY Zenon DEF Init
<1> QED BY <1>1, <1>2 DEF Init, SingleFlightTypeOK

(* A step of a runner's pipeline keeps the types.                            *)
LEMMA TypeRunner ==
  ASSUME SingleFlightTypeOK, NEW r \in Runners, RunnerStep(r) \/ Kill(r)
  PROVE  SingleFlightTypeOK'
<1> USE SingleFlightAssumption
<1> DEFINE p == runner[r]
<1>1. /\ p \in Pipelines /\ Wants[r] \in Variants /\ Host[r] \in Hosts
      /\ lease = None \/ lease \in [by : Runners, left : 0 .. Ttl]
      /\ faults \in Nat /\ faults' \in Nat
  BY DEF SingleFlightTypeOK, Variants, Hosts, RunnerStep, Kill, Fault, L1Hit, L1Miss,
         ReadIndex, ReadFails, Hit, RestoreFails, NoneFits, Acquire, MustWait, AcquireFails,
         Sleep, Poll, PollFails, GiveUp, Compiled, NotCaptured, CompileFails, Publish,
         PublishFails, Release, ReleaseFails
<1>2. ASSUME NEW q \in Pipelines, OnlyRunner(r, q)
      PROVE  runner' \in [Runners -> Pipelines]
  BY <1>2 DEF OnlyRunner, SingleFlightTypeOK
<1>3. /\ l1' \in [Hosts -> SUBSET Variants] /\ index' \subseteq Variants
      /\ lease' = None \/ lease' \in [by : Runners, left : 0 .. Ttl]
  BY <1>1 DEF SingleFlightTypeOK, RunnerStep, Kill, L1Hit, L1Miss,
         ReadIndex, ReadFails, Hit, RestoreFails, NoneFits, Acquire, MustWait, AcquireFails,
         Sleep, Poll, PollFails, GiveUp, Compiled, NotCaptured, CompileFails, Publish,
         PublishFails, Release, ReleaseFails
<1>4. \E q \in Pipelines : OnlyRunner(r, q)
  <2>1. CASE L1Hit(r) \/ Hit(r) \/ Kill(r) \/ Release(r) \/ ReleaseFails(r)
    <3>1. \E res \in {None, "hit", "built", "uncached", "failed", "killed"} :
            OnlyRunner(r, [Start EXCEPT !.pc = "end", !.result = res, !.token = p.token])
      BY <2>1, <1>1 DEF L1Hit, Hit, Kill, Release, ReleaseFails, End, OnlyRunner, Pipelines
    <3>2. p.token \in BOOLEAN
      BY <1>1 DEF Pipelines
    <3> QED BY <3>1, <3>2, StartType
  <2>2. CASE \/ L1Miss(r) \/ NoneFits(r) \/ AcquireFails(r) \/ Sleep(r) \/ PollFails(r) \/ GiveUp(r)
             \/ Publish(r) \/ PublishFails(r)
    <3>1. \E pc \in PipelineStates : OnlyRunner(r, [p EXCEPT !.pc = pc])
      BY <2>2 DEF L1Miss, NoneFits, AcquireFails, Sleep, PollFails, GiveUp, Publish, PublishFails,
                  Goto, Then, OnlyRunner, PipelineStates
    <3> QED BY <3>1, <1>1 DEF Pipelines
  <2>3. CASE ReadIndex(r) \/ ReadFails(r) \/ RestoreFails(r)
    <3>1. CASE ReadIndex(r)
      <4>1. OnlyRunner(r, [p EXCEPT !.pc = "try", !.index = index, !.shown = index])
        BY <3>1 DEF ReadIndex, OnlyRunner
      <4> QED BY <4>1, <1>1 DEF Pipelines, PipelineStates, SingleFlightTypeOK
    <3>2. CASE ReadFails(r)
      <4>1. OnlyRunner(r, [p EXCEPT !.pc = "compile", !.remote = FALSE])
        BY <3>2 DEF ReadFails, OnlyRunner
      <4> QED BY <4>1, <1>1 DEF Pipelines, PipelineStates
    <3>3. CASE RestoreFails(r)
      <4>1. OnlyRunner(r, [p EXCEPT !.pc = Then(r), !.tried = p.tried \cup {Wants[r]}])
        BY <3>3 DEF RestoreFails, OnlyRunner
      <4> QED BY <4>1, <1>1 DEF Pipelines, PipelineStates, Then
    <3> QED BY <2>3, <3>1, <3>2, <3>3
  <2>4. CASE Acquire(r)
    <3>1. OnlyRunner(r, [p EXCEPT !.pc = "compile", !.token = TRUE, !.ttl = Ttl])
      BY <2>4 DEF Acquire, OnlyRunner
    <3>2. Ttl \in 0 .. Ttl
      OBVIOUS
    <3> QED BY <3>1, <3>2, <1>1 DEF Pipelines, PipelineStates
  <2>5. CASE MustWait(r)
    <3>1. lease.left \in 0 .. Ttl
      BY <2>5, <1>1 DEF MustWait, Free
    <3>2. \/ OnlyRunner(r, [p EXCEPT !.pc = "waiting"])
          \/ OnlyRunner(r, [p EXCEPT !.pc = "waiting", !.checked = p.index,
                                     !.wait = MaxWait, !.expiry = lease.left])
      BY <2>5 DEF MustWait, OnlyRunner
    <3>3. MaxWait \in 0 .. MaxWait
      OBVIOUS
    <3>4. CASE OnlyRunner(r, [p EXCEPT !.pc = "waiting"])
      BY <3>4, <1>1 DEF Pipelines, PipelineStates
    <3>5. CASE OnlyRunner(r, [p EXCEPT !.pc = "waiting", !.checked = p.index,
                                       !.wait = MaxWait, !.expiry = lease.left])
      BY <3>1, <3>3, <3>5, <1>1 DEF Pipelines, PipelineStates
    <3> QED BY <3>2, <3>4, <3>5
  <2>6. CASE Poll(r)
    <3>1. OnlyRunner(r, [p EXCEPT !.pc = "retry", !.index = index \ p.checked,
                           !.checked = p.checked \cup index, !.shown = p.shown \cup index])
      BY <2>6 DEF Poll, OnlyRunner
    <3> QED BY <3>1, <1>1 DEF Pipelines, PipelineStates, SingleFlightTypeOK
  <2>7. CASE Compiled(r) \/ NotCaptured(r) \/ CompileFails(r)
    <3>1. \E pc \in PipelineStates, res \in {"built", "uncached", "failed"} :
            OnlyRunner(r, [p EXCEPT !.pc = pc, !.result = res])
      BY <2>7, ZenonT(60) DEF Compiled, NotCaptured, CompileFails, OnlyRunner, PipelineStates
    <3> QED BY <3>1, <1>1 DEF Pipelines
  <2> QED BY <2>1, <2>2, <2>3, <2>4, <2>5, <2>6, <2>7 DEF RunnerStep
<1> QED BY <1>1, <1>2, <1>3, <1>4 DEF SingleFlightTypeOK

(* A step of anyone keeps the types.                                         *)
LEMMA TypeNext == SingleFlightTypeOK /\ [Next]_vars => SingleFlightTypeOK'
<1> SUFFICES ASSUME SingleFlightTypeOK, [Next]_vars PROVE SingleFlightTypeOK'
  OBVIOUS
<1> USE SingleFlightAssumption
<1>1. CASE \E r \in Runners : RunnerStep(r) \/ Kill(r)
  BY <1>1, TypeRunner
<1>2. CASE Restart
  <2>1. \A r \in Runners : [runner[r] EXCEPT !.ttl = 0] \in Pipelines
    BY DEF SingleFlightTypeOK, Pipelines
  <2> QED BY <1>2, <2>1 DEF Restart, Fault, SingleFlightTypeOK
<1>3. CASE \E v \in Variants : Evict(v)
  BY <1>3 DEF Evict, Fault, SingleFlightTypeOK
<1>4. CASE Tick
  <2>1. ASSUME NEW r \in Runners
        PROVE  [runner[r] EXCEPT !.ttl = Less(@), !.wait = Less(@), !.expiry = Less(@)] \in Pipelines
    <3>1. /\ runner[r] \in Pipelines /\ runner[r].ttl \in 0 .. Ttl
          /\ runner[r].wait \in 0 .. MaxWait /\ runner[r].expiry \in 0 .. Ttl
      BY DEF SingleFlightTypeOK, Pipelines
    <3>2. /\ Less(runner[r].ttl) \in 0 .. Ttl /\ Less(runner[r].wait) \in 0 .. MaxWait
          /\ Less(runner[r].expiry) \in 0 .. Ttl
      BY <3>1, LessIsLess
    <3> QED BY <3>1, <3>2 DEF Pipelines
  <2>2. runner' \in [Runners -> Pipelines]
    BY <1>4, <2>1 DEF Tick
  <2>3. lease' = None \/ lease' \in [by : Runners, left : 0 .. Ttl]
    <3>1. CASE lease = None
      BY <1>4, <3>1 DEF Tick
    <3>2. CASE lease \in [by : Runners, left : 0 .. Ttl]
      <4>1. Less(lease.left) \in 0 .. Ttl
        BY <3>2, LessIsLess
      <4> QED BY <1>4, <3>2, <4>1 DEF Tick
    <3> QED BY <3>1, <3>2 DEF SingleFlightTypeOK
  <2> QED BY <1>4, <2>2, <2>3 DEF Tick, SingleFlightTypeOK
<1>5. CASE UNCHANGED vars
  BY <1>5 DEF vars, SingleFlightTypeOK
<1> QED BY <1>1, <1>2, <1>3, <1>4, <1>5 DEF Next

(* The pipelines, the stores and the lease keep their types                  *)
(* (cache_or_compile, acquire_lease, release_lease).                         *)
THEOREM SingleFlightTypes == Spec => []SingleFlightTypeOK
BY TypeInit, TypeNext, PTL DEF Spec
-----------------------------------------------------------------------------
(* A lease in another runner's name is not None and is not r's.              *)
LEMMA OwnersKept ==
  ASSUME FlightInv, NEW r \in Runners, RunnerStep(r) \/ Kill(r), NEW q \in Runners \ {r}
  PROVE  runner'[q] = runner[q] /\ (Owns(q) => lease' = lease)
<1> USE SingleFlightAssumption
<1>1. runner'[q] = runner[q]
  BY DEF FlightInv, SingleFlightTypeOK, RunnerStep, Kill, L1Hit, L1Miss, End, Goto,
         ReadIndex, ReadFails, Hit, RestoreFails, NoneFits, Acquire, MustWait, AcquireFails,
         Sleep, Poll, PollFails, GiveUp, Compiled, NotCaptured, CompileFails, Publish,
         PublishFails, Release, ReleaseFails
<1>2. ASSUME Owns(q) PROVE lease' = lease
  <2>1. lease # None /\ lease.by = q /\ lease.left = runner[q].ttl /\ runner[q].ttl > 0
    BY <1>2 DEF FlightInv, OwnerHolds, Owns
  <2>2. ~Free
    BY <2>1 DEF Free
  <2> QED
    BY <2>1, <2>2 DEF RunnerStep, Kill, L1Hit, L1Miss,
         ReadIndex, ReadFails, Hit, RestoreFails, NoneFits, Acquire, MustWait, AcquireFails,
         Sleep, Poll, PollFails, GiveUp, Compiled, NotCaptured, CompileFails, Publish,
         PublishFails, Release, ReleaseFails
<1> QED BY <1>1, <1>2

(* What r's own step makes of its ownership: it acquires, keeps what it had  *)
(* without touching the lease, or owns nothing afterwards.                   *)
LEMMA OwnStep ==
  ASSUME FlightInv, NEW r \in Runners, RunnerStep(r) \/ Kill(r)
  PROVE  \/ lease' = [by |-> r, left |-> Ttl] /\ runner'[r].ttl = Ttl
         \/ lease' = lease /\ runner'[r].ttl = runner[r].ttl /\ (Owns(r)' => Owns(r))
         \/ ~Owns(r)'
<1> USE SingleFlightAssumption
<1> USE DEF At
<1>1. runner \in [Runners -> Pipelines] /\ runner[r] \in Pipelines
  BY DEF FlightInv, SingleFlightTypeOK
<1>2. CASE L1Hit(r) \/ Hit(r) \/ Kill(r) \/ Release(r) \/ ReleaseFails(r)
  <2>1. runner'[r].pc = "end"
    BY <1>1, <1>2, ZenonT(60) DEF L1Hit, Hit, Kill, Release, ReleaseFails, End, Start
  <2> QED BY <2>1 DEF Owns
<1>3. CASE \/ L1Miss(r) \/ ReadIndex(r) \/ NoneFits(r) \/ RestoreFails(r)
           \/ MustWait(r) \/ Sleep(r) \/ Poll(r) \/ PollFails(r)
  <2>1. runner'[r].pc \in {"read", "try", "acquire", "reacquire", "waiting", "asleep", "retry"}
    BY <1>1, <1>3 DEF L1Miss, ReadIndex, NoneFits, RestoreFails, MustWait, Sleep, Poll, PollFails,
                      Goto, Then, Pipelines
  <2> QED BY <2>1 DEF Owns
<1>4. CASE Acquire(r)
  BY <1>1, <1>4 DEF Acquire, Pipelines
<1>5. CASE ReadFails(r) \/ AcquireFails(r) \/ GiveUp(r)
  <2>1. runner'[r].token = runner[r].token /\ runner[r].pc \in Early
    BY <1>1, <1>5 DEF ReadFails, AcquireFails, GiveUp, Goto, Acquiring, Early, Pipelines
  <2>2. ~runner[r].token
    BY <2>1 DEF FlightInv, NoTokenYet
  <2> QED BY <2>1, <2>2 DEF Owns
<1>6. CASE \/ Compiled(r) \/ NotCaptured(r) \/ CompileFails(r)
           \/ Publish(r) \/ PublishFails(r)
  <2>1. /\ lease' = lease /\ runner[r].pc \in {"compile", "publish"}
        /\ runner'[r].ttl = runner[r].ttl /\ runner'[r].token = runner[r].token
    BY <1>1, <1>6 DEF Compiled, NotCaptured, CompileFails, Publish, PublishFails, Goto, Pipelines
  <2> QED BY <2>1 DEF Owns
<1> QED BY <1>2, <1>3, <1>4, <1>5, <1>6 DEF RunnerStep

(* A step of a runner leaves no token to a pipeline before its compile.      *)
LEMMA TokenStep ==
  ASSUME FlightInv, NEW r \in Runners, RunnerStep(r) \/ Kill(r)
  PROVE  runner'[r].pc \in Early => ~runner'[r].token
<1> USE DEF At
<1>1. runner \in [Runners -> Pipelines] /\ runner[r] \in Pipelines
  BY DEF FlightInv, SingleFlightTypeOK
<1>2. CASE L1Hit(r) \/ Hit(r) \/ Kill(r) \/ Release(r) \/ ReleaseFails(r)
  <2>1. runner'[r].pc = "end"
    BY <1>1, <1>2 DEF L1Hit, Hit, Kill, Release, ReleaseFails, End, Start
  <2> QED BY <2>1 DEF Early
<1>3. CASE \/ L1Miss(r) \/ ReadIndex(r) \/ NoneFits(r) \/ RestoreFails(r)
           \/ MustWait(r) \/ Sleep(r) \/ Poll(r) \/ PollFails(r)
  <2>1. runner'[r].token = runner[r].token /\ runner[r].pc \in Early
    BY <1>1, <1>3 DEF L1Miss, ReadIndex, NoneFits, RestoreFails, MustWait, Sleep, Poll, PollFails,
                      Goto, Trying, Acquiring, Early, Pipelines
  <2> QED BY <2>1 DEF FlightInv, NoTokenYet
<1>4. CASE \/ Acquire(r) \/ ReadFails(r) \/ AcquireFails(r) \/ GiveUp(r)
           \/ Compiled(r) \/ NotCaptured(r) \/ CompileFails(r) \/ Publish(r) \/ PublishFails(r)
  <2>1. runner'[r].pc \in {"compile", "publish", "release"}
    BY <1>1, <1>4 DEF Acquire, ReadFails, AcquireFails, GiveUp, Compiled, NotCaptured,
                      CompileFails, Publish, PublishFails, Goto, Pipelines
  <2> QED BY <2>1 DEF Early
<1> QED BY <1>2, <1>3, <1>4 DEF RunnerStep

(* The initial states satisfy the inductive invariant.                       *)
LEMMA FlightInit == Init => FlightInv
<1> SUFFICES ASSUME Init PROVE FlightInv
  OBVIOUS
<1>1. \A r \in Runners : ~runner[r].token
  BY DEF Init, Start
<1> QED BY <1>1, TypeInit DEF FlightInv, NoTokenYet, OwnerHolds, Owns

(* A step of anyone keeps the inductive invariant.                           *)
LEMMA FlightNext == FlightInv /\ [Next]_vars => FlightInv'
<1> SUFFICES ASSUME FlightInv, [Next]_vars PROVE FlightInv'
  OBVIOUS
<1> USE SingleFlightAssumption
<1>1. SingleFlightTypeOK'
  BY TypeNext DEF FlightInv
<1>2. CASE \E r \in Runners : RunnerStep(r) \/ Kill(r)
  <2>1. PICK r \in Runners : RunnerStep(r) \/ Kill(r)
    BY <1>2
  <2>2. NoTokenYet'
    BY <2>1, TokenStep, OwnersKept DEF FlightInv, NoTokenYet
  <2>3. ASSUME NEW q \in Runners \ {r}, Owns(q)'
        PROVE  lease' # None /\ lease'.by = q /\ lease'.left = runner'[q].ttl
    <3>1. runner'[q] = runner[q] /\ Owns(q)
      BY <2>1, <2>3, OwnersKept DEF Owns
    <3> QED BY <2>1, <3>1, OwnersKept DEF FlightInv, OwnerHolds
  <2>4. ASSUME Owns(r)'
        PROVE  lease' # None /\ lease'.by = r /\ lease'.left = runner'[r].ttl
    <3>1. CASE lease' = [by |-> r, left |-> Ttl] /\ runner'[r].ttl = Ttl
      BY <3>1
    <3>2. CASE lease' = lease /\ runner'[r].ttl = runner[r].ttl /\ Owns(r)
      BY <3>2 DEF FlightInv, OwnerHolds
    <3> QED BY <2>1, <2>4, <3>1, <3>2, OwnStep
  <2>5. OwnerHolds'
    BY <2>3, <2>4 DEF OwnerHolds
  <2> QED BY <1>1, <2>2, <2>5 DEF FlightInv
<1>3. CASE Restart
  <2>1. ASSUME NEW r \in Runners
        PROVE  /\ runner'[r].ttl = 0 /\ runner'[r].pc = runner[r].pc
               /\ runner'[r].token = runner[r].token
    BY <1>3 DEF Restart, FlightInv, SingleFlightTypeOK, Pipelines
  <2> QED BY <1>1, <2>1 DEF FlightInv, NoTokenYet, OwnerHolds, Owns
<1>4. CASE \E v \in Variants : Evict(v)
  BY <1>1, <1>4 DEF Evict, FlightInv, NoTokenYet, OwnerHolds, Owns
<1>5. CASE Tick
  <2>1. ASSUME NEW r \in Runners
        PROVE  /\ runner'[r].ttl = Less(runner[r].ttl) /\ runner'[r].pc = runner[r].pc
               /\ runner'[r].token = runner[r].token
    BY <1>5, ZenonT(60) DEF Tick, FlightInv, SingleFlightTypeOK, Pipelines
  <2>2. ASSUME NEW r \in Runners, Owns(r)'
        PROVE  lease' # None /\ lease'.by = r /\ lease'.left = runner'[r].ttl
    <3>1. runner[r].ttl \in 0 .. Ttl
      BY DEF FlightInv, SingleFlightTypeOK, Pipelines
    <3>2. Owns(r)
      BY <2>1, <2>2, <3>1, LessIsLess DEF Owns
    <3>3. lease # None /\ lease.by = r /\ lease.left = runner[r].ttl
      BY <3>2 DEF FlightInv, OwnerHolds
    <3>4. lease \in [by : Runners, left : 0 .. Ttl]
      BY <3>3 DEF FlightInv, SingleFlightTypeOK
    <3>5. lease' = [lease EXCEPT !.left = Less(lease.left)]
      BY <1>5, <3>3 DEF Tick
    <3>6. lease' \in [by : Runners, left : 0 .. Ttl]
      BY <3>4, <3>5, LessIsLess
    <3> QED BY <2>1, <3>3, <3>4, <3>5, <3>6
  <2> QED BY <1>1, <2>1, <2>2 DEF FlightInv, NoTokenYet, OwnerHolds
<1>6. CASE UNCHANGED vars
  BY <1>1, <1>6 DEF vars, FlightInv, NoTokenYet, OwnerHolds, Owns
<1> QED BY <1>2, <1>3, <1>4, <1>5, <1>6 DEF Next

(* For any number of runners and any length of a lease, an unexpired owner   *)
(* is the server's lease holder with the same time left (acquire_lease,      *)
(* release_lease).                                                           *)
THEOREM OwnersHoldTheLease == Spec => []OwnerHolds
<1>1. FlightInv => OwnerHolds
  BY DEF FlightInv
<1> QED BY <1>1, FlightInit, FlightNext, PTL DEF Spec

(* So one runner at a time owns the cold action (acquire_lease).             *)
THEOREM OneOwnerAtATime == Spec => []OneOwner
<1>1. OwnerHolds => OneOwner
  BY DEF OwnerHolds, OneOwner
<1> QED BY <1>1, OwnersHoldTheLease, PTL
-----------------------------------------------------------------------------
(***************************************************************************)
(* What NothingSkipped needs of a pipeline before it compiles: what it has *)
(* still to try and what it has checked was listed for it, and a listed    *)
(* candidate that fits was tried, or is among those it is trying.          *)
(***************************************************************************)
Accounted(r) ==
  LET p == runner[r] IN
  /\ p.pc \in {"l1", "read"} => p.shown = {}
  /\ p.index \subseteq p.shown /\ p.checked \subseteq p.shown
  /\ Wants[r] \in p.shown =>
       \/ Wants[r] \in p.tried
       \/ p.pc \in {"try", "retry"} /\ Wants[r] \in p.index

SkipInv == SingleFlightTypeOK /\ \A r \in Runners : Accounted(r)

(* What r's step leaves of its own candidates.                               *)
LEMMA AccountedStep ==
  ASSUME SkipInv, NEW r \in Runners, RunnerStep(r) \/ Kill(r)
  PROVE  Accounted(r)'
<1> USE DEF At
<1>1. runner \in [Runners -> Pipelines] /\ runner[r] \in Pipelines /\ Accounted(r)
  BY DEF SkipInv, SingleFlightTypeOK
<1>2. CASE L1Hit(r) \/ Hit(r) \/ Kill(r) \/ Release(r) \/ ReleaseFails(r)
  <2>1. \E res : runner'[r] = [Start EXCEPT !.pc = "end", !.result = res, !.token = runner[r].token]
    BY <1>1, <1>2 DEF L1Hit, Hit, Kill, Release, ReleaseFails, End
  <2>2. /\ runner'[r].index = {} /\ runner'[r].checked = {} /\ runner'[r].shown = {}
    BY <2>1 DEF Start
  <2> QED BY <2>2 DEF Accounted
<1>3. CASE \/ L1Miss(r) \/ NoneFits(r) \/ AcquireFails(r) \/ Sleep(r) \/ PollFails(r)
           \/ GiveUp(r) \/ Publish(r) \/ PublishFails(r)
  <2>1. /\ runner'[r].index = runner[r].index /\ runner'[r].checked = runner[r].checked
        /\ runner'[r].shown = runner[r].shown /\ runner'[r].tried = runner[r].tried
        /\ runner'[r].pc \in {"l1", "read"} => runner[r].pc = "l1"
        /\ runner[r].pc \in {"try", "retry"} => Wants[r] \notin runner[r].index
    BY <1>1, <1>3 DEF L1Miss, NoneFits, AcquireFails, Sleep, PollFails, GiveUp, Publish,
         PublishFails, Goto, Then, Trying, Acquiring, Pipelines
  <2> QED BY <1>1, <2>1 DEF Accounted
<1>4. CASE ReadIndex(r)
  <2>1. /\ runner'[r].index = index /\ runner'[r].checked = runner[r].checked
        /\ runner'[r].shown = index /\ runner'[r].pc = "try" /\ runner[r].pc = "read"
    BY <1>1, <1>4 DEF ReadIndex, Pipelines
  <2> QED BY <1>1, <2>1 DEF Accounted
<1>5. CASE RestoreFails(r)
  <2>1. /\ runner'[r].index = runner[r].index /\ runner'[r].checked = runner[r].checked
        /\ runner'[r].shown = runner[r].shown /\ Wants[r] \in runner'[r].tried
        /\ runner'[r].pc \notin {"l1", "read"}
    BY <1>1, <1>5 DEF RestoreFails, Then, Pipelines
  <2> QED BY <1>1, <2>1 DEF Accounted
<1>6. CASE \/ ReadFails(r) \/ Acquire(r) \/ Compiled(r) \/ NotCaptured(r) \/ CompileFails(r)
  <2>1. /\ runner'[r].index = runner[r].index /\ runner'[r].checked = runner[r].checked
        /\ runner'[r].shown = runner[r].shown /\ runner'[r].tried = runner[r].tried
        /\ runner'[r].pc \notin {"l1", "read"} /\ runner[r].pc \notin {"try", "retry"}
    BY <1>1, <1>6 DEF ReadFails, Acquire, Compiled, NotCaptured, CompileFails, Acquiring, Pipelines
  <2> QED BY <1>1, <2>1 DEF Accounted
<1>7. CASE MustWait(r)
  <2>1. /\ runner'[r].index = runner[r].index
        /\ runner'[r].checked \in {runner[r].index, runner[r].checked}
        /\ runner'[r].shown = runner[r].shown /\ runner'[r].tried = runner[r].tried
        /\ runner'[r].pc = "waiting" /\ runner[r].pc \notin {"try", "retry"}
    BY <1>1, <1>7 DEF MustWait, Acquiring, Pipelines
  <2> QED BY <1>1, <2>1 DEF Accounted
<1>8. CASE Poll(r)
  <2>1. /\ runner'[r].index = index \ runner[r].checked
        /\ runner'[r].checked = runner[r].checked \cup index
        /\ runner'[r].shown = runner[r].shown \cup index /\ runner'[r].tried = runner[r].tried
        /\ runner'[r].pc = "retry" /\ runner[r].pc = "asleep"
    BY <1>1, <1>8 DEF Poll, Pipelines
  <2> QED BY <1>1, <2>1 DEF Accounted
<1> QED BY <1>2, <1>3, <1>4, <1>5, <1>6, <1>7, <1>8 DEF RunnerStep

(* No candidate was listed for anyone at first.                              *)
LEMMA SkipInit == Init => SkipInv
<1> SUFFICES ASSUME Init PROVE SkipInv
  OBVIOUS
<1>1. ASSUME NEW r \in Runners PROVE Accounted(r)
  <2>1. /\ runner[r].index = {} /\ runner[r].checked = {} /\ runner[r].shown = {}
    BY DEF Init, Start
  <2> QED BY <2>1 DEF Accounted
<1> QED BY <1>1, TypeInit DEF SkipInv

(* A step of one runner, of the server or of the clock leaves the lists of   *)
(* the others alone.                                                         *)
LEMMA SkipNext == SkipInv /\ [Next]_vars => SkipInv'
<1> SUFFICES ASSUME SkipInv, [Next]_vars PROVE SkipInv'
  OBVIOUS
<1>1. SingleFlightTypeOK'
  BY TypeNext DEF SkipInv
<1> DEFINE Same(r) == /\ runner'[r].pc = runner[r].pc /\ runner'[r].index = runner[r].index
                      /\ runner'[r].checked = runner[r].checked
                      /\ runner'[r].shown = runner[r].shown /\ runner'[r].tried = runner[r].tried
<1>2. ASSUME NEW r \in Runners, Same(r) PROVE Accounted(r)'
  BY <1>2 DEF SkipInv, Accounted
<1>3. CASE \E r \in Runners : RunnerStep(r) \/ Kill(r)
  <2>1. PICK r \in Runners : RunnerStep(r) \/ Kill(r)
    BY <1>3
  <2>2. ASSUME NEW q \in Runners \ {r} PROVE runner'[q] = runner[q]
    BY <2>1, <2>2 DEF SkipInv, SingleFlightTypeOK, RunnerStep, Kill, L1Hit, L1Miss, End, Goto,
         ReadIndex, ReadFails, Hit, RestoreFails, NoneFits, Acquire, MustWait, AcquireFails,
         Sleep, Poll, PollFails, GiveUp, Compiled, NotCaptured, CompileFails, Publish,
         PublishFails, Release, ReleaseFails
  <2> QED BY <1>1, <1>2, <2>1, <2>2, AccountedStep DEF SkipInv
<1>4. CASE Restart \/ Tick
  <2>1. ASSUME NEW r \in Runners PROVE Same(r)
    <3>1. runner[r] \in Pipelines
      BY DEF SkipInv, SingleFlightTypeOK
    <3>2. CASE Restart
      <4>1. runner'[r] = [runner[r] EXCEPT !.ttl = 0]
        BY <3>2 DEF Restart
      <4> QED BY <3>1, <4>1 DEF Pipelines
    <3>3. CASE Tick
      <4>1. \E a, b, c : runner'[r] = [runner[r] EXCEPT !.ttl = a, !.wait = b, !.expiry = c]
        BY <3>3 DEF Tick
      <4> QED BY <3>1, <4>1 DEF Pipelines
    <3> QED BY <1>4, <3>2, <3>3
  <2> QED BY <1>1, <1>2, <2>1 DEF SkipInv
<1>5. CASE (\E v \in Variants : Evict(v)) \/ UNCHANGED vars
  BY <1>1, <1>2, <1>5 DEF Evict, vars, SkipInv
<1> QED BY <1>3, <1>4, <1>5 DEF Next

(* Whatever is published, evicted or lost while a runner waits, it compiles  *)
(* only when every fitting candidate it was ever shown failed to restore:    *)
(* checked_candidates hide nothing from it (cache_or_compile).               *)
THEOREM NothingIsSkipped == Spec => []NothingSkipped
<1>1. SkipInv => NothingSkipped
  BY DEF SkipInv, Accounted, NothingSkipped, At
<1> QED BY <1>1, SkipInit, SkipNext, PTL DEF Spec
=============================================================================
