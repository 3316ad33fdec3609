# Bellows: a TLA+ model

Bellows caches the results of `rustc` for Cargo builds and shares the machines
they run on. This directory holds a model of it: the build machine lease
(`bellows-lease`), the content store and its garbage collection (`bellows-core`,
`bellows-server`), and of the client (`bellows-cli`) the session relay, the
single-flight pipeline, the cached execution of compilers and build scripts, the
launcher of a build script, declared actions, the event log and the algorithms
that decide what a result depends on. TLC checks the modules on
small instances; TLAPS proves the theorems for every value of the constants.
`PROJECT.json` maps every definition to the lines it models and lists the runs,
the mutants that show each property can fail, the hazards and the findings.

## The system

| component | state | operations |
|---|---|---|
| lease scheduler (`scheduler.rs`) | queue, holders, nested leases, unclaimed grants, pauses, reservations, merge queue, CI marks, id and token counters | admit, grant, claim, release, reorder, pause, reserve, preempt, CI start and stop, set merge queue, overruns |
| lease daemon (`server.rs`) | one task per connection, mailboxes, the `changed` notification, the scheduler behind a mutex | hello, wait for a grant, deliver, hear, forward, finish, administrator orders, regrant |
| lease client (`client/mod.rs`) | connection, job process group, flags for revoked, lost and signalled | wait, start the job, report its group, stop it, kill it, say Done |
| store (`bellows-core/lib.rs`) | blob files, candidate indexes, declared and archive records, access journal, mutation lock | put and commit blobs, put records, record uses |
| collection (`gc.rs`) | snapshot, plan, what was used since | rotate, read, plan, apply in batches, compact |
| cache server (`bellows-server/main.rs`) | write lock, one lock per executed action, compiler leases | HTTP handlers, periodic collection |
| relay (`relay.rs`) | state of each digest, spool, two orders of sequence numbers, background tasks | put blob, defer record, defer release, pass through, upload, finish |
| wrapper, between runners (`bellows-cli/main.rs`) | one invocation's pipeline, the L1 store | L1 lookup, index, try candidates, lease, wait, compile, publish, release |
| wrapper, inside a checkout (`main.rs`, `digests.rs`) | inputs and their stamps, kept digests, incremental session, outputs | identity, validation, restore output by output, execution, capture, publication |
| identity of a compile (`main.rs`, `bellows-core/lib.rs`) | none | what is refused, what enters the static key, normal form of paths |
| link steps (`link.rs`) | none | which files a link can read, what is recorded of them |
| build scripts (`build_script.rs`) | the script's file, the real script, the record; the package's listings | install and remove a launcher, run or replay a script |
| declared actions (`main.rs`, `restore.rs`) | inputs, records, output trees, `restore.lock`, staging directories | collect, look up, execute, publish, replace the outputs, roll back |
| impact analysis (`main.rs`) | none | compare two snapshots of a workspace |
| event log (`diagnostics.rs`) | three generations of a file, a lock file | append, rotate, read |

Interactions. Lease clients talk to the daemon over a Unix socket and the
daemon's tasks share the scheduler; a session's token lets nested clients run
inside it. Wrappers talk to `bellowsd`, directly or through the relay of their
build; `bellowsd` writes to a store that its own collection reads and deletes
from. The relay answers before it has published, so what a wrapper was told is
stored is a promise of the relay.

What is hard here: a grant made by one task on behalf of another; connections
that end at any moment; daemon restarts under running jobs; a collection that
reads the store without a lock while records are published; journals that are
renamed while they are appended; background publication that has to keep an
order; leases that run out under their owner; sources that an editor changes
while they are read, checked or hashed; results that embed a path, a terminal or
an earlier session; trees and launchers that are replaced file by file and may be
given up between any two.

What makes each part correct:

- *lease*: one job tree per machine, no idle machine while a request could run,
  the queue's order, the end of every job with its lease;
- *store and collection*: no candidate without its blobs, no eviction of what
  is in use, a name bound once, exact accounting of shared blobs;
- *relay*: records after their blobs, releases after their records, a bounded
  spool that nobody waits for in vain, a truthful summary;
- *single flight*: the lease belongs to its owner until it runs out, no
  published result is passed over, everybody finishes;
- *cached execution*: a stored result was made from the inputs recorded with it,
  and a hit leaves what an execution here would have written;
- *identity*: what rustc can see is in the key, in the candidate's digests or
  refused; a checkout, a shell or a terminal is not; a path means the same file in
  every checkout;
- *launcher*: Cargo starts the script it has just compiled;
- *declared actions*: a record belongs to its key, the outputs are replaced
  together or not at all, and nothing is lost;
- *impact, event log*: exactly the packages that a change reaches; the latest
  events, in order and without a gap.

## Modules

| module | models | state and actions |
|---|---|---|
| `MachineLease` | abstract: a machine has one owner or none, and a request gets a machine once | `owner` and the `spent` ids; `Acquire`, `Retire` |
| `LeaseScheduler` | `scheduler.rs` | `sched` is the struct; each method is an operator on it, each action a call |
| `LeaseSchedulerProofs` | theorems on `LeaseScheduler` | |
| `LeaseDaemon` | `server.rs`, the client's `lease_and_run`, the protocol between them | extends `LeaseScheduler`: the tasks' program counters between awaits, mailboxes, channels in both directions, client processes and jobs |
| `LeaseDaemonProofs` | theorems on `LeaseDaemon` | |
| `GcPlan` | `Plan::new` as a function of a snapshot | `Plan`: passes over the eviction order |
| `StoreGc` | store, handlers and `Store::collect` | extends `GcPlan`: files, indexes, journals, locks, publishers and the collection's position |
| `StoreGcProofs` | theorems on `StoreGc` and `GcPlan` | |
| `Relay` | `relay.rs` and the wrapper's `put_blobs` | digests, spool, orders, uploads, deferred tasks; the server is external |
| `RelayProofs` | theorems on `Relay` | |
| `SingleFlight` | `cache_or_compile`, `acquire_lease`, `release_lease` | one pipeline per runner, the index, the lease |
| `SingleFlightProofs` | theorems on `SingleFlight` | |
| `CachedRun` | the wrapper's and the launcher's `cached_run` in each checkout: `build_identity`, `validate_candidate`, `restore_with`, `compile_and_capture`, `capture_outputs`, `Digests` | files with stamps and inodes, kept digests, stores, one job per checkout; one action per input read, checked or hashed and per output written; `Edit` at any moment; `Rebuild` replaces what an earlier unit wrote, and remembers its digest |
| `CachedRunProofs` | theorems on `CachedRun` | |
| `Launcher` | `install_launcher`, `remove_launcher`, `launched_as` | the unit's three files; one action per file operation, failure and kill |
| `Declared`, `DeclaredProofs` | `bellows run` and `execute`, `restore.rs` | clients, records, trees and backups; one action per rename, and its undo |
| `EventLog` | `append_with_limit`, `read_log` | three generations, the lock's owner, a reader's position: its two looks before the lock, and what it has read under it |
| `CompileKey` | what `Invocation::analyze` and `build_identity` refuse and put in the key | `Refused`, `StaticKey` and their parts |
| `PathNormalizer` | `root_bases`, `normalize`, `localize`, `outside_checkout_roots` | operators on paths |
| `LinkInputs` | `link.rs` | the files a link is given, those it searches, the tools of its driver, what is recorded |
| `Impact` | `compare_workspace_snapshots` | the worklist over dependents |
| `ClientProofs` | theorems on `Launcher`, `EventLog` and `Impact` | |
| `MCAlgorithms` | the five pure modules (with `GcPlan`) | every call of a small domain, its answer, and what it ought to be |
| `MCClient` | the client's modules beside each other | one part moves in a behaviour, the others stay as they began |
| other `MC*` | instances for TLC | requests, shared blobs, snapshots |

Conventions. An operator with a name that says what is wrong with it
(`grant_keeps_waiting`, `SendReleaseEarly`) stands before the definition it
mutates and is used by no specification. A handler is one action unless it
awaits, takes or drops a lock, or makes two system calls another process can
come between; then it is one action for each part.

Abstractions. Labels are sets of the reservation texts they contain; estimates,
log lines and printed messages are left out. A session's token is the id it was
made for. A blob is a model value of one byte in `StoreGc` and `Relay`, and has
a size in `GcPlan`. A static key's candidates differ by their variant in
`SingleFlight`, which is what `validate_candidate` tells apart, and a candidate
that does not fit is a miss. Listing the blob directory is one step of
the collection; each record file is read in a step of its own. A corrupt blob
file stays distinct from an absent one, since existence checks look at both, and from one that
`commit_blob` has removed to put a good one in its place: the removal and the rename are two
steps, both under the mutation lock, and a failure or the end of the server can come between.

In the client a digest stands for the content it was computed from; what an
execution writes is a function of what it read, of the checkout if it embeds a
path, of the width if it prints diagnostics, and of what an earlier session left.
Time is a small clock, and a stamp may trail it by `Slack`, as `timestamp_slack`
allows for. A path is a sequence of components; options and variables are represented by one of
each class the code distinguishes. The three checks and renames of a rotation are
steps of their own, and so are the two `exists` calls with which `read_log` begins before it
takes the lock. Listing a package is one step. The identity under which a digest is kept is
that of a Unix system: without inodes and change times, elsewhere, it has the modification
time only, and a program that sets that back defeats it.

What another unit wrote is an input of this one. Cargo runs the units one after the other, so it
changes between this unit's jobs only (`Rebuild`): each time it is a new file, on an inode the
file system chooses, whose digest `Digests::remember` keeps at once if the wrapper restored or
captured the unit, and nobody keeps if it did not come so far. Cargo's lock on the target
directory is taken to keep everybody else from writing the file between the wrapper's write
and `remember`'s look at it.

## Runs

Every passing run checks its properties on all reachable states; the largest has
about 1.6 million. Deadlock checking is off because every instance ends when
its bounded numbers of requests, orders, publications and faults are used up.

| run | question | bounds and why they suffice |
|---|---|---|
| `scheduler` | consistency of leases, refinement of `MachineLease`, what `grant` takes, where moved requests stand | one machine and one that is not configured, three ids: a session with a nested run and a rival, two priorities, one merge queue, one reservation; the theorems cover any number of machines and requests |
| `daemon_session` | tasks against the scheduler, jobs against leases, lost wakeups, idle machines | a session, a nested client that may be killed and a rival; jobs of the session leave descendants; one order of any kind |
| `daemon_lives` | every request is answered; revocation, signals and a lost daemon stop the job | two clients, one advisory and interrupted, one cancel, one restart; the 15-second poll may never fire |
| `gc_candidates` | publications and two faults (crash, failed collection, full disk, bad block) during collections | two publications that share a blob, two collections, two instants, so that "since the snapshot" splits them; two faults, so that a blob can go bad and its replacement be cut short |
| `gc_named` | displaced candidates, hits; declared records, put and executed | two publications, one hit, an index of one candidate, one name |
| `relay_session` | order, end and report of background work | a wrapper putting two blobs at once, one that shares a blob and may be an archive, one upload at a time, a spool of one blob, one blob collected by the server |
| `single_flight` | owner, token and candidates; all pipelines end | three runners, two of one variant, one read-only, one fault anywhere, a clock that may stop |
| `client`, executions | `CandidateSound`, `HitSound`: edits before, while and after a unit or script is looked up, restored, run and captured | two checkouts, two executions, one edit and one fault (for a compile one of the two), two contents of which one warns and embeds a path, a clock of two instants: an edit in the same instant as a read, one before and one after it; one input is a source whose content is hashed for the key, one the output of another unit that is rebuilt, on either of two inodes, and remembered or not; both are large enough for the memo |
| `client`, declared actions | `RecordOfKey`, `AllOrNothing`, `NothingLost`, `RestoresOwnKey` | two clients, two inputs, two roots of which one contains a third, one change or restart, two failures: one to interrupt a restore, one to interrupt its rollback |
| `client`, launcher | `RunsLatest` | two scripts, three builds, three failures or kills: a launcher, its interrupted removal, and another |
| `client`, event log | `ReadsLatest` | two writers, generations of two lines, seven events, so that the oldest is dropped and a whole generation fits between a reader's two looks, and two interruptions |
| `client`, algorithms | `PlanIsExact`; `PathsTravel`; `KeySound`, `KeyShared`; `LinkSound`; `AffectedExact` | three units on two shared blobs and every budget; five layouts of nested roots; invocations that differ in each thing that may differ and in each two of them, on Windows with and without Visual Studio and elsewhere; one library in up to three directories, the driver's linker in each place it is looked for, a driver that reports nothing; every acyclic graph of three packages |

Publishers are symmetric in the two store runs, checkouts and clients in
`client`. The parts of `client` share no state, so the run is a union of five.
In the executions `Superfluous` leaves out steps that make no difference, for the reasons given
there: what changes in a checkout after its last job, and one of two inodes where either will do.
Four kinds of changes are left out of it by a constant: of a file between the check
of its stamps and its hash (`Window`, the subject of `capture_race`), of a file that
comes and goes within one execution of a script (`Transient`), below a
subdirectory of a declared directory (`Nested`), and of a remembered output within one tick of
its stamps, if the new file has the inode of the old one, or is the old one written over
(`Reuse`). With each of the last three
`CandidateSound` is violated as well (for `Reuse`, with the configuration of `capture_race`, since
`client` skips its steps): the code compares listings and one directory's stamp, and does
not see the first two; and the comment "any later rewrite changes it" at `digests.rs:67` is true
of a rewrite on another inode or at a later tick, not of one that has neither.

`KeySound` makes two exceptions, where comments of the source say that the key is not complete.
A procedural macro may read a variable of the shell, or run a program from `PATH`, without a
record, and a compile that uses one is shared across shells (`main.rs:2942-2944`). A Windows host
without Visual Studio takes `link.exe` from `PATH`, which "is not detected here"
(`main.rs:3031-3032`). `RustcSees` has both, and `Excepted` names them for the invocations
that they concern; every other part must agree there as well.

Four runs show a disagreement between the code and what the repository says
of it (`findings` in `PROJECT.json` quotes both):

| run | what happens |
|---|---|
| `leak_divergence` | a client that dies while the daemon writes to it leaves its request or lease behind |
| `gc_declared_divergence` | a declared record's blob is deleted, since it is in no journal |
| `capture_race` | a source replaced between the check of its stamps and its hash is recorded, with its new digest, for a result of its old content |
| `link_divergence` | a library that appears earlier in the search order does not invalidate a link |

The model also reaches behaviour that a reader of the comments would not expect
and that no run singles out; the hazards of `PROJECT.json` name the lines. Of
two requests moved to one position the older one loses it. A cancel between
grant and mailbox is acknowledged and reaches nobody. A session client killed
before it reported its group can leave a nested job on a machine that is granted
again, which is why `daemon_session` does not kill it. An existence check
between the collection's look at a blob and its removal does not save the blob. A
use can land in the rotated journal after the rotation. A candidate published
without its journal line loses its blobs (`NoDanglingCandidate` excludes it). The
relay does not upload a blob again that the server has collected
(`RefusedOnlyIfFailed` excludes it). A runner that reads the index before the owner
publishes and acquires the lease after its release compiles a second time, although
the repository's README says that concurrent cold runners compile an action once. A
launcher whose record could not be written stays in the script's place, although
the wrapper reports that the script runs uncached (`RunsLatest` excludes it). A
client that finds a local record with a lost blob removes the record by its key, and
with it one that another client has just made. The loser of a race to publish the
same declared action to the server fails, since the name is bound.

## Fairness

- *Lease*: weak fairness for each daemon task, each client process and the
  notification, because the runtime polls ready tasks and the client loops every
  100 ms. None for the 15-second poll (the properties must not need it), jobs,
  signals, crashes and administrators. `Served` assumes in addition that jobs end
  and that no failed task has left a lease behind (`leak_divergence` shows one).
- *Relay*: weak fairness for the background tasks together (every request has a
  time-out) and for each wrapper. None for failures of the spool or for the
  end of the session.
- *Single flight*: weak fairness for each pipeline. None for the clock:
  `Finishes` may not rest on a lease or deadline running out. It speaks of
  behaviours without a fault, because a killed owner does make the others wait
  for its lease.

## Proofs

Every theorem holds for all values of the constants that satisfy the named assumptions.
An inductive invariant is called by its name in the proof module. Most say of a process,
at each of its program points, what the other processes' state is then.

`LeaseSchedulerProofs`

- `TypeCorrect`: `Spec => []TypeOK`.
- `LeasesConsistent`: `Spec => []LeasesAgree`, which is `FreshIds`, `OneState` and
  `UnclaimedIsHeld`. None of
  the three is inductive alone. `grant` moves a waiting request into the holders,
  so `OneState` needs that ids are unique in the queue (`FreshIds`), and
  `UnclaimedIsHeld` needs `OneState` to know that `release` of one id does not free
  another's machine. The invariant is their conjunction with `TypeOK`; `grant` is
  a map over the machines, so its lemmas say what happens to one machine.
- `SchedulerImplementsLease`: `Spec => LeaseSpec`. A machine's abstract owner is
  the id in `holders`, and every id that is not waiting is spent; the step simulation uses the invariant above, in that a
  taken machine was free.
- `PreemptionIsFinal`: `Spec => PreemptEndsSession`. An action property: each call either
  leaves a machine's holder or clears it, nothing takes the mark away, and `admit` nests in no
  marked session. `grant` fills only free machines, so type correctness is all it needs.

- `QueueKeepsOrder`: `Spec => []QueueInOrder`, and `GrantsKeepOrder`: `Spec => GrantInOrder`,
  an action property. Both are about `order`, which puts moved requests one by one into the
  sorted others. That the sort is one is shown by counting (a request's place is the number of
  requests before it, and in a finite total order these numbers are a bijection), and that
  putting keeps the others' order and every moved request at or ahead of its position by
  induction on what was put (`PutAll` is a recursive function). The invariant, `QueueInv`, adds
  to the one above that the queue is finite, that arrivals are dated and that ids and moves are
  numbers (`Arrivals`): the order is total only then. For the last part of `GrantInOrder`, that
  a machine is not passed over, the lemma says that a finite queue with an eligible request has
  a first one, which `grant` takes.

They assume that `None` is neither a number nor a holder, that the configured numbers and the
places in the merge queue are natural and that requests have the declared shape; nothing bounds
the number of machines or requests.

`LeaseDaemonProofs` builds on these lemmas: every daemon step that changes the scheduler is
one of its calls.

- `ServingIsHolding`: `DaemonSpec => []ServingHolds`.
- `JobsRunLeased`: `DaemonSpec => [](restarts = 0 => JobIsLeased)`. A restarted daemon has
  forgotten its leases while the jobs are still being stopped, so after a restart it is not
  meant to hold; `StopsJob` says what happens then.
- `JobsExclude`: `DaemonSpec => [](restarts = 0 => ExclusiveJobs)`, if no client inside which
  others run is killed (`SessionsImmortal`). Without that it is false: see the hazard at
  `client/mod.rs:545`. Nested clients and rivals may be killed at any moment.
- `NoMachineIdles`: `DaemonSpec => [](AllTended => NoIdleMachine)`. `AllTended` says that each
  queued request still has its task; one that lost it to a failed send is never taken up again
  (`leak_divergence`), and a machine may well idle for it until the next poll.

`DaemonInv` says that each request stands on its machine under an id of its own (`Bound`); how
a task's program counter and the scheduler agree (`TaskInv`); that a job is started only after
the grant was sent and that nothing of it outlives its report (`ProcInv`); and, as long as the
daemon has not been restarted, that the task of a started job serves it until its group is gone
(`ServedInv`). The last three speak of messages in the channels: between a grant's sending and
its reading only the channel knows of it. The scheduler is shared, so a task's invariant must
survive the steps of the others: the lemmas on `SameStatus` say that no call takes a lease or a
place from another's request, except that a queued one may be granted or cancelled.
`SessionsInv` adds that a session's token is its id wherever it travels (`TokenInv`), and that a
nested client which is alive runs in a job of its session's client, on the machine the session
holds (`SessionInv`). For the last theorem, `IdleInv` says what the notifications are for: while a
machine could be granted, all waiting tasks have been woken, a task whose grant another made has
been woken, or somebody is still to call `grant` or to notify (`Stirring`, `Notifying`). `grant`
leaves nothing grantable (`NothingLeft`), and what is next depends on the queue, the merge queue
and the reservations only (`FirstDepends`), so that calls which touch none of these make no
machine grantable. They assume that requests are well-formed, that sessions do not nest twice,
that `None` is no client and no mailbox, and that orders name clients and machines.

`SingleFlightProofs`

- `SingleFlightTypes`: `Spec => []SingleFlightTypeOK`.
- `OwnersHoldTheLease`: `Spec => []OwnerHolds`. The inductive invariant adds that a
  pipeline that has not asked for a lease has no token (`NoTokenYet`), without which
  `Compiled` after a failed request could make an owner of a runner that never got
  an answer.
- `OneOwnerAtATime`: `Spec => []OneOwner`, since a lease has one owner.
- `NothingIsSkipped`: `Spec => []NothingSkipped`. `NothingSkipped` looks at a runner when it
  compiles; `SkipInv` accounts for each listed candidate before that: it was tried, or is
  among those being tried.

They assume only that `Ttl` is positive, the bounds are natural and `None` is not a
lease.

`CachedRunProofs`

- `CandidatesAreSound`: `Spec => []CandidateSound`.
- `HitsAreSound`: `Spec => []HitSound`.

Both for `Calm`: no file changes between the check of its stamps and its hash (`Window`), none
comes and goes within one execution (`Transient`), no declared directory has subdirectories
(`Nested`), and no output has the inode of a remembered one within one tick of its stamps
(`Reuse`). Outside `Calm` the first is violated, as `capture_race` and the section on runs say;
within it, edits, clock ticks and other checkouts interleave with every read, check and write.
`RunsInv` has three parts. What was read of an input is what it is now *or* its change time is
late enough for the check to see it (`Unchanged`, `RunInv`, `CaptureInv`), and the same for a
directory's entries (`EntryKept`). A digest is right for any file with the identity it is
kept under (`MemoSound`): one that `file` kept was old enough for every later change to show, and
one that was remembered is of a produced file, which changes by being replaced. And what a hit
restores fits contents the inputs had since the job began (`HitInv`). The soundness of a stored candidate (`Sound`) is stronger than `CandidateSound`: it
also says that outputs come from one execution. They assume that the slack of stamps is not above the
margin for racy digests (`Slack <= Racy`) and that the special values are distinct.

`ClientProofs`

- `StartsLatestScript`: `LauncherSpec => []RunsLatest`. `RunsLatest` speaks of finished
  units; the invariant adds where the script of this build is at each step of the
  installation (`Installing`), and that Cargo takes no unit for finished meanwhile.

- `ReadersMissNothing`: `LogSpec => ReadsLatest`, an action property: when a reader has been
  given its last generation, nothing is missing, and when it goes away without opening the log,
  nothing had been written at its first look or a whole generation since. It can go away from a
  full log: the first look meets one rotation, the second the next, and no lock holds the two
  together. `Looking` relates the generations to what has been written since the first look. `LogInv` shares the events out over the three
  generations: there are boundaries `b` such that each file holds exactly the events between two
  of them (`Shared`), less the writes that were cut. A rotation given up half-way moves the
  boundaries, and two of them fall together. `Rotating` says that a full file is what is rotated,
  that a rename finds its target gone, and that nobody rotates or writes under a reader.
- `AffectedIsLeast`: for every two snapshots of a finite workspace, `Compare` reports as
  affected the least set that contains the changed surfaces and every dependent of a member,
  and its worklist is empty at the end. In each round one more package leaves the frontier for
  good, so as many rounds as there are packages empty it (`Spreading`). Cycles need no exception.

They assume that the names of the launcher, of half a launcher and of no file are not scripts,
that "no log" is not a sequence of lines, and that limits are natural and positive.

`DeclaredProofs`

- `RecordsMatchKeys`: `DeclaredSpec => []RecordOfKey`. The inputs change under a client,
  so the invariant (`RecordInv`) follows the key through it: from the lookup on its
  inputs are a whole key, and what it publishes was made from them (`ClientInv`).
- `AllRootsOrNone`: `DeclaredSpec => []AllOrNothing`, and `NothingIsLost`:
  `DeclaredSpec => []NothingLost`. `RestoreInv` says that only the lock's holder has moved
  anything, that the roots it has moved are those it would undo, each once (`Swapping`), and for
  each root that what was promised is in place or aside (`InPlace`, `MovedAside`): a failing
  rename, its rollback and a failure of that are steps between these.
- `RestoresItsKey`: `DeclaredSpec => RestoresOwnKey`, an action property: the step that ends a
  restore successfully finds every root replaced with the outputs of this client's key.

They assume that there is a content, that none of the contents means "no record", and that
every declared output lies below a declared root.

`RelayProofs`

- `ReleaseFollowsRecord`: `Spec => []ReleasedAfterRecord`. A record under way is an open
  sequence number of its own, below the number its wrapper's release waits for (`RecordsOpen`,
  `ReleasesLast`).
- `RefusalMeansFailure`: `Spec => []RefusedOnlyIfFailed`. A blob may have been carried by another
  wrapper's request: `BlobsSafe` says of every blob that was answered for that its upload failed,
  that the server has it, or that its upload is among those that every record naming it waits for.
- `CleanEndIsTrue`: `Spec => []NothingDropped`. What a wrapper was told is stored is under way,
  settled or lost with the process (`StoredSettled`).
- `RelayTypeCorrect`: `Spec => []RelayTypeOK`. The counters are the size of the set of spooled
  files (`SpoolCounts`); with a counter alone one could not say that a subtraction stays above zero.

They assume that the limits are natural, that at least one put may be under way, and that `None`
is not a state of a blob.

`StoreGcProofs`

- `PlanFreesExactly`: for every snapshot, the units and blobs a plan takes: every obsolete
  candidate goes, and a blob is planned for deletion once, exactly when all its referrers go.
- `PlanEvictsOldestFirst`: without a budget for executables, whatever a plan keeps is ordered
  after everything it evicts.
- `StoreTypes`: `Spec => []StoreTypeOK`.
- `NamesBindOnce`: `Spec => PublishedOnce`.
- `UsedStays`: `Spec => EvictsOnlyUnused`. A collection knows the uses of every journal line it
  has looked at (`JournalInv`): it needs no more than that.
- `CandidatesKeepTheirBlobs`: `Spec => []NoDanglingCandidate`, without a bound on publishers,
  stores, faults or time.

The first two are about operators. `EvictionOrder` is shown to sort (`OrderSorts`): a unit's
place is the number of units before it, and in a finite total order these numbers are a
bijection (`Ranks`). What `Pass` and `Retained` compute is followed over their recursion with
an induction on a set of naturals (`Induction`, from the well-foundedness of `<`), which stands in
for the library's theorem on predicates. Of a plan's byte counts nothing is proved: a sum over
a set is a fold that the prover cannot unfold.

A collection decides on what it read without a lock, hence the invariant of the last theorem says
of every candidate in an index why its blobs stay, at each position of the collection.
Before planning, a candidate of an index already read is in the snapshot with its listed blobs, or
is `Pending`: a line for it is in the journal behind what was looked at, or its publisher
still holds the lock with the line to write (`SnapshotInv`). After planning, a doomed blob
of a candidate is known to be used, or its candidate goes with an index not visited yet, or
the next look at the journal will find the line (`DoomedInv`, `Covered`). The
blob about to be removed is nobody's (`RemovingInv`), and a candidate's blobs are on disk
(`Whole`), but for those that went bad and were removed to be replaced. The theorem says no more
of them than the code does: between the removal and the rename, and for good if the rename fails
or the server ends there, the file is not there; it was of no use to a reader before. `JournalInv` adds that a publisher opens the journal for its own key's line and under the
lock. All this is claimed as long as no journal line was lost (`begun.unlogged = 0`), as in the
property itself; the hazard at `lib.rs:911` says what happens otherwise.

They assume natural bounds, well-formed requests, that records and blobs are files of different
directories (`DistinctAssumption`) and what journal lines look like (`LogsAssumption`).

Only model-checked, and why:

- liveness (`Served`, `StopsJob`, `NobodyWaits`, `Finishes`): fairness and `ENABLED` are
  outside the prover;
- the byte counts in `PlanIsExact` and what `PathNormalizer` computes (`PathsTravel`): they rest
  on sums over sets and on a recursive operator;
- `AffectedExact`, which compares the worklist with the library's transitive closure; what
  the worklist computes is `AffectedIsLeast`;
- `KeySound`, `KeyShared` and `LinkSound` compare two invocations or links of a small domain, which
  the run enumerates;
- `ClientTypeOK`, which is about the combination of components made for a run.

## Not modelled

Argument parsing, authorization, printing, reports, explanations and statistics; the
text of invocations, response files, linker command lines of each flavor, build-script
directives and dependency files; the scan of outputs for paths (`leak.rs`), of which
only the result is modelled; the sandbox of declared executions, which is taken to give
the command the collected bytes; companion files; temporary and quarantined files;
process group reuse and the fork window of `PR_SET_PDEATHSIG`; differing clocks. The
relay's use marks carry no order and change nothing the properties speak of. Scripts,
demo and action are packaging.

## Plan

1. Prove next: the refinement of an abstract store by `StoreGc`, for which `NoDanglingCandidate`
   is the invariant.
2. Model next: the L1 store with a local collection as a second instance of `StoreGc`;
   `SingleFlight` through `Relay`, where the release is deferred behind the record; the
   abstract specification "a cache that forgets" for `StoreGc` and `Relay`.
