# A TLA+ verification of zmem-cache

zmem-cache keeps structured memory that is written in Git commit messages. One
service process (`zmem-svc`) reads the histories of registered repositories, runs
extension hosts over the annotations it finds, and publishes the results as
immutable *trails* in one SQLite database. Clients send one request per
connection. This directory holds TLA+ models of the parts of the service whose
correctness depends on the order of things, TLC configurations that check them on
small instances, and TLAPS proofs of the invariants that matter most.

Source names below are relative to `src/`. `main.rs` and `svc lib.rs` are in
`crates/zmem-svc/src`, `store lib.rs` in `crates/zmem-store/src`, `core lib.rs` in
`crates/zmem-core/src`.

## 1. The system

| component | state | operations | interacts with |
|---|---|---|---|
| Indexing-job coordinator (`main.rs` `JobCoordinator`) | `jobs`, `by_id`, `ready` under one mutex; the atomic `demand_jobs`; the durable `index_jobs` table | `admit`, `retry`, `status`, the worker loop with `refine_identity`, recovery in `new` | request threads call it; it calls the writer and waits; the worker runs the synchronization |
| Publication writer (`svc lib.rs` `PublicationWriter`) | a channel of 8 commands, one answer slot per waiting caller | publish, finalize, canonical and advisory mutations; refusal when full; callers that give up | the only writer of the database while the service runs |
| Service threads (`main.rs` `serve`) | gauges of connections and lanes, three channels, execution threads, the stop flag, a condition variable | accept, frame, share history, send, execute, stop and join | owns all other threads |
| Trail store and retention (`store lib.rs`, `finalize_store`) | trails, memberships, shared commit facts, aliases, relationships and diagnostics | `publish_trail`, `set_ref_alias`, `evict_trails`, `evict` | synchronizations write through the writer and read beside it |
| Published snapshot lookup | none of its own | validate identity, one read transaction, admit on a miss | coordinator, host permits, store |
| Background prefetch (`PrefetchCoordinator`, `PrefetchSession`, staging tables) | queue of heads, sessions, checkpoints, pins, staged facts and their bytes | admit, open or resume, advance one batch, pause, reclaim and evict, reconcile | writer, demand tracker, `demand_jobs`, retained trails |
| Demand tracker (`core`, `svc` and `store` `demand.rs`) | routes with observations, uses of trails, one advisory slot | record, expire, target, offer, write, reload | query path, prefetch, writer |
| Extension hosts and permits (`svc lib.rs` `HostPermit`) | permits in use, waiting lookups | acquire with a reserve for lookups, run, kill at the deadline | synchronization, checks, lookups |
| Start-up lock and owner (`svc lib.rs` `StartupLock`, `ServiceOwner`; `main.rs` `ensure_service`) | two lock files and the state file | acquire, replace a stale lock, spawn, publish the state, remove it | clients that start the service, status commands that probe it |
| Attention (`core lib.rs`) | none | newest-first selection under two limits | synchronization |
| Effects and metadata (`store lib.rs`, DECAY/CANCEL/META) | rows of one trail | apply in order, resolve conflicts by ancestry | `publish_trail` |
| Fast and deep check | a rolled-back transaction or a temporary store | preview | lanes, synchronization |
| Schema migration, Git access, command-line client, scripts | – | – | not stateful while the service runs |

### What is hard in it

* **Three copies of a job.** A job is in the memory of the coordinator, perhaps in
  commands still on their way to the writer, and in a row of `index_jobs`. A caller
  that gives up at its deadline leaves its command with the writer. A crash may fall
  between any two steps. Correct means: what a crash finds is what recovery
  promises (a failed job, no lost job, no job passed off as published), and hooks
  never run twice without an explicit retry.
* **A mutex held across waiting.** `admit`, `retry` and `refine_identity` hold the
  queue mutex while the writer works. Correct means: it comes back on every answer,
  and queued jobs start.
* **Gauges on many paths.** A connection takes up to three slots on two threads and
  has a dozen ways to end. Correct means: every slot comes back exactly once, and a
  request let in by one gauge is not refused by the next.
* **An order of stopping.** Connections drain, execution threads, the indexing
  worker, the prefetch thread and the writer end, in that order, while requests are
  queued and the worker may be falling asleep.
* **Shared facts.** Trails overlap in commits. Publication, eviction of trails and
  eviction of commits are transactions of their own, with readers and crashes in
  between. Correct means: a retained trail stays whole, aliases stay, eviction takes
  what the policy says and no more, and the report of it is true.
* **Staging under a quota.** Prefetch works in turns of one batch, over several heads,
  while lookups renew their demand, trails come and go, other batches bound its pins
  and a stop or an error may end it anywhere. Correct means: the queue is exact and
  fair, retained facts survive every reclamation, and prefetching keeps its quota.
* **A memory that must not count twice.** Demand is observed in memory, batched into one
  slot, written when the writer is idle and read back by the next process under
  another clock.
* **Locks by name.** The start-up lock is a file that anyone may take for stale and
  remove; the owner lock is an OS lock that status commands take too. Correct means:
  one daemon, and its record in the state file, whoever dies.
* **Order of replay.** Histories are walked in any topological order, cut by two limits,
  and replayed with conflicts resolved by ancestry among what has been replayed so
  far. Correct means: the result agrees with the whole history.

`PROJECT.json` lists each hazard at its line with the properties that watch it.

## 2. Modules and code

### `IndexJobs` and `JobLedger`: coordinator, writer, `index_jobs`

One variable per piece of state of `JobQueue` (`jobs`, `byId`, `ready`), the counter
`demandJobs`, the operation that holds the mutex (`mutex`: its kind, key and id are
the local variables it keeps while waiting), the worker's program counter, the
writer's channel (`commands`), the answer slots (`reply`) and the table (`index`).
`poisoned` says that a thread panicked with the mutex. `uncertain` is the one history
variable: keys whose hooks ran to an unknown or failed end and which nobody has
retried.

The steps follow the points where the code gives up the processor or the mutex:
`BeginAdmit` / `StaleRemoved` / `CheckCapacity` / `VictimRemoved` / `Inserted` are
`admit` between its writes; `BeginRetry` / `Retried` are `retry`; `TakeJob`,
`PersistRunning`, `StartSync` or `RefuseSync`, `SyncSucceeds` or `SyncFails`,
`LeaveKey`, `BeginRefine`, `Refined`, `PersistOutcome`, `FinishJob` are one turn of the
worker. `WriterApply` runs one command against the two uniqueness constraints;
`WriterReject` fails it; `Timeout` leaves it with nobody waiting. `Restart` is a
crash or a stop at any moment followed by `recover_index_jobs`.

`JobLedger` is the abstract specification: what a client that holds the id of a job may
see `status` answer over time. It has two variables, the state of each id and the ids
that are *lost*, and an action for each thing that may happen to a job (admit, start,
end, retry, forget, an eviction that begins and one that is finished, crash). The
refinement mapping reads an id as `status` does, in `by_id` and then in `jobs`
(`StateOf`), whatever id the job that it finds there has. An id is lost (`Lost`) while
`by_id` has it and the job under that key is not its own: from the removal of an
eviction's victim to the answer about its row, and after an error until the process
ends. If the removal was applied late, the key may be admitted again, and `status` of
the old id then answers with the new job: the ledger lets a lost id `Drift` so, but
never lets it show work that no other id shows (`Borrowed`) nor come back to work of
its own before a restart. Of all other ids it promises the whole life of a job.
The mapping follows memory only; what the table holds shows after a crash, and that
the ledger's `Crash` is as strict as it is, is one more reason to check the refinement.

Abstracted: what a key contains (a key may have a *refinement*, the same key with a
validated generation), what a synchronization does, other users of the writer (they
only make it refuse or late). Nothing sets the `obsolete` state in this code.

### `ServiceLifecycle`: the threads of `serve`

`conn` says what each connection is doing and with which kind of request; `active`,
`admitted` and `executing` are the three gauges; `queue` and `threads` the lanes;
`serve`, `indexer`, `background`, `writer` the long-lived threads. The indexing worker
has three positions around its condition variable: `locking`, `deciding` (it holds
the mutex and has read the flag and the queue) and `waiting`. The stop stores the
flag and later notifies *without* the mutex, so both may fall into `deciding`;
requests that admit a job take the mutex and cannot. A wake-up without reason is an
action without fairness.

Abstracted: the contents of requests; a job is one state. Panics of threads are not
modelled.

### `TrailCache`: publication, retention, reading

`trails`, `member`, `alias`, `commits`, `rows` are the tables; `rows[t][c]` counts the
equal relationship and diagnostic rows of a commit in a trail. `sync` is one
synchronization each: look up the trail, publish it if it was absent (two may find
the same trail absent; the primary key refuses the second), finalize, read entries,
read relationships, respond. `finalize_store` is three transactions on the writer
(`WriterAliases`, `WriterEvictsTrails`, `WriterEvictsCommits`), any of which may fail
and leave the earlier ones. `clock` is read when finalization is submitted and used
when the writer gets to it. Selection of victims follows the SQL order: source time,
then identifier.

Abstracted: `trail_membership` and `trail_entry_state` of a trail are one set of
commits (they are inserted and deleted together); entries are counted, not described;
repositories are not told apart (there is one).

### `Prefetch`: coordinator, sessions, staging

`jobs` is `prefetch_jobs` (state, completed count and checkpoint of a head), `rows`,
`created` and `demanded` are the orders that its statements sort by, `raw` and `usage`
the facts and which of them prefetching produced; `known`, `ready` and `sessions` are
the memory of the coordinator; `worker` is its thread. `Poll` is a round of the loop
(ask for targets, admit, take a head). `Open` starts a session or takes it up:
`Resumed` is `start_target` with its confirmation of the checkpoint and its first gap.
`Shutdown`, `Unjustified`, `Satisfied`, `Covered` and `Collect` are the ways through
`advance`; `Reclaim`, `Evict`, `OverQuota` and `Stage` are the transactions of
`record_prefetch_batch`; `Fails` is an error anywhere. `SetState` and `Bounded` are
`set_prefetch_state` and `bound_prefetch_pins` with what they delete. Trails that the
foreground publishes, uses and evicts are actions of their own.

Abstracted: a fact and its parent edges are one unit of bytes; the waits of a batch for
a busy foreground only delay it; index jobs of the repository, which stop reclamation,
are a free choice of each transaction; `now` is the order of creation and use.

### `Demand`: tracker, advisory slot, table

`routes`, `credited`, `uses` and `bytes` are the tracker, `ident` and `room` what else a
route's size depends on (the length of its oid and generation, the capacity of its
`Vec` of observations), `slot` and `locked` the one
advisory slot and the writer's hold on it, `disk` the table. `RouteSize` is `size`. A
clone has no room to spare, a push into a full `Vec` doubles it (`Pushed`), and rows are
deserialized sample by sample (`Deserialized`): so a tracked route grows, shrinks, or is
refused with its use at the bound, and a route that fitted in one life may not fit when
the next one loads it (`Fitting`). `Record` is one lookup with its two
bounds and its early returns; `Poll` is `targets` with expiry and the offer of a batch;
`WriteBegins` / `WriteEnds` / `WriteFails` are the idle writer; `Restart` reads the table
back at *any* clock. `Expire`, `Observe` and `Target` are `RouteDemand`. `asked` and
`served` are history: what lookups really came and which uses the tracker took.

Abstracted: names and identifiers are their lengths (`RouteBytes`, `UseBytes`). The byte
limits of `persist_advisory` and `load_route_demand` are left out, since they never
bind: the payload of a row is shorter than the route's size, and the sizes of a batch
fit in the half.

### `Startup`: clients, locks, daemons

`at` and `phase` are a client in `ensure_service` (three calls of `healthy_state`, each a
read and a ping), `lock` the start-up lock file (who wrote it, whether it has grown old),
`owner` the OS lock, `state` the state file, `daemon` the processes. Inspection and
removal of a stale lock are two steps, and so are the comparison and removal of the
state file. A removal may fail, which the code ignores (`KeepStale`, and `Unlock` that
leaves the file). Clients and daemons die anywhere.

### `Projection`: selection and replay

Selection (`walk_newest` and `select_attention`) and the replay of `replace_projection`
over one history: `Walk` takes any order that `--topo-order` allows and asks for one
commit more than its limit; `Select` cuts by nodes; `Replay` inserts a commit and
performs its journal (`evaluate_update`): entries, DECAY, CANCEL, META with ranges and
conflicts, with the answers of `ReachabilityCache` kept. The properties compare with
reference definitions over the whole history (`Effective`, `Between`, `Ancestors`), which are those of
`resolve_metadata_assignments` and `resolve_meta_range` in `core lib.rs`.

Abstracted: an abbreviated name is the set of commits it may stand for; a commit has at
most one entry; a score is the number of its decays. A patch of several operations is
one action for each of them. A journal may assign a key twice: `Values` is what its last
assignment says.

### Proof modules and instances

`IndexJobsProofs`, `ServiceLifecycleProofs`, `StartupProofs`, `TrailCacheProofs`,
`PrefetchProofs`, `DemandProofs` and `ProjectionProofs` extend the models with lemmas and
theorems. `Lemmas` has what several of them need of numbers, finite sets, recursive
functions and sequences without repetitions. The `MC` modules give constants their values. Operators commented *Faulty variant* are
plausible bugs in one definition; for each property there is one that makes TLC find
it violated.

## 3. Runs

| run | shows | instance |
|---|---|---|
| `index_jobs` | types, exact ready queue, exact `demand_jobs`, every id leads to its job, `CrashLeavesFailed`, and that `JobLedger` is implemented (`LedgerKept`) | 3 keys (a key with its refinement and another one), 3 ids, ready 2, memory 2, channel 2; every wait may expire |
| `index_jobs_fair` | queued jobs start, running jobs end, the mutex is given back; and `NoImplicitReplay`: hooks that failed or were cut short run again only after a retry, also across restarts | 3 keys, 2 ids, ready 1, memory 1, fair; the worker's own waits do not expire |
| `index_jobs_panic` | **violated** `JobOfId` | see findings |
| `service_lifecycle` | gauges exact, admitted work fits its threads, nothing stranded, the writer outlives its users | 4 clients, 3 slots, one job |
| `service_liveness` | requests end, jobs start, a stop drains everything up to the join of the worker | 2 clients, fair |
| `service_stop_hang` | **violated** `StopEnds` | see findings |
| `trail_cache` | retained trails whole, aliases and recent data kept, eviction minimal and oldest first, report exact | 2 synchronizations, 3 overlapping trails over 3 commits, capacity 2 |
| `trail_response` | **violated** `ResponseComplete` | see findings |
| `prefetch` | queue and pins exact, retained facts kept, the quota passed only by the eviction of a trail, every queued head gets its turn, a stop ends the worker | 2 heads with a common history, 1 trail, batches of 1, quota 1, one pin, one record, fair |
| `demand` | targets justified by distinct lookups, byte counter exact, taken uses durable | 2 routes, 1 trail, clock to 3, restarts under any clock, fair |
| `startup` | one daemon, the state file is that of the serving one, every client ends unless it finds a stale lock for ever that it cannot remove | 2 clients, a probing command, 2 daemons, deaths and stale locks, fair |
| `projection` | conflicts, ranges, cached ancestry, effects and the mark of truncation agree with the whole history | 5 commits in two shapes, 1 x 5 x 4 x 5 x 5 journals, three policies |

### Bounds and why they are enough

* `Ids` (3): the number of job ids alive at once. Ids are random and a fresh one is
  any id that no table, command or thread mentions; three are needed for a job
  in memory, an orphan row and an insert on its way. They are symmetric.
* `ReadyCap`, `JobCap`, `WriterCap` (32, 256 and 8 in the code): at 1 or 2 every
  refusal and eviction happens, with room for two commands to be applied in an order
  nobody waits for.
* Three keys: refinement needs two, eviction for another key a third. The fair run has
  two ids and capacities of one, since it is checked without symmetry.
* `WorkerTimesOut = FALSE` in the fair run: the worker's own waits for the writer
  have the default 120 s, while the writer interrupts each command at the deadline of
  *its* request and seven others at most are ahead of it. With `TRUE`, a change of key
  that the worker gave up on may be applied late; the row then has the refined key
  while memory has the original one, and after a later failure and a crash recovery
  keeps the failed record under the refined key, so that an admission of the original
  key runs hooks again. TLC finds this. The run `index_jobs` keeps `TRUE`: its
  properties hold either way.
* Four connections against three slots: the accept loop refuses one while all
  lanes are occupied. The liveness instance has two, since it is checked without
  symmetry.
* Three trails: two overlap in a commit, one is newer; capacity 2 forces eviction in
  every finalization that is not protected. `MaxClock` 1 separates recent from old.
  `MaxRows` bounds the count of equal rows.
* Two heads, two commits: one head's history contains the other's, so that a fact is
  pinned by one and staged by the other, and is in the trail of the foreground. At
  quota 1 every second batch must evict; one pin and one record make each bound bind.
  `TryCap` 2 cuts the eviction loop short. `QueueCap` 2 does not bind with two heads: `Admitted`
  is the same set for any larger one.
* `MaxTime` 3 with an interval of 1 and an expiry of 2: an observation is fresh, stale or
  from the future after a restart. A new route weighs 3, its clone 2, and 3 again after a
  push; one lookup comes with a longer oid. In `HalfBytes` 5 both routes fit only after one of
  them was cloned, a tracked route is refused for a sample as well as for its oid, a use is
  refused beside an accepted route, and the two rows that one life wrote do not both fit
  into the next.
* Two clients and two daemons: both may hold the start-up lock at once, and the second
  daemon may start while the first one ends.
* Five commits: a merge whose sides have one and two commits of their own, or one that
  lies below the newest commit. Each commit takes its journal from a menu that names
  the other commits without doubt, ambiguously, or not in its history. Policies with a limit
  of 4 and of exactly 5 commits separate a cut history from one that just fits.
* Two synchronizations are symmetric, and so are connections and job keys in the
  lifecycle. No liveness property is checked with a symmetry: the runs with fairness
  use none; the action properties checked with one are symmetric themselves.

### Fairness

The threads of the service run unless they wait: each has weak fairness for its steps.
Strong fairness is used where the code relies on a turn it will get among others:

* `IndexJobs`: the indexing worker's steps that take the queue mutex. Requests may take
  it again and again.
* `Demand`: polls that find the slot not held by the writer, and a write that ends. The
  worker polls in a loop and a failed write is retried every 25 ms; a database locked
  for ever is excluded.
* `Startup`: the expiry of a client's own deadline. A client that reads and pings in turns
  is never *continuously* able to expire.

Arrivals (`BeginAdmit`, `BeginRetry`, `Accept`, `Record`), crashes, timeouts, stops,
trails that come and go and spurious wake-ups have none. `Prefetch` has weak fairness
of the worker's steps *or* their failure: no success is assumed, and `TurnsCome` holds
although every turn may fail. In `ServiceLifecycle` a connection needs no strong
fairness since its deadline is another way on. A synchronization that never ends is
excluded by the deadlines of Git processes and hosts.

`CHECK_DEADLOCK FALSE` is set where the system really stops in the end: the service after
a stop, clients that are done, a clock that is used up, a replay that is finished.

## 4. What is proved

All for every value of the constants that satisfies the assumptions of the module: caps
are positive numbers, marks such as `NoKey` are no members, and connections, commits and
heads are finitely many.

**IndexJobs.** `InductiveInvariant`: `Spec => []IInv`, and from it `TypeCorrect`,
`ReadyQueueCorrect` and `CrashSafe`. `CrashLeavesFailed` alone is not
inductive: a command of a caller that gave up may still be applied. `IInv` adds
 * `JobShape`: a job has an id of its own;
 * `WorkerJob`: the job the worker took stays where it expects it, although the mutex is
   released in between;
 * `HolderJob`: what `admit`, `retry` or `refine_identity` found under the mutex is still
   so when the answer comes;
 * `Harmless`: no command on its way removes the row of an unfinished job or marks it
   ready. This is the heart of it: the argument goes command by command, whoever waits;
 * `InsertDurable`: an insert answered with success is in the table until memory has it.

The proof has one lemma per action, on top of lemmas about commands (kept, taken,
submitted, disowned) and about the ready queue (appended, taken). `DemandCountCorrect`
adds a counting argument: the set of unfinished keys is finite, and each action changes
it by the one key that it adds to or takes from `demand_jobs`.

`LedgerImplemented` proves the refinement `Spec => LedgerKept`, each step of `IndexJobs` a
step of `JobLedger` or a stutter. It needs a second invariant, `LedgerInvariant`: only
the worker's job runs (so that the ledger's `Start` has its guard), `by_id` leads the id of
every job in memory to its key (`JobFoundById`, the theorem `IdsFound`; so a step of a job
shows under its own id and otherwise under lost ones only), an id that is being inserted
is not in `by_id`, the row of a job that
just succeeded is in the table, and rows and commands agree on keys, so that recovery
gives every id back the state that the ledger's crash allows.

`NoReplay` proves `NoImplicitReplay`, through any number of crashes and lives of the process,
for a worker whose own waits do not expire (the assumption `WorkerTimesOut = FALSE` of the
fair run: after an expired refinement a late command may change the key of a row that
memory has under the old one). Its invariant `ReplayInv` follows a key from memory to the
table and back:
 * `CommandsOwn`: a command that changes a key is the one the refining worker waits for,
   and an admission's insert has the key of the admission;
 * `RowsKeyed`: the row of an unfinished or failed job has the key memory has it under,
   except in the step between the writer's answer and the worker that reads it;
 * `UncertainFails`: a key whose hooks ran to an unknown or failed end has a failed job, or is
   the worker's and about to have one. A restart keeps this because the row is there
   (`CrashLeavesFailed`), under that key, and no other row has the key (`LedgerInv`).

**ServiceLifecycle.** `InductiveInvariant` and from it `GaugesCorrect`, `AdmittedFits`,
`NobodyStranded` and `WriterIsLast`: all four safety properties of the run. One connection
changes in a step, so one lemma says what it does to the cardinality of each set of
connections (`LaneCount`), and each action owes only its own difference. `ExecutionFits`
needs that a lane never has more busy requests than threads, and `NothingStranded` that
the channels hold waiting requests only, each once; the gauge then turns `active = 0`
into "no connection is open".

**TrailCache.** `InductiveInvariant`, `TypeCorrect`, `RetainedTrailsComplete`, and the
action properties `AliasesAreKept`, `RecentIsKept`, `EvictionIsMinimal` and
`ReportIsExact`: all five properties of the run. The invariant is split in two halves that
do not disturb each other: the store (`ForeignKeys`, `RetainedComplete`) and the control
(`OneCommandEach`: an answer goes to the synchronization that asked). Retention is the
only threat to `RetainedComplete`, and `Cohorts`, which excludes every commit of a
retained trail, is what defeats it. `RecentIsKept` adds `Past`, that no clock a command
carries is ahead of the clock. The other two are about sums over sets: a fold over a set is shown to be
any recursion that takes one element at a time (`AnyFirst`), to grow with its set and to
be the sum of two halves; the victims are then the shortest run of the oldest whose sum
covers the excess.

**Startup.** `OnlyOneDaemon` and `RecordOfServing`. The proof uses nothing about the
start-up lock: it is the owner lock, taken first of all in `serve` and held to the last
step, that keeps both, however many clients believe to hold the other one.

**Prefetch.** `RetainedFactsKept`, `QuotaKept` (an action property), `ActiveRowsBounded`
and `QueueIsExact`: all four safety properties of the run. Every step either
*spares* (adds no fact and takes none that a trail retains), stages a batch that fits,
or is the foreground's own. `IInv` is the conjunction of four parts, each with its own
lemma for each action: where the worker is, the facts, the rows and the queue. The rows
need a count: of `n` rows too many the `n` oldest become obsolete, whichever those are.
The queue needs that it repeats nothing and that the head of the turn is not in it.

**Demand.** `TargetsAreJustified` and `BytesAreExact`. `EvidenceInv` follows an observation
from the lookup through the tracker, the slot and the table into a later life: in all
three places the observations of a route are at least a sampling interval apart, and
each stands for a lookup that came, which is why two that are deep enough are two
lookups. The clock may go back between two lives; what keeps the order is that expiry
drops observations from the future and compares each one with the last it kept.
`CountInv` says that the byte counter is the sum of the sizes of what is tracked, also when an
expired route leaves, that a credited route has an observation, and that observations
are no more than their capacity. The latter is why a batch, a copy without spare room,
is within the half when the tracker is. Sizes change with almost every record, so the
proof compares sums of two different functions: over a set on which they agree
(`SameSum`), over a smaller set with smaller values (`SmallerSum`), and over a set in which
one route is new or has another size (`RouteRecorded`).

**Projection.** `TruncationIsTold`, `CachedAnswersAreTrue`, `EffectsReachTheirTargets`,
`FrontierIsKept`, `NoConflictIsLost` and `ADescendantResolves`: all six properties of the
run, for every finite history, every journal, both limits and every order of the walk.
 * `Reach` stops after as many steps as there are commits: as long as a step finds
   something new, at least as many commits are known as steps were taken. So it is the
   least set that is closed under parents (`ReachFacts`).
 * An order in which no parent comes before all its children has no ancestor before a
   descendant, and reversed and cut it keeps this (`WalkSelects`, `SelectReplays`). A
   commit is therefore replayed after all its ancestors that are replayed at all, and
   no earlier commit descends from it (`ReplayOrder`).
 * Patches ask for ancestry only when nothing was truncated. The replayed commits then lack no parent,
   and what can be reached among them is what can be reached in the whole history
   (`ReachInWhole`): an answer that is kept stays true.
 * `StepInv` is the invariant of the loop over one journal: `EntriesAfter` and `MetaAfter`
   compare the tables after `n` actions with those the commit found. An
   assignment is described by its rows alone, so that a second one by the same
   commit undoes the first (`AssignTwice`).
 * `MetaInv` is the invariant from commit to commit, for each commit and key: the rows
   are assignments of replayed commits, each replayed assignment has its own row or one of a
   descendant, there is a conflict exactly when the rows have two values, and a source that
   descends from all others is the only one left. The last part is
   what makes `DescendantResolves` inductive: a new commit is no ancestor of a replayed one, so it
   resolves what it descends from or is not the resolver.

**How recursion is treated.** No theorem with an operator parameter can be instantiated, so
inductions go through the least counterexample (`LeastNumber`, `UpTo`), and a recursive
function is used after it is shown that a function with its equation exists
(`Recursion`, `SpreadExists`, `JournalPerformed`).

**Only model-checked.** All liveness (`QueuedJobsStart`, `RunningJobsEnd`, `MutexReleased`,
`RequestsEnd`, `JobsStart`, `StopDrains`, `UsesDurable`, `ClientsEnd`, `TurnsCome` and the
`StopEnds` of `Prefetch`): the prover has no fairness and no `ENABLED`. Every safety property
that a passing run checks is also proved.

## 5. Findings

1. *An eviction that fails breaks `retry`* (`index_jobs_panic`, `main.rs:1151`). `admit` takes
   the victim out of `jobs` before its row is removed and returns the error of that
   write, so `by_id` names a job that is gone; a retry of that id fails
   `expect("indexed job exists")` with the mutex held and poisons it. Until a restart
   `status` of that id has no answer, or, once the key is admitted again after a removal
   that was applied late, that of the new job (all of it, with its new id); if that one
   failed, a `retry` of the old id queues it, but writes the state of the old row, which is
   gone. `JobLedger` calls such an id lost.
2. *A stop can lose its wake-up* (`service_stop_hang`, `main.rs:2014`). The flag is set and the
   condition variable notified without the mutex, so a worker between its look at the
   flag and its wait sleeps for ever and `serve` never ends.
3. *A response may miss its entries* (`trail_response`, `svc lib.rs:2636`). Another finalization
   may evict the trail between the transactions of one response.

Met while modelling, and part of the models, but no document says otherwise:

* A query that gives up on its insert leaves the command (`svc lib.rs:812`): the row is then
  in the table and not in memory, and admissions of that key meet the uniqueness
  constraint until a restart. `JobLedger` allows it: such a job may be back after a crash.
* Relationships and diagnostics of an evicted trail stay while its commits do; publishing
  it again doubles them (`store lib.rs:1320`, `store lib.rs:1935`).
* Trails and orphaned commits are held to `max_entries` each, not together (`svc lib.rs:531`).
* A conflict may outlive its resolution: an assignment that descends from only some of the
  kept ones replaces none of them (`store lib.rs:531`), so `NoFalseResolution` has no
  converse beyond `DescendantResolves`.
* A start-up lock is stale by its age alone, whoever holds it, and its removal goes by name
  (`svc lib.rs:163`); a status command that probes the owner lock can make a starting daemon's
  `try_lock` fail (`svc lib.rs:106`). `OneDaemon` and `ClientsEnd` hold nevertheless.
* A stale start-up lock that cannot be removed keeps a client for ever (`svc lib.rs:164`): the
  failed removal is ignored and `continue` goes round the deadline check and the sleep. It is
  the exception in `ClientsEnd`, and at odds with
  `openspec/specs/service-lifecycle/spec.md:87`: "One monotonic budget SHALL cover
  discovery/startup, connection, queueing, execution, and response delivery without being
  reset by retries or phases."
* A tracked route whose size would exceed the bound is refused like a new one, and with it the
  use of the trail (`svc demand.rs:92`). `UsesDurable` speaks of the uses that were taken.
* A prefetch row left `running` by an error or a crash is no victim of the LRU eviction
  (`store demand.rs:12`), and rows that `bound_prefetch_pins` or the eviction ends escape the cap on
  finished rows until the next one that ends by itself (`store lib.rs:1578`).

## 6. Not modelled, and why

* Panics of execution threads, and what they poison: `ServiceLifecycle` assumes threads
  end only by leaving their loop. `IndexJobs` has the one panic the coordinator's own
  assertions can raise.
* `job-status` and `pending_before_identity`, which only read; the query path reads one
  published snapshot after validating an identity. What it starts (a job, a use, an
  observation) is in `IndexJobs`, `ServiceLifecycle` and `Demand`.
* `RegisterRepository` and `RecordInspections`: idempotent upserts through the writer.
* Host permits: one count under one mutex with waits under a deadline; the hosts are
  child processes whose outcomes are inputs of the other models.
* Fast and deep check, in a temporary store or a transaction that is rolled back.
* Migration, Git processes, the client's parsing and printing, release scripts.

## 7. Plan

| step | module | what |
|---|---|---|
| done | `IndexJobs`, `JobLedger` | model, refinement, proofs |
| done | `ServiceLifecycle` | model, proofs of all safety properties |
| done | `TrailCache` | model, proofs of all properties |
| done | `Prefetch`, `Startup`, `Demand` | models, proofs of all safety properties |
| done | `Projection` | model, proofs of all properties |
| 1 | `HostPermits` | permits never over the limit, one left for lookups |
| 2 | composition | `Prefetch` with `TrailCache`'s retention in one module, to replace its free trails |
