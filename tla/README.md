# honker: specifications, checks and proofs

honker is a queue, scheduler, stream and notification library that lives inside
a SQLite file. Its core is Rust (`src/honker-core`), exposed as SQL functions;
every language binding calls those functions and adds loops around them. This
directory holds TLA+ modules of the parts whose correctness depends on the order
in which processes, threads, failures and the clock move, TLC configurations that
check them on small instances, and TLAPS proofs of the main safety properties for
instances of any size.

## The system and its modules

Parts meet in three places. Everything writes the same database, one writer at a
time, so a statement or a savepoint is one step. Every commit is noticed by the
update watcher, which turns it into wakes. Consumers, listeners, stream
subscriptions and the scheduler are loops over operations that sleep until a wake
or a deadline.

| Part | Code | Modules |
|---|---|---|
| Job queue | `honker_ops.rs` | `Queue`, `JobLifecycle` (abstract), `MCQueue` (symmetry) |
| Blocking consumers | `ClaimWaker` of `honker-rs`, `_WorkerQueueIter` of Python | `ClaimLoop` (composes `Queue`) |
| Writer slot, reader pool | `Writer`, `Readers` of `lib.rs` | `Calls`, `Writer`, `Readers` |
| Database objects | `Database`, `Transaction` of the Python and Node bindings | `Database` (composes the two) |
| Update watcher | `SharedUpdateWatcher`, `run_poll_loop`, `kernel_watcher.rs`, `shm_watcher.rs` | `Fanout`; `PollWatcher`, `KernelWatcher`, `ShmWatcher`; `Watchers` (composes them) |
| Its clients | `UpdateEvents` of Python and Node, handles of `honker-extension` | `Clients`; `Bindings` (with `Database`) |
| Locks, scheduler, leader election | `honker_ops.rs`, `Scheduler::run` and `Lock` of `honker-rs` | `Locks`, `Scheduler` (composes them) |
| Cron | `cron.rs` | `Cron`, `MCCron` (a small calendar); `MCScheduler` (checks `Scheduler` and `Cron` side by side) |
| Streams, notifications, rate limits, results | `honker_ops.rs`, iterators of `honker-rs` | `Updates` (what the iterators share), `Streams`, `Notifications`, `RateLimits`, `Results`; `Tables` |
| Savepoints, bootstrap, migration | `in_savepoint`, `bootstrap_honker_schema`, `migrate_claim_v2` | `Savepoint`, `Bootstrap` (composes them) |

Actions have the names of the functions they model. `PROJECT.json` maps every
definition to its lines.

* `Queue`: `live` and `dead` are the tables, `now` is `unixepoch()`, `next_id` the
  AUTOINCREMENT counter; `claims` and `settled` are histories that say which
  handlers exist. `claim_batch` is the whole savepoint (promote, expire, sweep,
  claim). `retry` runs several statements outside a savepoint, so it is
  `retry_requeue`, or `retry_miss`, `retry_exhausted`, `retry_dead`, with everyone
  free to act in between. A claim is never forgotten: any handler may call
  anything for it, any number of times, at any later time, which covers late,
  duplicated and missing calls and crashed workers. An operation that reads the
  clock before it holds the write lock may find that it has moved on by one of
  `Lags`.
* `JobLifecycle`: a job waits, runs, is put back and leaves once; its tokens are
  1, 2, ... up to its budget. `Queue` implements it under the mapping `Lifecycle`.
* `ClaimLoop`: one blocking consumer and the watcher's promise (a commit is
  noticed some time later; the channel holds one tick). `idle_poll` distinguishes
  `_WorkerQueueIter` from `ClaimWaker::next`.
* `Writer`, `Readers`, `Database`: a step is what runs under a mutex, or one access
  to a flag outside it. `txn` says that a transaction is open on the write
  connection; BEGIN, COMMIT and statements may fail.
* `Fanout` has the thread, the senders and the subscribers. All that matters of
  the commits is what a subscriber has not read: nothing, only commits the backend
  was blind to, or one it could detect (`behind`), so their number is unbounded.
  The backends say when they are blind: no connection (`PollWatcher`), a log that
  is not watched (`KernelWatcher`), a `-shm` file that is not the named one
  (`ShmWatcher`). kqueue's `attach_path` is two steps, `open_event_fd` and `EV_ADD`:
  a log deleted between them leaves a watch that is dead for good, since its path
  is skipped from then on. The shm loop reads the header, wakes, and only then
  comes to the checks of the file ids; a read that fails skips them. The registry
  has one descriptor per inode: a second one, which `acquire_shm_fd` puts in
  `extra` when it loses a race, is read by nobody and closed as the first is.
* `Clients`: one subscription and one kind of client, against the promise of
  `Watchers`. The Python client has the interpreter lock (`gil`), the bridge
  thread and the asyncio queue; the SQL handle is taken out of its registry by a
  wait. Closing a handle is two steps: the subscription goes (`CloseHandle`), then
  `close()` joins the thread (`close_joins`).
* `Locks` and `Scheduler`: `lock_acquire` is three statements. A tick is one
  savepoint, so one step; `fired` is a history of the boundaries enqueued since
  `since`. `Crash` may stop a process anywhere. `LeaderFails` is an error of the
  renewal, the tick or the question for the soonest fire: the lock is released and
  `run` returns. `Disconnected` is the death of the watcher: a standby returns, a
  leader releases the lock and takes it again. The wait for the soonest fire is a
  number of whole seconds counted from within a second, so it may end a second
  after the fire. The next fire of an expression is `NextAfter`, a function that
  is later than its argument; `Cron` is about when that is so (`FiresLater`, and
  the run `cron_fold` for when it is not).
* `Updates`, `Streams`, `Notifications`: iterators with a buffer, a cursor and a
  channel; processes of one consumer name share the saved offset, crash, and may
  have the save in `next()` fail. `given`, `lost` and `applied` are histories: an
  event is given when `next()` returns it, and lost when its own save fails and
  `next()` returns the error in its place.
* `RateLimits`: `rate_limit_try` is a read of the window and, later, the upsert.
  `rate_limit_sweep` takes any age; `swept` is a history of the calls it forgot
  while the window was in use.
* `Savepoint`, `Bootstrap`: connections whose statements may fail, with SQLite
  rolling back the whole transaction or not, including inside the undo. A body may
  also panic: `UnwindUndo` undoes it in the same way, and when that undo fails the
  caller has an error that does not say so. Both outcomes of a failed undo are
  `Unclear`, and callers are assumed to commit nothing on such a connection
  (`commit`): it may hold half of a savepoint, and the code leaves it to the
  caller.
* `Cron`: the search loop iteration by iteration on a calendar whose units and
  dates are constants, and a zone with one gap and one fold. chrono's calendar is
  external; of it the model takes only that a date is followed by the next day of
  the month, or by the first of the next month or year (`Follows`). `Texts` are the
  fields that may be written, wrong ones included. Left out of `resolve`: its second cap
  of a hundred years and the error for a timestamp chrono cannot represent; a gap
  of the clocks ends long before either.

Parts that share no state are put side by side in one specification by a variable
chosen in the initial state and never changed: `backend` in `Watchers`, `part` in
`Tables` and `MCScheduler`, `client` in `Bindings`.

Operators named `Mutant...` are plausible bugs of the definition after them. No
specification uses them; substituting one must break the property it is listed
with in `PROJECT.json`.

## What the runs check

| Run | Instance | Safety | Liveness |
|---|---|---|---|
| `queue_job` | 1 job, 2 queues, 2 workers, clock to 5, lags 0 and 1, every operation | `WellFormed`, `JobConservation`, `OneClaimPerAttempt`, `SettledByLastClaim`, `LeaseExcludesOthers`, `ImplementsLifecycle` | |
| `queue_batch` | 3 jobs, 2 priorities, scheduled and expiring rows, batches of 1 and 2, housekeeping limit 1 | `SleepNeverLate`, `ClaimOrder` | `DueIsHandled` |
| `claim_loop` | 1 job, the consumer and another worker | `NeverSleepsThrough` | `OfferedIsTaken` |
| `bindings` | 3 threads, 2 readers, repeated close; each client kind with 2 callers | `OneCleanConnection`, `CapacityKept`, `NobodyStranded` | `CloseEndsAcquire`, `DropReturns`, `ConsumerIsTold`, `CloseEndsNext`, `WaitIsTold` |
| `watcher` | every backend, 1 subscriber, failures, 3 `-shm` inodes, 2 retained | `OnlyBlindCommitsMissed`, `LogWatchedOrAnnounced`, `RegistryKeepsLocks` | `SightedCommitIsSeen`, `ThreadEnds`, `DeathDisconnects` |
| `scheduler` | 2 processes, 1 schedule that is edited, `@every 1` and a cron of period 2, cap 2, clock to 4; or all expressions of a calendar of 2-second minutes and so on | `LockExclusion`, `NoFireLostOrDoubled`, `NeverOversleeps`, `SearchIsRight` | `DueFires`, `SearchEnds` |
| `tables` | 2 iterators, 2 rows, refills of 1; 2 callers of a limit of 2; 1 result | `NoneSkippedNoneTwice`, `RowsInOrder`, `ExcessWasSwept`, `ReadableUntilExpiry` | `WakeIsNotLost` |
| `bootstrap` | 2 processes, a new file or one with 2 legacy rows, 3 faults | `NoJobLost`, `ReadyMeansMigrated`, `ErrorMeansUndone` | `EveryoneGetsReady` |
| `claim_loop_lapse`, `close_wakes`, `rate_sweep`, `cron_fold` | the same modules | violations, see below | |

What they say, in short:

* *Queue.* Rows are well formed; a job is live or left once; tokens are unique and
  within the budget; only the last claim settles a job; a valid lease excludes
  others; claims follow priority, time and id although the SQL limits one arm
  first; a sleeper is never told a deadline that is too late; every due row is
  handed out or dead-lettered although housekeeping is limited.
* *Consumers.* No commit and no deadline falls between claim, question and wait.
* *Bindings.* The write connection is in one place and without a transaction when
  handed over; no capacity leaks; nobody sleeps beside a free connection; close and
  Drop end what waits for them, with the interpreter lock in play; a consumer reads
  every commit or learns of the watcher's death, and so does a user of a handle of
  the extension who keeps waiting on it.
* *Watcher.* Only commits a backend could not see are missed; the kernel
  backend loses sight of the log only after a refused watch or a deletion inside
  `attach_path`; the thread ends when `close()` asks, and when its file is
  replaced (in the shm loop, if header reads succeed now and then); its death disconnects everybody; no
  descriptor is closed under SQLite's locks.
* *Scheduler.* Leases exclude each other; each boundary is enqueued once; leaders
  do not oversleep by more than the second they round; a standby takes over.
* *Tables.* No event is skipped but those whose own save failed, or applied twice
  with `save_offset_tx`; iterators return rows in order; no wake is lost; a window
  grants beyond its limit only what sweeps forgot of it; a result is readable
  exactly until its expiry.
* *Bootstrap.* No job is lost; who is ready has a migrated file; an error means
  that a statement failed (two processes at once are no reason) and, unless the
  undo failed too, that everything is undone; everybody gets through.
* *Cron.* The answer is the first match, or an error if there is none.

**Bounds.** One job in `queue_job` is enough for the properties of a job's life,
because no operation but a claim relates two jobs. The budget 0 is among the
arguments to show that enqueue refuses it. `queue_batch` needs three jobs: two
compete for a batch while a third is beyond the housekeeping limit of one (1000 in
the code). The clocks go far enough for a lease to lapse, be reclaimed and lapse
again, and for a leader to crash and its lock to expire. Three threads leave two
waiters beside a holder. One subscriber suffices for the watcher, since
subscribers do not interact; the proofs are for any number. Three inodes fill a
registry of two. A refill of one row makes a buffer that ends before the table
does; two rows are a row that is given and one that is not yet. Sweeps of
`RateLimits` have ages below, at and beyond the window plus the lock wait
(`OlderThans`), and may forget `MaxSwept` calls of a window in use. The lock's TTL
equals the heartbeat of 2 seconds, harsher than the code's 60 and 20: a renewal
may come too late, and a fire can lie strictly before the heartbeat. Three faults reach a failing body, a failing ROLLBACK TO and a failing
RELEASE in one call. The little calendar of `MCCron` has carries between all
units, a leap day, and expressions that match nothing; all its dates up to the
search's cap are enumerated.

**Deadlock** is checked in the queue, consumer and bindings runs. In the others the
system may stop: the watcher is closed, every scheduler has ended at the last
value of the clock, rows are used up, everybody is ready, the search has ended.

**Fairness.** `Queue`: workers keep claiming from every queue while a claim would
change something, and not every claim waits for the lock. `ClaimLoop`, `Tables`:
the consumer's and the watcher's threads keep running. `Database`: a started call
goes on and a holder gives its connection back; nobody has to start a call.
`Clients`: the bridge and a thread in Drop run on, the interpreter lock is handed
to whoever waits for it, a close that has begun joins, and, for `WaitIsTold`, the
user of a handle calls wait again. `Watchers`: the loop sleeps a bounded time
whatever it meets; an iteration that gets to the identity check or the stop flag
does so again and again (strong fairness, because a due wake may come first), and
`stat(2)` does not fail for ever. Header reads may fail for ever. `Scheduler`: time
passes, processes that are not dead run, and not every tick waits for the lock.
`Bootstrap`: a process runs on when the write lock is free; only `MaxFaults`
statements fail. Nothing assumes that a handler answers, that a commit happens or
that anybody closes anything. Where the enabling condition is simple it is written
out instead of `WF_`, which is faster to check.

## What the runs found

* `claim_loop_lapse`: `queue_next_claim_at` reports a held lease and a due row, but
  not a lease that has already lapsed. If it lapses between the consumer's empty
  claim and its question, the answer is 0 and `ClaimWaker::next` waits with no
  deadline beside a claimable job. The Python iterator's idle poll rescues it
  (`OfferedIsTaken`).
* `close_wakes`: `Readers::acquire` reads the closed flag, then locks, then waits
  without reading it again; a `close()` in between notifies nobody.
* `rate_sweep`: a sweep deletes every window older than the age it is given, 3600
  seconds by default in Python, whatever the period is. With a longer period it
  deletes the counter of the current window, which then grants its limit again;
  the doc string calls the sweep "purely a table-space reclaim". What can go wrong
  is exactly this: `ExcessWasSwept`.
* `cron_fold`: from inside the hour that the clocks repeat, the next fire is
  resolved to the first of the two hours and is in the past. Outside that hour the
  answer is always later (`FiresLater`, part of `SearchIsRight`).

### Behaviour the models describe and no property excludes

* `Writer::release` reads the closed flag before it locks; a `close()` in between
  leaves the connection in the closed slot until a second `close()` (the comment
  at `lib.rs:710` says it is released either way).
* A failed reader open frees its slot without a notification: a thread that went
  to sleep meanwhile waits for the next release. A reader dropped because its pool
  is closed stays counted in `outstanding`.
* A reconnect of the polling watcher takes a new baseline and wakes nobody
  (`lib.rs:927` says "force one wake"); commits made while it had no connection
  are the "blind" ones of `OnlyBlindCommitsMissed`.
* A subscription made after the watcher's thread died never wakes and is never
  disconnected (state "late"). `update_events()` after `close()` starts a new
  watcher, where the bindings' docs say it returns an error.
* `reopen_shm_header` may record the id of a newer file than it opened, and then
  stays blind until the next replacement; what is committed meanwhile counts as
  blind.
* While the header of `-shm` cannot be read, the shm loop skips the identity check
  and a replaced database goes unnoticed.
* An SQL `close` while a wait has the handle finds nothing, returns 1 all the same,
  and the wait puts the handle back with its thread running. Its caller in the
  repository (`update_hub.ex` of the Elixir binding) first waits up to a second
  for its worker to stop. A second concurrent wait gets -1 although the watcher
  lives. One tick resolves one of several overlapping Node `next()` calls.
* `query` of the Python binding waits for a reader with the interpreter lock
  held; a second `transaction()` on the thread that has one waits for itself.
* The leader's own renewal is a commit and wakes it again. Registering a schedule
  again with a clock read before a wait for the lock can repeat a boundary.
* `StreamSubscription` saves inside `next()`, before the caller handled the event;
  a save that fails there returns the error, the event it had popped is gone, and a
  later save passes it (`lost`, which `SavedWasGiven`, part of
  `NoneSkippedNoneTwice`, excepts). Drop saves the last offset even with
  `save_every(0)`, of which the comment at `honker-rs/src/lib.rs:1049` says that it
  disables auto-save.
* After a panic inside a savepoint whose undo fails, only stderr says that the
  connection is in an unknown state.
* `sweep_expired` dead-letters expired rows; the doc comment at
  `honker-rs/src/lib.rs:652` says it puts processing rows back to pending.
* After SQLite rolled a transaction back by itself, later statements of the same
  block run in autocommit.

## What is proved

TLAPS checks the following for every value of the constants that satisfies the
modules' assumptions (`QueueAssumption`, `ClaimLoopAssumption`, `CallsAssumption`,
`ReadersAssumption`, `FanoutAssumption`, `ShmAssumption`, `LocksAssumption`,
`SchedulerAssumption`, `UpdatesAssumption`, `StreamsAssumption`, `RateAssumption`,
`ResultsAssumption`, `SavepointAssumption`, `BootstrapAssumption`, and those of
`Cron`): types of the arguments, a positive `max`, a positive TTL, a finite set of
threads, a housekeeping limit of at least 1, a batch of 1 and a lag of 0 among the
choices, and a `NULL` that is no row. Of `Cron`'s, `CalendarAssumption` says that
each date follows the one before, `RangeAssumption` that the calendar does not end
before the search does (chrono's has some 262000 years, the search covers 100), and
`ZoneAssumption` that clocks which went forward do not go back before the time
they skipped has passed again. One theorem has a hypothesis of its own:
`ClaimsFollowTheOrder` is about leases of at least 0 seconds, since rows claimed
with a negative timeout have lapsed already and are ready again.

| Module | Theorems | Properties |
|---|---|---|
| `QueueProofs` | `RowsAreWellFormed`, `NoJobLost`, `TokensAreUnique`, `StaleHandlersAreFenced`, `LeasesExclude`, `QueueImplementsLifecycle` | `WellFormed`, `JobConservation`, `OneClaimPerAttempt`, `SettledByLastClaim`, `LeaseExcludesOthers`, `ImplementsLifecycle` |
| `SleepProofs` | `ClaimsFollowTheOrder`, `NothingIsStuck`, `DeadlineIsNeverLate`, `ConsumerNeverSleepsThrough` | `ClaimOrder`, `NoStuckRow`, `SleepNeverLate`, `NeverSleepsThrough` |
| `DatabaseProofs` | `ConnectionIsSafe`, `PoolCapacity`, `WaitersAreWoken`, `NoTickIsLost` | `OneCleanConnection`, `CapacityKept`, `NobodyStranded`, `UnreadIsPending` |
| `WatchersProofs` | `WatcherTypes`, `WakesAreNotLost`, `LogIsFollowed`, `LocksAreKept` | `TypeOK`, `OnlyBlindCommitsMissed`, `LogWatchedOrAnnounced`, `RegistryKeepsLocks` |
| `SchedulerProofs` | `LeaseIsExclusive`, `FiresOncePerBoundary`, `LeadersWakeInTime` | `LockExclusion`, `NoFireLostOrDoubled`, `NeverOversleeps` |
| `TablesProofs` | `EventsAreOnce`, `OffsetOnlyGrows`, `IteratorsInOrder`, `WindowsAreCapped`, `ResultsExpireOnTime` | `NoneSkippedNoneTwice`, `SavedNeverGoesBack`, `RowsInOrder`, `ExcessWasSwept`, `ReadableUntilExpiry` |
| `BootstrapProofs` | `JobsSurviveBootstrap`, `BootstrapIsComplete`, `ErrorsAreUndone` | `NoJobLost`, `ReadyMeansMigrated`, `ErrorMeansUndone` |
| `CronProofs` | `SearchRight`, `FailureComplete`, `SearchMovesOn` | `SearchIsRight`, `NothingToFind`, `StaysInside` and `MovesOn` |

`NoStuckRow`, `UnreadIsPending`, `SavedNeverGoesBack`, the `TypeOK` of `Watchers`, `NothingToFind`,
`StaysInside` and `MovesOn` have a proof and no run of their own.

The arguments:

* **Queue.** `NextMovesJobs` shows that every operation does only
  what `JobsStep` allows: some rows leave, some are claimed by one worker and get
  their next token, at most one is new, the others keep their token and do not
  start to be processed. Invariants, lease exclusion and refinement follow from
  `JobsStep` alone. The inductive invariant `QueueInv` adds that every claim is
  about an enqueued id (so a new row has no old tokens), and that a row being
  processed carries the worker and token of a claim (`HolderClaimed`), which with
  `OneClaimPerAttempt` makes the holder the last claimant. `RowsOK` turns the
  worker guard of an unfenced call into "this worker is processing the row".
* **Order.** Suppose a claim left `b` and took `a` although `b` comes first. If `b`
  was in the merge, whatever precedes `b` precedes `a`, so `a` was not among the
  first n. If the limit of the ready arm cut `b` off, take the first row that it
  cut off: the n rows before that one are all in the merge and precede `a`
  (`LimitedArm`). No induction over the size of sets is needed.
* **Sleep.** `DueInv` adds that a pending row is due. `NoStuckRow` needs, among the
  rows a housekeeping statement could take, one that precedes all others; a finite
  set has one because some element has fewest predecessors (`Minimal`). `LoopInv`
  adds `Covered`: a consumer that waits with no tick and no unseen commit waits
  for a deadline that covers every waiting row; it holds because every change
  that could break it is a commit.
* **Database.** `DatabaseInv` counts: each holder, pooled connection and half-open
  reader is one unit of `outstanding`, threads in the pool's critical paths are
  disjoint sets, and a woken thread is on its way. Cardinalities change by one
  element per step, so any finite set of threads will do.
* **Watchers.** `WatchersInv` has one conjunct per part of the state: a subscriber
  that is behind is open; a kqueue watch of a deleted log has the event of its
  deletion pending; closed inodes have lost their name and never get it back.
* **Handles.** `UnreadIsPending` is the safety half of `WaitIsTold`: while the
  watcher lives, what the user of an open handle has not read is a tick in the
  channel. `HandleInv` adds that the one wait which has the handle took it out of
  `SQL_WATCHERS`, so no second wait drains the channel under it.
* **Locks.** `LockInv`: who wrote an expiry that lies ahead has the row, since only
  its owner or an expiry removes it.
* **Fires.** The boundaries after `since` are the progression `Origin + k * n`.
  `FireInv` says that `next_fire_at` is on it and cuts it (`Cut`): what comes
  before was enqueued, what was enqueued comes before. A tick walks the recursive
  function `Boundary`; its closed form follows from the least index at which it
  would differ (`BoundaryInClosedForm`), so the schema of induction, which the
  provers cannot instantiate, is not needed. A tick that skips its backlog starts
  a new progression. `WaitInv` adds that a waiting leader was woken or waits for a
  time at most a second after the first fire of any enabled schedule.
* **Streams and listeners.** `TablesInv`: cursors and buffers are sorted and follow
  each other without a gap, `saved` is never beyond what was given or lost, and an event is
  applied only by the transaction that moves `saved` to or past it. `ListenInv`
  says the same of a listener, whose rows may be pruned under it: its buffer holds
  all rows between its cursor and the buffer's end that are still in the table.
* **Limits and results.** `RateInv`: while a call may count in a window, its grants
  are its row's count and what sweeps took out of it; later, no call does. A row of a result has the value
  and expiry of the last save, or was swept after that expiry.
* **Bootstrap.** `BootInv`: what is committed is sound (each job once, no half
  migration), and for every statement of `bootstrap` and of the undo it says what
  the process has written but not released. Only the process with the write lock
  changes what is committed, and the others read the committed content.

* **Cron.** `SearchInv`: while the loop runs, the candidate is in the calendar, at
  most a year beyond the cap, and nothing from the start to the candidate matches;
  afterwards it is the first match, or was moved on from it over times that do not
  exist. A skip keeps this if it goes forward to a datetime of the calendar with no
  match on the way (`SkipTo`), which is one lemma for each field. Seconds, minutes
  and hours have the same argument: numbers since day 0 that lie between `k` and
  the next one whose remainder is in the field have remainders outside the field
  (`AdvancePasses`). For months the dates between two days are ordered as the days
  are (`CalendarOrder`), and a later month of the calendar has a first day
  (`FirstOfMonth`), so `make_dt` is never asked for a date that does not exist. What
  holds for all days is shown at the least day at which it would fail, as in
  **Fires**. That the answer is later than `from_unix` is `ClocksGoBack`: local
  time decreases only across the fold, and then `from_unix` is in the repeated
  hour. `FailureComplete` is stronger than what the run checks: it speaks of all
  datetimes up to the cap and not only of those the candidate has passed.

**Only model-checked.** Liveness, which is out of the prover's reach; for
`SearchEnds` the safety half of the argument is proved (`SearchMovesOn`). Every
safety property that a passing run checks has a theorem.

## What is not modelled

* Payloads, JSON, SQL argument decoding, pragmas other than the WAL switch, file
  formats, and reads that change nothing (`get_job`, `scheduler_list`).
* Parsing of `@every` and its overflow checks; splitting of cron text into tokens.
* The outbox: `run_once` is a claim and an ack or retry of the returned job, which
  `Queue` allows any handler; the delivery is the user's.
* Python's task registry, worker pool and asyncio scheduler loop, and the Go, Ruby,
  .NET, JVM, Kotlin, Elixir, Bun and C++ bindings: wrappers whose loops repeat the
  ones modelled.
* The kqueue system calls and the `notify` crate: the operating system is taken to
  deliver every event of a watch it accepted.
* Clocks that jump backwards; a ROLLBACK that fails inside a transaction (outside
  `Savepoint`); prunes by age are prefixes of the ids, as `created_at` follows them.
