# Underboss in TLA+

Underboss is a job queue for Python kept in a SQL database: a port of pg-boss
to asyncio and asyncpg.  This directory models what its statements do to the
tables under every interleaving of producers, workers, maintenance loops, cron
loops and administrative calls, and how a process starts and stops; it checks
that with TLC and proves the safety properties with TLAPS.

## The system

| Component | Source | State | Operations |
|---|---|---|---|
| Tables | `schema.py`, `sql.py`, `types.py` | tables `queue`, `job`, `schedule`, `version`, six partial unique indexes, foreign keys, checks | one SQL statement per operation |
| Producer API | `underboss.py` | none of its own | `create_queue`, `send`, `insert`, optionally on the caller's transaction |
| Worker | `worker.py` | poll task, `_stopping`, `_wake`, the batch in its local variables | claim, run the handler, complete or fail; `notify`, `stop` |
| Failing and dead letters | `failure.py` | none | `fail_by_id`, `fail_expired`: one UPDATE and the dead-letter INSERTs in a transaction |
| Maintenance | `maintenance.py` | loop task, `_stopping` | `sweep`: fail lapsed jobs, then delete old ones; every node runs it |
| Administrative API | `underboss.py` | none | `cancel`, `resume`, `retry`, `complete`, `delete_job`, `fetch` |
| Scheduler | `scheduler.py` | loop task, send-it worker, `version.cron_on` | tick, enqueue due schedules, relay the send-it jobs |
| Start, stop, provisioning | `underboss.py` | `_started`, `_workers` | `start`, `stop`, `_provision`, `work`, `stop_worker`, `notify_worker` |
| Pool | `db.py` | the asyncpg pool | `open`, `close`, `run_script`, `transaction` |

Processes share nothing but the database.  A worker holds no lock while its
handler runs; the only thing that keeps two workers off one job is the lease
`started_on + expire_seconds`, which a sweep enforces, not the worker.  Policies
and the throttle are unique indexes: an INSERT is suppressed by them, an ordinary
UPDATE raises.  Within a process all tasks share one event loop, so that only an
`await` lets another task in; there the order of `start`, `stop` and the calls
between them matters.  `PROJECT.json` lists the hazards that follow, with the line
where each one bites.

What makes each component correct:

* *Tables and administration*: finished jobs stay finished, deliveries respect
  the retry limit, policies hold, the purge takes only what is over-aged.
* *Worker*: no two workers run a job at once while handlers meet the lease; nobody
  else ends a claim within its lease; a return completes the batch; a notify leads
  to a fetch.
* *Claim*: order within a key, the cap of a group, and no queued job left behind.
* *Failing*: exactly one dead letter per exhausted job.
* *Maintenance*: an abandoned job does not stay active.
* *Scheduler*: every firing is enqueued once and none is missed; what is enqueued
  is sent or accounted for.
* *Start and stop*: provisioning ends with a complete schema or an error, what is
  started is ready, the pool outlives the workers and `stop()` returns.

## Modules

| Module | What it is |
|---|---|
| `JobTable` | The rows of `queue` and `job`, the row each INSERT builds, the SET clause of each UPDATE, the WHERE clauses that involve the clock, the unique indexes. No variables. |
| `JobQueue` | The state machine: the two tables, the clock, the batch each worker holds, the point each node's sweep has reached; one action per statement or transaction. Properties. |
| `JobLifecycle` | Abstract specification: phases of a job and the deliveries it has left; no tables, clock, leases or workers. |
| `JobQueueLifecycle` | `JobQueue` read as `JobLifecycle`: the refinement mapping (`PolicyFetch` has its own at its end). |
| `GroupFetch` | The claim with `group_concurrency`, in the steps that other claims can come between. |
| `PolicyFetch` | The claim in order, with SKIP LOCKED and the unique index that refuses it, on a queue that allows one active job of a key. |
| `Scheduler` | Ticks of several nodes, the `version.cron_on` debounce, the throttled send-it queue and its relay. |
| `Provision` | `_provision` by several processes on a database whose DDL is or is not transactional. |
| `WorkerLoop` | The poll loop between two awaits, with the events of `stop()` and `notify()`. |
| `Boss` | One `Underboss` object from `start()` to `stop()`: composes `Provision` and `WorkerLoop` with the pool, the loops and the registry of workers. |
| `MC...` | Queue options, job specs, groups, keys, firing times and symmetry for TLC. |
| `...Proofs` | Lemmas and theorems about the module of that name. |

### State and code: the tables

| TLA+ | Code |
|---|---|
| `job[j]` | the row of job `j`, `Unused` before its INSERT, `Deleted` after its DELETE (ids are fresh uuids and never come back) |
| `queue[q]` | the row of queue `q`, or `NULL` |
| `now` | `now()` of the database, in seconds |
| `held[w][j]` | the batch in `Worker._process`: 0, or the number of the claim it was fetched under. The number exists in the model only: the code keeps the id alone, and `Settling` reads the id alone |
| `sweeping[n]` | where node `n` is in `Maintenance.sweep`: the deletion is a statement of its own |
| `claims`, `resumes` | history: deliveries and `resume()` calls per job |

| Action | Code |
|---|---|
| `CreateQueue` | `create_queue`: ON CONFLICT DO NOTHING, foreign key and check on `dead_letter` |
| `InsertJobs` | `send`, `insert`: `insert_jobs` |
| `FetchNextJob` | the claim without group limit, also through `Underboss.fetch` |
| `Complete`, `Fail` | the handler returned or raised, and the settling statement ran (`_complete`; `_fail` with `fail_by_id`) |
| `Abandon` | the process died, `stop()` cancelled the handler after its timeout, or the settling statement raised (it is logged and the batch dropped) |
| `FailExpired`, `DeleteOld`, `AbortSweep` | `sweep()` in two statements; a failure of the first skips the second, a crash may fall in between |
| `CancelJob`, `ResumeJob`, `RetryJob`, `CompleteJob`, `DeleteJob` | the calls of the same names, each on one id as in the API |
| `Tick` | time passes |

One action is one auto-committed statement or one transaction.  That is the
granularity PostgreSQL gives: rows are locked until commit and a WHERE clause is
evaluated again on a row that had to be waited for.  The `now()` of the code is
the start of its transaction; the model takes one instant per step.

### State and code: one claim in steps

The claim is the statement of which this is not enough: it reads a snapshot, then
locks, skips and evaluates anew what the scan meets, then updates.

| `GroupFetch` | Code |
|---|---|
| `Count` | the snapshot: `active_group_counts`, and the rows `next` may return |
| `LockNext` | CTE `next`: filter on the count, ORDER BY, LIMIT, FOR UPDATE SKIP LOCKED |
| `Claim` | `group_ranking`, `group_filtered` and the UPDATE; the locks go |
| `Rollback` | the statement raised or its process died |
| `Send`, `Settle`, `Withdraw`, `Return` | all that producers, workers, sweeps and administrators do to `state` |

Jobs are numbered as `next` orders them; `IdRank` orders their ids, by which
`group_ranking` ranks.  CockroachDB's serializable isolation, or anything else that
keeps the claims of a queue apart, is the constant `SerialClaims`.

| `PolicyFetch` | Code |
|---|---|
| `LockNext` | CTE `next` of the plain claim: the first `batch_size` due rows no other claim has locked; `missed` (history) are the queued rows it cannot see, locked by another claim or not yet due |
| `FetchesNothing` | the claim that finds nothing; the worker idles |
| `Claim` | the UPDATE: active with the whole batch, or the unique violation that leaves everything as it was; the locks go |
| `ClaimFails` | any other error, or the end of the process |
| `Complete`, `Fail`, `Drop` | the end of the batch: settled by id, failed with or without a delay (`RetryDelay`), or abandoned |
| `Recover` | the sweep's UPDATE on a job whose lease is over, with the delay of the same SET clause, whether or not a handler still has the job |
| `DelayEnds` | `start_after` comes |
| `Send` | producers |
| `Cancel`, `Delete` | `cancel`, `delete_job`, which wait for a locked row; a cancelled job's `start_after` stays |
| `Resume`, `Retry` | `resume` (created again, `start_after` as it was), `retry` (the limit goes up by one); `resumes` and `limit` count them |

### State and code: the scheduler

| `Scheduler` | Code |
|---|---|
| `now`, `Skew[n]` | the database's clock, and how far the clock of node `n` is from it |
| `cron_on` | `version.cron_on` |
| `loop`, `wakeAt`, `rows`, `due` | where `_run` of a node is: idle until `wakeAt`, the tick won, or sending for `due` with `rows` still to look at |
| `job[s, slot]` | the send-it job of schedule `s` in a throttle slot |
| `batch`, `todo` | the batch of the node's send-it worker, and what `_on_send_it` has yet to send |
| `since`, `faults`, `hits` | history: when a row was inserted; what went wrong so far, and in the current window of the database's clock |
| `Tick` | `try_set_cron_time` |
| `FetchSchedules`, `Enqueue` | `_enqueue_due`: the rows in order, `_should_send` on the node's clock, `send` with the throttle; an evaluation that raises ends the tick |
| `TickFails`, `Crash`, `Start` | a statement raised; the node died; it (re)started |
| `ClaimSendIt`, `Relay`, `CompleteSendIt`, `DropBatch`, `Recover` | the send-it worker, job by job, and the sweep |
| `Upsert`, `Unschedule` | `schedule`, `unschedule` |

### State and code: start and stop

| `Provision`, `WorkerLoop`, `Boss` | Code |
|---|---|
| `objects`, `versions` | what the install script has created; the rows of `version` |
| `prov[n]`, `at[n]` | where `_provision` of a process is |
| `Check`, `RunStatement`, `RunScript`, `DuplicateObject`, `Verify`, `Fail` | `version_table_exists`; the script statement by statement (CockroachDB) or as a transaction (PostgreSQL); the retry without CREATE TYPE; `get_version` and `MigrationRequiredError`; any other error |
| `wpc[w]`, `stopping`, `wake` | what the task of worker `w` awaits, `_stopping`, `_wake` |
| `Top` | one pass of the loop from the test of `_stopping` to the first await |
| `pool`, `started`, `registry`, `sendIt`, `loop`, `loopStop` | `Database._pool`, `_started`, `_workers`, `Scheduler._worker`, the two loop tasks and their `_stopping` |
| `call`, `taken`, `quitting` | where `start()` or `stop()` is; its copy of the workers; the workers a `stop_worker()` waits for |
| `unseen` | history: workers a `stop()` does not see, added by `work()` when it has its list, or send-it workers that a second `start()` replaced |
| `LoopEnds` | `_run` of both loops: the flag is looked at between two rounds, and what a round raises is only logged |
| `Start`, `Provisioned`, `QueueCreated`, `QueueFails` | `start()` up to each await, and its errors |
| `Stop`, `MaintenanceStopped`, `CronStopped`, `SendItStopped`, `WorkerStopped`, `Closed` | `stop()`, one wait after the other |
| `Work`, `StopWorker`, `WorkerQuit`, `NotifyWorker` | the calls of these names, at any await of the others |
| `PeerStart`, `PeerProvisioning` | other processes that start on the same database |

### Abstractions

* *Order of candidates.*  The claim takes the first `batch_size` rows by priority
  and age that no other statement holds.  SKIP LOCKED makes any subset of the
  candidates possible, so `FetchNextJob` of `JobQueue` claims any subset of at
  most that size.  Priority is not in the row.  `PolicyFetch` has the order; there
  the jobs of a key have one priority, are sent one after the other and without
  `start_after`, so that only a delay drawn for a retry puts a start off (and stays
  with the job if it is cancelled and resumed).
* *Unique violations in `PolicyFetch`.*  A statement that waits for the index entry
  of another, or is picked to break a deadlock over two entries, is one that ran
  later or failed: an order of steps, or `ClaimFails`.
* *Payload, output, heartbeat, group and tier* columns decide nothing in the
  modelled statements; the payload stays, to tell dead letters apart.
* *ON CONFLICT DO NOTHING.*  A bulk insert keeps the rows that fit; the model
  inserts a set of rows that fits.  A suppressed row changes nothing.
* *Backoff.*  `RetryDelays` is the set of delays that random() can yield.
* *Cron expressions* are the sets of times they name.  Five fields fire on whole
  minutes, and the throttle slot is a minute as well: `Window` divides every
  firing.  The six fields that `validate_cron` also takes (with seconds) are left
  out.  The minute is cut to a few units, the interval to one.
* *Leases of send-it jobs* last fifteen minutes and a relay a moment, so one lapses
  only when nobody holds the job.
* *The install script* is cut to the statements that differ: the type (not
  idempotent), the version table (which later starts look for), everything else
  (idempotent), and the version row.
* *The object*: the pool is its own, one task at a time calls `start()` and
  `stop()`, and handlers do not.  The number of fast retries and the poll delay
  are left out: they only shorten or lengthen an idle time of any length.  A
  second `start()` replaces the loop tasks; the replaced ones share the flag of
  the new ones and are not told apart.
* `delete_queue` has no caller; a caller-chosen `id` (of `JobInsert`) that
  collides is suppressed like any other conflict; `keep_until` of the options is
  never sent to the database.

## Runs

| Run | Question | Bounds | Result |
|---|---|---|---|
| `Settlement` | With handlers that outlive their lease: are deliveries accounted for, finished jobs final and dead letters exact, do abandoned jobs come back, does the purge spare what is not over-aged, and who may end a claim within its lease? | 1 job, with a retry or without, perhaps with a start in the past, and 1 free id; 2 workers, 2 nodes, time to 4; a lease of 1 s, finished rows age after 1 s, queued after 2; `cancel`, `resume` (once per job), `complete`; `FairSpec` | `AttemptAccounting`, `RoutedExactlyOnce`, `FinishedStays`, `ImplementsLifecycle`, `LapsedLeaseRecovered`, `PurgeRespectsRetention`, `LeaseProtects` hold |
| `InTime` | Is the lease enough if handlers meet it? Is each exhausted job of a batch copied once? Are policies kept? | 2 jobs sent (with and without a retry) and 2 free ids, 2 workers, 2 nodes, time to 2, `retry` (the limit to 1 at most) and `delete_job`; a standard, stately or exclusive queue, an exclusive one for dead letters | `TypeOK`, `AttemptAccounting`, `NoOverlap`, `PolicyKept`, `ReturnCompletes`, `RoutedExactlyOnce`, `ImplementsLifecycle` hold |
| `PurgeActive` | ... does the purge spare what is not over-aged, with `retry()`? | 2 jobs, one worker, one node, retention as in `Settlement` | `PurgeRespectsRetention` is violated |
| `PoisonedSweep` | ... do abandoned jobs come back on a stately queue? | 2 jobs, one worker that keeps polling | `LapsedLeaseRecovered` is violated |
| `GroupCap` | Does the limit hold, and does a full group hold up others? | 4 jobs, 3 of one group, limit 1, batches of 2, 2 deliveries, claims that do not overlap, `ClaimSpec` | `GroupCap`, `NoHeadOfLineBlocking` hold |
| `GroupRace` | ... and if two claims overlap? | the same with two claimers | `GroupCap` is violated |
| `Policies` | Is the order within a key kept, and is every job delivered, no more often than allowed? | 3 jobs (keys a, b, a), 2 workers, batches of 1, both policies, one retry, one `resume` or `retry()` of the first job; faults, recoveries, `cancel` and `delete_job` without bound; `FairSpec` | `TypeOK`, `KeyOrder`, `EachDelivered`, `ImplementsLifecycle` hold |
| `WedgedBatch` | ... and with batches of 2? | the same, singleton, nothing brought back | `EachDelivered` is violated |
| `StrictFifo` | ... and is order within a key kept strictly? | the same with batches of 1, key_strict_fifo, no retries | `StrictFifo` is violated |
| `Scheduler` | Is each firing enqueued once, none missed, all relayed? | 2 nodes, one slow and mortal; 2 schedules that fire at 9, one broken; a window of 9, an interval of 1, loops up to 1 late; one fault in each window, two in all; time to 18 | `TypeOK`, `EachFiringOnce`, `NoFiringMissed`, `RelayAccounting`, `Relayed` hold |
| `MissedFirings` | ... and with the default interval, as long as the window? | one node, no fault, no skew, a window and an interval of 9, firings at 0 and 9 | `NoFiringMissed` is violated |
| `Boss` | Does start make ready, does stop end everything and return? | 1 user worker, 2 send-it workers, a second process that provisions, 2 starts in all, `stop()` as often as one likes | `BossTypeOK`, `ProvisionedComplete`, `ReadyWhenStarted`, `WorkersEndBeforePool`, `StopReturns`, `NotifyHeeded` hold |

Why these bounds suffice for the question:

* A clash in the tables needs two jobs at most (two rows of one index, or two rows of
  one batch with different outcomes) and two workers (one late, one with the later
  claim); a retry limit of one gives a first delivery, a re-delivery and an
  exhaustion; a lease of one second lapses and is granted again before time 4.
  In `InTime` leases end at 1 or 2 and cannot all lapse, but a sweep at 2 can take
  an abandoned job; its four ids are two jobs and the copies of both, and a
  job that is retried and exhausted again finds no id for a third copy, so that
  its failing is not taken there.  `MaxSent` limits what producers insert and leaves
  ids for dead letters.
  `MaxTime`, `MaxResumes` and `MaxRetryLimit` stop the clock and the two calls that
  could be repeated for ever.
* The clock stops at `MaxTime` while the other actors go on, so that the liveness
  properties do not depend on time passing: what is asked there is that a lease already
  over is noticed.
* In `GroupCap` three jobs of the group fill a batch beside an active one, which is
  what it takes for the surplus to crowd out the fourth job.
* In `Policies` the job between the two of key a is what a blocked key may hold up;
  `KeyOrder` and the refinement are then proved for any batch size.
* In `InTime` two jobs of one (absent) key are what a policy keeps apart; `short`,
  `singleton` and `key_strict_fifo` queues are left to the theorem.
* In `Scheduler` the window of 9 is wider than the longest gaps between ticks won
  that a fault makes: intervals of 1, a debounce that wants more than one
  interval, loops that wake 1 late and take 1, and one tick lost.  The firing at 9
  is judged at 18, when the loops have ticked through a whole window of their own
  accord and each window may have had its fault.  Only one firing of a schedule
  is in the run: that a stray job of another firing takes the slot, which
  `NoFiringMissed` exempts, does not happen in it, and that one firing keeps out of
  the way of the next is left to the theorems.
* In `Boss` two starts are what it takes to start again after a stop, to start
  twice, or for the peer to provision in between.

No state of any run is a dead end (a sweep can always come round, a claim find
nothing, a call be made), so deadlock is checked everywhere.

### What the violated runs show

* `PurgeActive`: `retry()` leaves `completed_on` behind and the purge looks at
  that column whatever the state is: a job that runs again is deleted.
* `PoisonedSweep`: on a stately queue, one job abandoned active and one waiting in
  retry cannot pass each other.  The sweep would make the first a second
  `retry`, the claim would make the second a second `active`; each raises on
  `job_i3`.  The sweep covers all queues in one statement and skips the
  deletion when it fails, so one such pair stops maintenance everywhere.
* `GroupRace`: both claims count no active job of the group, the second skips the
  row the first has locked and takes the next of the same group.  The comment on
  `group_concurrency` promises a cap across all nodes.
* `WedgedBatch`: the claim takes the first `batch_size` rows whatever their keys.
  Two queued jobs of one key at the head of a singleton queue are claimed
  together, violate `job_i2` together, and are the first rows again at the next poll.
* `StrictFifo`: one claim has locked the first job of a key; the claim of another
  worker skips the row and starts the next job of the key before the first is
  active.  The docstring of `QueuePolicy` says strict FIFO.  Two polls at once are
  all it takes.
* `MissedFirings`: the default `cron_interval_seconds` of 60 is the due window.  The
  loop idles a whole interval after each tick and the debounce asks for more than
  an interval, so ticks are a window and a little more apart, and each looks
  less than a window back, at firings strictly before it.  What fires between the
  one tick and the window of the next is lost: in the run, a firing at the very
  instant of a tick, which is over when the next one comes; on a real clock, where
  each tick comes later by the time the last one took, a minute that the drift passes
  (of a schedule that fires every minute, one firing now and then; of a daily one, the
  day it is met).  An interval below half the window (`WellTimed`, below) does not
  have this.

### What the properties exempt

Some properties hold with an exception, written into them and described in their
comments.  Each stands for something the code does:

* `PolicyKept`: a dead letter carries no policy, so an exclusive queue that receives
  dead letters may hold several queued jobs; in a short queue a job that waits for
  its retry, though queued, does not count (`job_i1` asks for `created`).
* `LeaseProtects`: settling goes by id and by the state active, not by the claim.  A
  handler that runs past `expire_seconds` and then returns or raises settles the
  claim another worker has got since (if it raises, that worker's return
  completes nothing, against the docstring of `Worker`).  This is why `NoOverlap`
  and `ReturnCompletes` are asked only where `HandlersMeetLease`.
* `RoutedExactlyOnce` is about one transaction.  That no later one fails the same
  attempt again is in `FinishedStays`.
* `KeyOrder`: a job may overtake one of its key that is created and that its claim
  could not see: locked by another claim, resumed with its retry delay still
  running, or resumed since the claim read its candidates.  `StrictFifo` is the
  property without the exemption, and is violated.
* `EachDelivered`: on a `key_strict_fifo` queue a failed job keeps its index entry.
  The next job of the key, being the oldest candidate, is refused at every poll
  and holds up the jobs of all keys; a retry that has overtaken an earlier job of
  its key does the same.
* `EachFiringOnce`, `NoFiringMissed`: what is due is read on the node's clock, the
  slot on the database's when the send arrives.  A slow tick or a clock that is
  off puts a firing into another slot (`stray`), where it may double its own job or
  take the place of the next firing's.
* `NoFiringMissed`: a schedule whose evaluation raises (an unknown timezone is not
  rejected by `schedule()`) ends the tick, and all schedules after it never fire.
* `RelayAccounting`: a send that raises is logged and the firing is lost.
* `ProvisionedComplete`: where DDL is not transactional, a start that meets the
  version table of an install still under way, or broken off, takes it for a
  finished one (`blind`).  On PostgreSQL this cannot happen; two installs at once
  end there with one of the starts raising.
* `ReadyWhenStarted`: for a `blind` start the schema may be incomplete, where DDL is
  not transactional.  And it asks for a pool and a schema only: `_started` is set
  before the scheduler's queue is created, and if that raises, `start()` has failed
  and calls go through, without loops.
* `WorkersEndBeforePool`: `stop()` does not wait for a worker that `stop_worker()`
  is stopping (`quitting`), does not see one that `work()` adds meanwhile, and has
  lost the send-it worker that a second `start()` replaced (both `unseen`).

And one thing no property says: after a `stop()` the flags of both loops stay set
(`loopStop` is never emptied), so that after a later `start()` there is no maintenance
and no cron.

### Fairness

* `JobQueue!FairSpec` is weak fairness of both statements of each node's sweep:
  `_run` loops until `stop()`, catches every exception, and its interval is
  finite.  It says that some node with maintenance enabled stays up; it does not
  say that the sweep succeeds, `FailExpired` is a step that changes nothing when
  the UPDATE raises.  In `Settlement` only `LapsedLeaseRecovered` needs it.
  `PollingSpec`, used only for the counterexample, adds weak fairness of every
  worker's claim, so that the run cannot be blamed on an idle worker.  No handler is
  ever assumed to return.
* `ClaimSpec` is strong fairness of the three steps of a claim: `_run` polls for
  ever and goes on after a fetch that raised, so among claims begun again and again
  one ends.  It stands for a claimer that is free (a worker between batches, a
  caller of `fetch`); it says nothing of when active jobs end.
* `PolicyFetch!FairSpec`: workers poll and their claims come back, handlers end in
  one way or the other, delays end, and a sweep runs.  Claims that fail for other
  reasons than the index (a lost connection, a death) may be many, but in the end
  there are none; the refusals of the index go on for ever.  Producers and
  administrators are free to do nothing.
* `Scheduler!FairSpec`: the send-it worker of each node that is up polls and its
  handler, which only sends, comes to an end; a sweep runs somewhere.  That a tick
  comes at all is not fairness but the bound `MaxLate` on a loop that is up: a
  firing is missed by time passing.
* `Boss!FairSpec`: the waits in `stop()` have timeouts, the event loop runs what is
  ready, fetches and settlements return.  Handlers need not return, but a
  cancelled one ends.  Nothing is assumed of the poll delay, of provisioning or of
  the callers.

## Proofs

All for any queues, ids, keys, workers, nodes, groups, schedules, options and bounds,
from the named assumptions of the modules: `DefaultsAssumption`,
`MarkersAssumption` (the markers are no rows), `ParametersAssumption`,
`GroupAssumption`, `PolicyAssumption`, `BossAssumption` (types of the parameters;
for groups, finitely many jobs with distinct ids), `VersionsAssumption` (two
versions differ) and `SchedulerAssumption` (firings fall on whole windows).

| Theorem | Says | Extra assumption |
|---|---|---|
| `TablesWellFormed`, `TypeCorrect` | `[]TableInv`, `[]TypeOK` | |
| `AttemptsAccounted` | `[]AttemptAccounting` | |
| `FinishedJobsStay` | `FinishedStays` | |
| `RoutingIsExact` | `RoutedExactlyOnce` | finitely many ids |
| `PurgeIsSafe` | `PurgeRespectsRetention` | `retry` and `delete_job` not in use |
| `LeaseExcludes` | `[]NoOverlap` | `HandlersMeetLease`, `cancel` and `resume` not in use |
| `ReturnsComplete` | `ReturnCompletes` | the same |
| `LeaseProtected` | `LeaseProtects` | `retry` not in use |
| `LifecycleImplemented` | `ImplementsLifecycle` of `JobQueue` | |
| `PoliciesHold` | `[]PolicyKept` | |
| `GroupTypeCorrect` | `[]TypeOK` of `GroupFetch` | |
| `SerialClaimsKeepCap` | `[]GroupCap` | `SerialClaims` |
| `OverlapsBounded` | `[]OverrunBounded`: no more active jobs of a group than limit times claimers | finitely many claimers |
| `PolicyTypesOK`, `FifoWithinKey`, `PolicyLifecycleImplemented` | `[]TypeOK`, `KeyOrder`, `ImplementsLifecycle` of `PolicyFetch` | |
| `ProvisioningCompletes` | `[]ProvisionedComplete` | |
| `BossProvisions` | `Boss` implements `Provision` | |
| `BossTypesOK`, `StartedMeansReady`, `PoolClosedLast` | `[]BossTypeOK`, `[]ReadyWhenStarted`, `[]WorkersEndBeforePool` | |
| `SchedulerTypesOK`, `FiringsOnce`, `SendsAccounted` | `[]TypeOK`, `[]EachFiringOnce`, `[]RelayAccounting` of `Scheduler` | |
| `FiringsCaught` | `[]NoFiringMissed` | `WellTimed` for some node and skews |

`WellTimed(m, Behind, Ahead)` says when the ticks are dense enough: node `m` stays
up, a tick is over before the next is open (`MaxLate <= TickInterval`), the clocks
are at most `Behind` behind the database's and `Ahead` of it, and
`Behind + (FaultsPerWindow + 1) * Gap + MaxLate + Ahead < Window`, where
`Gap == 2 * TickInterval + MaxLate` is the longest time between two ticks won, and at
most `FaultsPerWindow` crashes, failed statements and failed sends fall into one
window of the database's clock.  How many there are in all does not matter
(`MaxFaults` only bounds the runs).  `MCScheduler` assumes it of the instance of
`Scheduler`, so TLC evaluates it there.  In seconds it asks, with no fault and
clocks together, for an interval below half a minute, with one fault a minute for one
below a quarter; the constructor's default of 60 does not satisfy it, and
`MissedFirings` shows what happens then.

The argument about the tables, in layers:

1. `TableInv` = types and *foreign keys*: the dead-letter queue a row names exists.
   Types alone are not inductive, because the copy of an exhausted job takes its
   columns from that queue's row.
2. `StepsAreRowSteps`: whatever action is taken, each row changes in one of nine
   ways (`RowStep`).  From here on each property is proved row by row, not
   action by action.
3. `Accounts` strengthens `AttemptAccounting`: a queued job has a delivery left,
   an active one was claimed, `started_on` tells whether one ever was.  The
   last is what makes the claim's CASE count correctly.
4. `EndsAreFinal`: a pending job has no `completed_on`.  This is what `retry()`
   breaks, hence the assumption of `PurgeIsSafe` and the run `PurgeActive`.
5. `LeaseInv` adds `HeldInLease`: what a worker holds it holds under the current
   claim, on an active row, within the lease, or the row is completed or gone and
   nobody can claim it again (`OutOfReach`).  `NoOverlap` and `ReturnCompletes`
   follow.  `LeaseProtected` does without `HandlersMeetLease`: it looks at each
   action and at whose row it takes, and needs `EndsAreFinal` for the purge.
6. Dead letters: only a failing transaction takes an active job to retry or failed
   (`FailingStepFails`), and in one, "is the copy of" is a bijection between the
   rows that arrive in a queue and the jobs exhausted for it (`CopiesMatch`).
7. Indexes: a statement that could take an index entry twice is refused, and those
   the model does not guard (settling, cancelling, deleting) only free entries
   (`EndingKeepsIndexes`), so `UniqueIndexes` of the table is inductive; two jobs a
   policy keeps apart would share an entry (`ApartByIndexes`).
8. The refinement: each action is mapped to an action of `JobLifecycle`, or
   stutters; `Accounts` gives the guards of `Deliver` and `GiveUp`.

The claim:

* The group limit: between `Count` and `Claim` the number of active jobs of a group
  can only fall (`Counted`), and the jobs a claim adds to a group are told apart
  by ranks between 1 and the places left (`GrantsFit`), so they fit.  `GroupCap`
  alone is not inductive: it does not know what a claim under way has counted.
* Claims that overlap: say who granted each active job (`Granted`).  A claimer's own
  part of a group never exceeds what it counts, nor with what it then grants the
  limit, whatever others do; `SharesAddUp` adds the parts by telling jobs apart
  by owner and position.  So `GroupRace` can get worse with every claimer, and no
  worse than that.
* The order of a key: the rows a claim locks have no gap (`NoGap`), so an earlier
  job of a key, when a later one is locked, is in the batch, is one the claim could
  not see (`missed`), or has ended, been cancelled or been delivered and is no longer
  created (`LeftBehind`; it needs `SentInOrder`).  In the first case the index refuses
  the batch; a job that is active, waits for its retry or has failed keeps the entry,
  and it refuses it too.
* Its refinement: `tries` counts deliveries, so what the life cycle has left is
  `limit + 1 - tries`, with `resume()` among its extras.  That a queued job has a
  delivery left (`RetriesLeft`) is what `Deliver` asks for; that a locked row cannot
  move meanwhile, part of `TypeOK`, carries it from the lock to the update.

Start and stop:

* `ProvisionInv`: a script under way has done what comes before its next statement,
  and the version row is the last thing to appear, with transactional DDL together
  with all the rest.  `StepsProvision` carries it over to `Boss`.
* `BossInv` says of each point of `start()` and `stop()` what has been achieved
  (`Calls`), and of each worker that runs that it is on a list: the registry, the
  copy `stop()` took, the send-it worker's place, those a `stop_worker()` waits for, or
  `unseen` (`Listed`).  That a taken worker cannot be
  taken again by `stop_worker()`, part of `BossTypeOK`, needs the same lists.

The scheduler: `LoopInv` says that a firing being sent was found in the slot of its
node's clock (a firing less than a window ago, on a whole window), so that a job
that is not stray sits in the slot of its firing (`InSlot`), and slots are unique.
`JobInv` counts tries against faults for `RelayAccounting`.  For `NoFiringMissed`,
`Punctual` says that the node that stays up wins or sees a tick at least every
`Gap`, and `InHand` that as long as a due firing has no job, every tick won since
it came due for all clocks is owed to a fault of the current window (`hits`), except
one under way that still has the firing's row before it; with as many gaps as a
window may have faults, and one more, inside the window, the firing has a job before
the window is over.  `Min` and `Max` of the
community modules are CHOOSEs; `MinIn` and `MaxIn` show that they choose, from strict
inclusion of intervals being well-founded.

Only model-checked: the liveness properties `LapsedLeaseRecovered`,
`NoHeadOfLineBlocking`, `EachDelivered`, `Relayed`, `StopReturns` and `NotifyHeeded`.
Liveness under fairness is outside the prover's reach.  Every safety property of
the passing runs is also a theorem, with the assumptions above.  `OverrunBounded` is a
theorem only, no property of a run.

## Not modelled

* Exceptions and the conversion of rows to `Job` and `Queue` objects, the read-only
  queries, the tables kept for compatibility with pg-boss (`subscription`,
  `bam`, `warning`): no state that anything depends on.
* A pool the caller supplies: `close()` forgets it, and a `start()` after it
  connects with no address.  Codecs and the rest of `db.py` forward to asyncpg.
* `stop()` called from a handler.  It waits 30 seconds for its own task, cancels it,
  swallows that cancellation (it is its own), and closes the pool under the
  handler, whose batch then cannot be settled.
* Names: two schedules whose `name__key` coincide suppress each other's jobs.
* The evaluation of a cron expression, a library's.
* Dead letters carry no policy, so a dead-letter queue created as exclusive may hold
  several queued jobs; this is read off `DeadLetterRow` and has no run of its own.
* `short` and `stately` in `PolicyFetch`: they also suppress inserts and are in
  `JobQueue`, in whatever order; priorities within a key and jobs of a key sent with
  a `start_after`.
* Cron expressions of six fields, which fire within a minute.

## Plan

Done: all components that keep state, with the proofs above.  Left:

1. `PolicyFetch` with deferred new jobs and priorities, and with the inserts that
   `short` and `stately` suppress.
2. The claims of `PolicyFetch` and of `GroupFetch` as one step each of the tables: that
   `FetchNextJob` of `JobQueue`, which takes any subset, allows what they do.
3. `Boss` with `stop()` from a handler and with a supplied pool.
