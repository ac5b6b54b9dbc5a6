# Verification of the Exotel monitoring platform

This directory holds a TLA+ development of the Go backend of the Exotel
monitoring platform: models of its components, TLC configurations that check
them on small instances, and proofs checked by TLAPS that hold for every value
of the constants. Paths such as `internal/...` and `cmd/...` are relative to
`src/`.

## 1. The system

The platform polls the Exotel API on behalf of *accounts*. Every account owns
*exophones* (virtual numbers) and each exophone has three *monitoring jobs*:
HEARTBEAT, CALLS and STREAMS. MySQL holds everything durable, Redis holds a
cache of the dashboard reads and the set of call SIDs already counted, and one
Go process runs the scheduler, the worker pool and the HTTP handlers.

### Components, their state and operations

| Component | Source | State | Operations |
|---|---|---|---|
| Scheduler and dispatcher | `internal/scheduler/scheduler.go`, `internal/workers/dispatcher.go` | cron entries, the copies of due jobs a poll holds | poll, list due jobs, submit them in order, stop |
| Worker pool | `internal/workers/pool.go` | semaphore channel, wait group | Submit, deferred release with recover, Wait |
| Process | `cmd/server/main.go` | phase of main | boot, signal, Shutdown, Stop, Wait, exit |
| Job execution | `internal/workers/job_worker.go`, `internal/utils/retry.go`, `internal/exotel/*.go` | one `job_transactions` row per execution, `next_run_at`, `last_run_at` | create the row, call the API with retries, store responses, alert, update the row, advance the job |
| Alerts | `internal/alerts/*.go`, `internal/repository/alert_repo.go` | `alerts`, `alert_dispatch_log` | trigger, post, log, acknowledge |
| Call counting | `internal/workers/job_worker.go` (executeCalls), `internal/cache/dedup.go`, `internal/snapshots/generator.go` | Redis SID set, `call_metrics_snapshot`, `call_logs`, `job_responses`, `account_dashboard_snapshot` | fetch a window, drop SIDs already seen, add the batch to the day's row, refresh the dashboard |
| Repair of a day | `internal/handlers/backfill.go`, `internal/handlers/reprocess.go` | `backfillJobs` map, `bulk` record | refetch or recompute a day and overwrite its row, register the SIDs |
| Settings | `internal/handlers/exophones.go`, `internal/handlers/priority_config.go`, `internal/feature/flags.go` | cron flag, priority, frequency, `skip_call_logs`, global flag | toggle, change priority, change configuration |
| Metrics engine | `internal/metrics/engine.go`, `internal/snapshots/generator.go` | the columns of `call_metrics_snapshot` | classify legs, summarise a batch, add it to the row, recompute rates, average and peak hour |
| Health snapshots | `internal/snapshots/generator.go`, `internal/handlers/webhook.go`, `internal/handlers/heartbeat.go` | `exophone_health_snapshot`, heartbeat and stream metrics | refresh after a job, webhook upsert, manual check |
| Cache-aside reads | `internal/cache/cache.go`, `internal/handlers/*.go` | Redis keys with TTL | read through, fill, invalidate |
| Onboarding | `internal/handlers/accounts.go`, `internal/handlers/exophones.go` | accounts, exophones, jobs | create an account, add an exophone, synchronise with the vendor; no handler deletes an exophone |
| Housekeeping | `internal/scheduler/scheduler.go` | `account_dashboard_snapshot`, old rows | hourly refresh, daily cleanup |

### How they interact

* Cron calls `RunDueJobs` in a goroutine of its own for every tick; calls may
  overlap. Each lists the due rows as *copies* and hands them to the pool one
  by one; `Submit` blocks while the pool is full. Nothing marks a row as taken,
  so a job that is still running, or still waiting in a list, is listed again.
* An execution shares nothing with others but the stores: its own transaction
  row, the job row (written once, at the end), the SID set, the row of the day
  and the dashboard row.
* HTTP handlers change the same rows at any time. Backfills run in goroutines
  of the process that neither the pool nor the drain of main knows of; the
  single ones and the bulk run keep their progress in two maps of the process
  and do not ask each other.
* Onboarding makes the rows the scheduler lists. Two of its handlers use a
  transaction, the third writes row by row; all check first and write later.
* The dashboard of an account has two writers: the statement that ends an
  execution or a repair, and the hourly refresh.
* The refresh of a health snapshot is started with `go` and nothing waits for
  it.

### What is hard, and what makes it correct

| Component | Hard behaviour | Properties |
|---|---|---|
| Scheduler, pool, process | overlapping polls, panics, a full pool, drain order, crash between outcome and reschedule, stale copies | the counters of the pool are true; no `wg.Add` while main waits; no row is orphaned without a fault; a job moves on only after its outcome; due jobs run, the drain ends, a paused exophone quiesces |
| Job execution, alerts | mixtures of answers, deadline against back-off, failures between alert and row | no futile call, at most one late call, the alert names the failure, failures and outages are alerted before they are recorded, every execution ends |
| Call counting | register, read, write and dashboard are separate steps of several goroutines; Redis or MySQL fail in between | counted at most once; a batch is counted or lost as a whole; nothing stored stays uncounted; the dashboard agrees |
| Window | stale `last_run_at`, late windows, long executions, caps, changed frequency | a call of today that no window asks for has one of three named reasons |
| Repair of a day | overwrites what a live execution is adding to; single and bulk repairs of one day; a task list shared by several workers; each step may fail | turns with executions keep the count right, overlap does not; the report of a bulk run adds up at any moment; what is reported as done is current; every accepted repair ends |
| Health snapshots, caches | detached writers, stale fill after invalidation, three classifiers of one answer | a cached view is stale for a bounded time only, and a refresh reaches it; only a push stores an availability that does not follow from the status |
| Onboarding | duplicate checks outside the transaction, a sync that is no transaction, a priority changed meanwhile | every exophone has each of its jobs once, in its priority |
| Housekeeping | a count that is read now and written later, and written as zero when it cannot be read | the count of exophones is right again and again |
| Metrics engine | a day split into batches, an average of averages, panel calls with two legs, rates above 100 | batches add up to the whole day; the average stays within its rounding; connected is the customers reached; which days the database refuses |

`PROJECT.json` lists every hazard at its line with the properties that cover it,
or the reason why none does yet.

## 2. Modules

| Module | Models | Abstract specification | Proofs |
|---|---|---|---|
| `JobScheduler` | scheduler, dispatcher, pool, life of an execution, settings, drain | `BoundedExecutor` | `JobSchedulerProofs` |
| `JobAttempt` | one execution from the account lookup to its status: retries, effects, alerts | | `JobAttemptProofs` |
| `CallPipeline` | counting the calls of a day, with repairs | `CallLedger` | `CallPipelineProofs` |
| `CallsWindow` | which calls the executions of a CALLS job ask for | | `CallsWindowProofs` |
| `HealthSnapshot` | the health row of an exophone, its writers and its cached view | | `HealthSnapshotProofs` |
| `CallMetrics` | the figures of an exophone and day: classification, batches, repairs | | `CallMetricsProofs` |
| `Backfill` | single backfills, the bulk run with its report, channel and workers | | `BackfillProofs` |
| `Onboarding` | accounts, exophones and their jobs; the hourly count of exophones | | `OnboardingProofs` |

`MC<module>` gives the constants values for TLC. A definition whose comment
begins with *Variant* is a plausible mistake in the code next to the operator
it would replace; `PROJECT.json` pairs each property with such a variant, which
must violate it. Variants are not part of any `Next`.

The modules cut the system at a few interfaces. `JobScheduler` shows an API
call with everything it causes as one step (`CallApi`), because no other
goroutine of the scheduler sees any of it; `JobAttempt` is the inside of that
step. In `JobAttempt` the counting is one save ("metrics"); `CallPipeline` is the
inside of that, for any number of executions at once. `CallPipeline` lets an
execution fetch any subset of the calls made so far; `CallsWindow` says which
ones its window really asks for. `CallPipeline` sees a row as a multiset of calls,
because its columns are all sums over them; `CallMetrics` is about those columns,
and adds a batch in one step because `CallPipeline` has shown what interrupts it.
`HealthSnapshot` begins where `JobAttempt` has stored a reading and `JobScheduler`
has started the detached refresh. What a repair does to the SID set, the call
logs and the dashboard while executions run is in `CallPipeline`, the figures it
writes in `CallMetrics`; `Backfill` is about the goroutines around it, and sees
the calls of a day as a version. `Onboarding` ends where `JobScheduler` begins:
with an exophone and its three jobs.

### JobScheduler

| State | Code |
|---|---|
| `cron`, `active`, `prio`, `freq`, `left`, `config` | columns of `exophones`, `monitoring_jobs`, `priority_config`; `left` is `next_run_at` minus now |
| `stamped` | the unique key on `transaction_id`, which holds the second and the job |
| `orphan` | history of RUNNING rows whose goroutine is gone |
| `poll[p]` | a `RunDueJobs` call: idle, before `p.sem <-`, or before the `go` statement, and the copies left |
| `sem`, `wg` | `Pool.sem`, `Pool.wg` |
| `worker[w]` | a goroutine of the pool: where it is in `ExecuteJob` or the deferred function, and its copy |
| `phase` | main: up, in `srv.Shutdown` ("http"), in `scheduler.Stop` ("stopping"), in `Wait`, gone |

Every step that another goroutine can tell apart is an action: `Acquire` and
`Spawn` are the two halves of `Submit`, `ReleaseSlot` and `WgDone` those of the
deferred function. Discarded errors (`_ = repository...`) are disjuncts guarded
by `"db" \in Faults`. Time is relative, so there is no clock and no bound on it.

### JobAttempt

`answers` is the sequence of vendor answers, `plan` what the finished loop still
has to store and raise, in the order of the code, `alert` how far each alert is.
An answer is a status code, one per class the code distinguishes, and what its
body says. `THRESHOLD` stands for the alerts that a measured rate triggers: the
two drop rates of a CALLS job and the utilisation of a STREAMS job. The v2 and
the v1 request of a heartbeat are one call with the outcome that counts.

### CallPipeline

A row of `call_metrics_snapshot` is the number of times each call was added to
it; the columns of the table are sums over that. `run[x]` is an execution of
`executeCalls`, `repair[r]` a backfill, a bulk task or a reprocess request.
`TakeTurns` describes the environment: nothing in the code makes repairs and
executions of an exophone take turns, so a property that needs it says so.

### CallsWindow

An instant stands for the calls created in it. An execution that calls the vendor
for `[from, to)` adds those instants to `asked`, whatever the answer: it goes on to
`AdvanceNextRun` in any case. Nothing bounds how late a copy opens its window or how
long an execution lasts; what that costs is recorded in histories instead. `cut`
has the instants a window had to reach back to and did not, because they were too
old for the lookback or, on a first run, for its one period. `overrun` has those
between the end of a window and the new `last_run_at` less the overlap, and
`unasked` those of an execution whose account was not found, which moves
`last_run_at` without opening a window (`NoAccount`).

### HealthSnapshot

`latest` is the reading `GetLatestHeartbeat` answers with, `row` and `cache` are the
row and its copy in Redis, `refresh[f]` is a `RefreshExophoneHealth` goroutine
between its reads, its upsert and its deletion, and `reader[r]` a request between
its miss, its query and its fill. A hit changes nothing and is not a step. Two
histories say what the properties need: `stale`, the ticks since a copy stopped
being the row, and `excused`, set when the copy was stored late or nobody was to
invalidate it. `FetchHeartbeat`, `ReadingOf`, `CheckedRow` and `PushedStatus` are the
classifications of `exotel/heartbeat.go`, `job_worker.go`, `handlers/heartbeat.go`
and `handlers/webhook.go`, each translated by itself.

### CallMetrics

A batch maps each call to its record or to `Unseen`; `Tally`, `Hourly`,
`LegStatusBreakdown` and `Connected` are the counters of `ProcessCallRecords`, `Plus`
is `AccumulateCallMetrics`, `RowOf` what a repair writes. `avg` is in hundredths of
a second, rounded as the column rounds. `seen` is the history of the records that
went into the row, the reference the properties compare the row with. `refused`
are calls whose batch the database did not take (`Fits`): their SIDs stay
registered, so no later batch has them. `parts` and `paired` are histories too.

### Backfill

| State | Code |
|---|---|
| `vendor[d]`, `row[d]` | how many calls of a day have ended, and the version `call_metrics_snapshot` was computed from |
| `job[d]` | the entry of `backfillJobs`; `asof` is a history, the version at the request |
| `single[s]` | a goroutine of `BackfillExophoneSnapshot`: before its fetch, its upsert, its last entry |
| `bulk` | `bulkBackfillState`: `running`, the counters, the result of each task |
| `starter` | the request that won the guard, then the goroutine that waits; its body and whether it read the credentials |
| `queue`, `worker[w]` | `taskCh` and its readers |
| `overlapped[d]` | history: a single and a bulk repair of the day were at work together |

`Claim` empties the report before the exophones are known, `LoadExophones` may
call the run off, `Announce` sets the total, `Enqueue` fills the channel. A date
that the array names twice makes two tasks (`Items` are exophones and positions).
`Fail` is the early return of a single backfill, `Storable` the day without
calls that the JSON column refuses. `Crash` loses both records, which live in
memory, and keeps the rows.

### Onboarding

| State | Code |
|---|---|
| `listed` | the numbers of the account at the vendor, in the form it writes |
| `account`, `exophone[n]`, `job[n]` | `accounts`, `exophones` with their priority, `monitoring_jobs` in the order of their insertion |
| `request[r]` | an `AddExophone` or `SyncExophones` handler: where it is, its number, the numbers left, the next job |
| `totals`, `refresh` | `total_exophones` of the dashboard, and `runHourlySnapshotRefresh` between its query and its statement |
| `maimed`, `moved` | histories: a sync left jobs out; the priority changed while a sync was making jobs |

`CreateAccount` is one step, because nothing it decides from can change before
its transaction. `AddExophone` checks outside its transaction and again inside it
by the unique key (`AddRows`). A sync inserts the exophone (`UpsertExophone`) and
then three jobs (`InsertJob`), and goes on after every error. A request that is
refused or rolled back at once is no step. `NormalizePhone` is a constant
function from the written forms to the canonical numbers.

## 3. Runs

| Run | Question | Result |
|---|---|---|
| `scheduler_pool` | two polls contend for one slot with panics, a missing account, failing statements, a crash, a signal, a changed priority | counters true on every path, drain order sound, a job moves on after its outcome, implements `BoundedExecutor` |
| `scheduler_live` | two jobs, one worker, toggles, two polls, a changed configuration, a signal and a second life | no starvation, the drain ends, a paused exophone quiesces |
| `attempt_retry` | one execution of each kind against every sequence of answers, with every fault | the seven properties of section 4 |
| `pipeline_overlap` | two overlapping executions, repairs in turn, failing statements and fetches, changing settings | no call is counted twice |
| `pipeline_ledger` | three calls, executions in turn, crashes, failing statements, changing flags | implements `CallLedger` |
| `pipeline_turns` | two exophones, executions and repairs in turn, call logs on or off for one or all, Redis fails in the middle of a pipeline or forgets its sets | no call is lost, dashboard agrees, what is registered is counted |
| `pipeline_backfill` | a backfill of today overlaps an execution | **violated**: a call is counted twice |
| `window_cover` | overlapping executions of any duration, stale copies, two frequencies, a midnight, missing accounts, crashes | a call of today that is never asked for is in `cut`, `overrun` or `unasked` |
| `health_view` | two refreshes, pushes, checks and a filling request, every fault | bounded staleness, refreshes reach the readers, only pushes store an availability of their own |
| `metrics_day` | three calls of nine kinds in every split into batches, ending calls, repairs | the figures of the row are those of its calls |
| `backfill_repairs` | two single backfills and a bulk run on one day whose calls go on, an array that names the date three times, every fault | the report adds up, done is current, every repair ends |
| `onboarding_requests` | an account with two numbers, one written in two forms; two requests at once, changes of priority, refreshes, every fault | every exophone has its jobs once and in its priority; the count of exophones is right again and again |

The violated run is a finding; `PROJECT.json` quotes the sentence of the
repository that it contradicts. Three more places where the code does not do what a
comment or another part of it says are not excluded from the runs: `NothingSkipped`,
`OnlyPushesDisagree` and `DashboardAgreesAtRest` name them and say that there is no
other case (see the known limits in section 4).

### Bounds, and why they are enough

* **Two polls, two goroutines, a pool of one** (`scheduler_pool`). The races of the
  pool are between two Submits, or a Submit and a release; the second goroutine
  id lets one be between `<-p.sem` and `wg.Done` while another holds the slot.
  One job is enough for two copies of it. `PoolAccounting` is proved for any number.
* **`MaxOverdue` 0.** Lateness only orders jobs of equal priority; the runs
  use one priority, so every order of equally late jobs is allowed.
* **`MaxLives`** 1 in `scheduler_pool` and 2 in `scheduler_live`: the first ends
  its life by a crash or by the drain, the second reboots after its
  drain and finds the rows the first left.
* **`MaxRetries` 3**: the shipped default. Four answers are enough for every
  mixture of an error worth a retry and one that is not at each position.
* **Two or three calls, two executions, one repair.** A double count needs one
  call and two writers; a split batch needs two calls; the third one makes a
  batch that is partly old and partly new. At-most-once is proved for any number.
* **`MaxCount`** keeps the rows finite when Redis fails and calls are counted
  again; it bounds how often, not where, Redis fails.
* **`Day` 4, `Horizon` 5, frequencies 1 and 3, `Lookback` 2** (`window_cover`): a
  midnight with executions on both sides of it, and a lookback of the higher
  frequency that is shorter than one period of the lower, as 4 times 10 minutes is
  shorter than the 120 of `scripts/init.sql`. Each of the three histories is needed:
  without any one of them TLC finds a counterexample. The theorem has no such bounds.
* **`TTL` 2, `Patience` 1, two refreshes, one request** (`health_view`): a request
  can hold its copy over a tick and over an upsert with its deletion, two
  refreshes can finish in the reverse order, and a copy can expire while stale.
  The theorems hold for every `TTL`, `Patience` and number of goroutines.
* **Three calls, nine records, two hours, `RateMax` 150** (`metrics_day`): a panel
  call with both legs and one more call of any kind, in any split; 150 instead
  of 999 lets three calls reach the limit that takes ten in the database.
* **One exophone, one date, three tasks, two single backfills, two workers,
  `MaxVersion` 2** (`backfill_repairs`): days are independent of each other but for
  the counters, and three tasks of one day are the worst case for both. The code
  starts three workers; a report is one step under `bulk.mu`, so two of them show
  its interleavings. Two versions tell an answer from a newer one.
* **Two numbers, three forms, two priorities, two requests**
  (`onboarding_requests`): two requests for one number race at its unique key, a
  sync still has another number to do, and one number is listed in a form that is
  not canonical. The theorems hold for any number of each.

Deadlock checking is off where the system may stop: the scheduler after its last
life, an execution that has ended.

### Fairness

`JobScheduler!FairSpec`: time passes, cron fires, goroutines are scheduled and
their calls return; the drain sequence of main goes on. `Acquire` is
strongly fair because a Go channel wakes its blocked senders in order of
arrival. `Spawn` is strongly fair only because the model has finitely many
goroutine ids: a `go` statement never blocks. No fairness is assumed of
requests, the signal or faults. `CallPipeline!FairSpec` and `JobAttempt!FairSpec`
assume that a goroutine that has started goes on; they assume neither that
executions start nor that calls happen. `Backfill!FairSpec` assumes the same of the
goroutines of repairs (weak fairness). That a call returns is ensured by the client
timeouts of the vendor (`exotel.timeout_seconds`) and of Slack (10 s). The database
has none: the DSN (`database/mysql.go:21`) sets no `timeout`, `readTimeout` or
`writeTimeout`, so that a statement returns rests on the server answering or TCP
giving the connection up, and the liveness properties hold as long as it does. In
`Onboarding!FairSpec` requests go on, cron fires again and again (`CountExophones`,
strongly fair, since an account may be waiting for its last write), and a count
that was read is written at some refresh (strongly fair: the database does not
fail at every one of them for ever). `HealthSnapshot`, `CallMetrics` and
`CallsWindow` claim safety only.

## 4. Properties

**Scheduler.** `PoolAccounting`: tokens in the semaphore are the holders and the
Submits between acquiring and spawning, the wait group counts the living
goroutines. `NoAddDuringWait`: no `wg.Add` once main waits.
`NoOrphanWithoutFault`: without a panic, database failure or crash no RUNNING row
is left for good. `RescheduledAfterOutcome`: until the database first fails, `next_run_at`
moves forward only for an execution whose row is final. `DueJobRuns`, `ShutdownCompletes`,
`PausedQuiesces` are the liveness properties.

**One execution.** `NoFutileCall`: after an answer that no retry can mend the
vendor is not called again. `OneLateCall`: at most one call after the deadline
(the timer and the deadline may be ready together, so zero cannot be had).
`AlertNamesTheFailure`: RETRY_EXHAUSTED only if no retry was left or the deadline
cut it off, API_FAILURE only if one was left. `FailureIsAlerted`,
`OutageIsAlerted`: nothing is on record as failed or not OK before its alerts.
`ExecutionEnds`.

**Counting.** `CountedAtMostOnce`; `ImplementsLedger`; `NothingLostAtRest`: what a
reprocess would rebuild is in the row; `DashboardAgreesAtRest`: the
dashboard is that of the rows, or, in an account where some exophone writes call logs,
leaves out calls only of exophones whose calls are not all logged, and overcounts none;
`RegisteredIsCounted`.

**Window.** `NothingSkipped`: what lies before `last_run_at` less the overlap,
and will therefore not be asked for again, was asked for, or is in one of the three
histories. The comment at `job_worker.go:335` promises this of boundary calls
without the history `overrun`, which does not hold.

**Health.** `BoundedStaleness`: no copy outlives the replacement of its row by more
than the TTL and the time one request takes, whatever deletions are lost or
overtaken. `RefreshReachesReaders`: a copy that is not the row is about to be
deleted, with the two exceptions the code has: a fill that came late, and a last
writer that deletes nothing. `OnlyPushesDisagree`: the refresh and the
manual check store a status with the availability of `heartbeatToAvailability`; a push
departs from it in one way, DEGRADED with nothing available.

**Metrics.** `WholeDay`: counts, hours, breakdown and peak hour are those of one pass
over the records that went in. `ConnectedIsReached`: the sentence of `engine.go`, for
days on which no batch tears the legs of a panel call apart or mixes panel calls
with others; a batch that does makes `connected_calls` differ.
`AvgWithinRounding`: half a hundredth of a second per batch.
`RefusedOnlyWithCustomerLegs`: the rates of a day without customer legs never exceed
100, so the database takes each of its batches. On other days a rate may exceed
999.99 (ten bridged inbound calls and one customer leg), the upsert fails, its
error is discarded, and the SIDs of the batch stay registered.

**Repairs.** `ReportAddsUp`: the counters are those of the results, every task is
waiting, in one worker's hands or reported, and a run that is over has reported
all of them; a run that was called off keeps the total of the one before.
`DoneIsCurrent`: a single backfill reported as done has left a row with all calls
that had ended when it was requested, and no later one takes them back; the
exception is a bulk task on the same day meanwhile, whose later write may be
the older answer. `RepairsEnd`: no guard stays taken, whatever fails.

**Onboarding.** `Monitored`: an exophone that no sync is at work on has one job of
each kind, unless a statement of its sync failed or the process ended during it; its
jobs have its priority, unless that changed while they were made; no job is
without an exophone. `TotalsCatchUp`: the dashboard's count of exophones recovers
from a refresh that could not read it and from a count that was outdated when
written.

### Known limits of the code that no property hides

* In an account where some exophones
  write call logs and others do not, an execution of the former recomputes the
  dashboard from `call_logs` and leaves the latter out until the next execution of
  theirs (`job_worker.go:500`), which the comment above that line means to avoid;
  `DashboardAgreesAtRest` bounds the undercount. With
  `scheduler.skip_call_logs_write`, which the shipped configuration sets, nobody
  writes them. `DashboardAgreesAtRest` is not claimed across a change of the flags.
* `last_run_at` is the end of an execution, its window ended at the start: an
  execution that lasts more than a minute loses the calls in between (`overrun` in
  `NothingSkipped`), against the comment at `job_worker.go:335`, "The 1-minute overlap
  ensures boundary calls aren't missed". After a change from P3 to P0 the lookback of 40
  minutes does not
  reach a `last_run_at` of two hours ago.
* A push that names a number without connectivity data, or with both directions
  down under a type that is not CRITICAL, stores DEGRADED with 0 percent
  (`webhook.go:146`), where the refresh (`generator.go:190`) and the manual check
  (`heartbeat.go:70`) give it 50: the exception in `OnlyPushesDisagree`.
* A bulk task discards the error of its upsert (`backfill.go:521`) and is reported as
  done. A batch that the database refuses for its rate is lost until a repair.
* `NothingSkipped` says that a call was asked for, not that the answer came:
  `AdvanceNextRun` moves `last_run_at`
  after a failed execution too, and the window is not asked for again.
* A day without calls cannot be written: its breakdown is an empty text, which the
  JSON column refuses (`backfill.go:232`). The models refuse it as the database
  does.
* The refresh of a health row takes the latest heartbeat of the account
  (`generator.go:33`), though `OPS_RUNBOOK.md:198` speaks of a reading per
  exophone.
* When the number of an exophone cannot be looked up, the calls of the whole
  account are counted for it (`job_worker.go:359`).
* The comment at `backfill.go:314` says that a bulk run does one pair at a time;
  three workers do them. Since single and bulk repairs do not ask each other,
  the older answer may be written last.
* A sync that fails or is interrupted between its inserts leaves an exophone
  without some of its jobs for good: the next sync takes it for existing, and
  `AddExophone` answers 409 (`accounts.go:433`).
* The keys of the vendor's list are not normalised, although a comment in
  `accounts.go` calls them canonical: a number the vendor writes in another
  form is rejected by `CreateAccount`, and every sync tries to insert it again.
* A sync makes jobs in P1. A priority that was changed between two of its inserts
  reaches only the jobs made before (`accounts.go:473`).
* The hourly refresh writes zero exophones when its query fails, and its day is
  that of UTC.
* A push of the vendor that is delivered twice is stored twice (`webhook.go:111`),
  and the bounds of a fetch are formatted in the zone of the bound that won
  (`calls.go:34`): on a host in UTC they may differ. When the deadline has passed
  during a fetch, the Redis commands after it run with a context that is over
  (`job_worker.go:502`); the models have this as a failing Redis.

## 5. Theorems

| Theorem | Statement | Assumptions beyond the constants' types |
|---|---|---|
| `TypeCorrect` | types of `JobScheduler` | none |
| `PoolAccountingHolds` | `Spec => []PoolAccounting` | none: all faults allowed |
| `NoAddDuringWaitHolds` | `Spec => NoAddDuringWait` | none |
| `SchedulerImplementsExecutor` | `Spec => ImplementsExecutor` | none |
| `NoOrphanHolds` | `Spec => []NoOrphanWithoutFault` | none |
| `RescheduledAfterOutcomeHolds` | `Spec => RescheduledAfterOutcome`, up to the first failure of the database | none |
| `DrainRunsOut` | `Spec => [](`the sets are finite`) /\ []DrainGoesOn /\ [][DrainNearer]_vars` | finitely many jobs |
| `PausedRunsOut` | `Spec => [][PausedNearer]_vars` | none |
| `NoFutileCallHolds`, `OneLateCallHolds`, `AlertNamesTheFailureHolds` | the retry loop | none: any `MaxRetries` |
| `AttemptTypeCorrect` | types of `JobAttempt` | none |
| `ExecutionRunsOut` | `Spec => [](Remaining \in 0 .. 3 * MaxRetries + 23) /\ []GoesOn /\ [][Remaining' < Remaining]_vars` | none |
| `FailureIsAlertedHolds`, `OutageIsAlertedHolds` | `Spec => []FailureIsAlerted`, `Spec => []OutageIsAlerted` | none |
| `PipelineTypeCorrect` | types of `CallPipeline` | none |
| `CountedAtMostOnceHolds` | `Spec => []CountedAtMostOnce` | `Calm`: Redis answers; repairs take turns and the process does not crash during one, or there are none |
| `NothingLostHolds` | `Spec => []NothingLostAtRest` | `Orderly`: only Redis fails, executions and repairs of an exophone take turns |
| `RegisteredIsKeptHolds` | `Spec => []RegisteredIsKept` | `Orderly` |
| `DashboardAgreesHolds` | `Spec => []DashboardAgreesAtRest` | `Orderly`, and no flag is changed |
| `ExecutionsRunOut` | `Spec => []NeverStuck /\ [][Nearer]_vars` | finitely many calls |
| `PipelineImplementsLedger` | `Spec => ImplementsLedger` | `Alone`: Redis answers, executions of an exophone take turns, no repairs |
| `BatchesShareTheirFate` | `Spec => [][BatchTogether /\ StagesAdvance]_vars` | `Alone` |
| `WindowTypeCorrect` | types of `CallsWindow` | none |
| `NothingSkippedHolds` | `Spec => []NothingSkipped` | none: any duration, any frequencies |
| `HealthTypeCorrect` | types of `HealthSnapshot` | none |
| `BoundedStalenessHolds` | `Spec => []BoundedStaleness` | none: all faults allowed |
| `RefreshReachesReadersHolds` | `Spec => []RefreshReachesReaders` | none |
| `OnlyPushesDisagreeHolds` | `Spec => OnlyPushesDisagree` | none: all faults allowed |
| `ClassificationsAgree` | the three classifications of an answer with both directions come to the same status and availability | none |
| `MetricsTypeCorrect` | types of `CallMetrics` | none |
| `WholeDayHolds` | `Spec => []WholeDay` | none |
| `ConnectedIsReachedHolds` | `Spec => []ConnectedIsReached` | none |
| `RefusedOnlyWithCustomerLegsHolds` | `Spec => []RefusedOnlyWithCustomerLegs` | `RateMax >= 100` |
| `AvgWithinRoundingHolds` | `Spec => []AvgWithinRounding` | none |
| `BackfillTypeCorrect` | types of `Backfill` | none: all faults allowed |
| `ReportAddsUpHolds` | `Spec => []ReportAddsUp` | none |
| `DoneIsCurrentHolds` | `Spec => []DoneIsCurrent` | none |
| `RefusalsHaveCauseHolds` | `Spec => []RefusalsHaveCause` | none: all faults allowed |
| `RepairsRunOut` | `Spec => [][RepairsNearer]_vars` | none: all faults allowed |
| `OnboardingTypeCorrect` | types of `Onboarding` | none: all faults allowed |
| `MonitoredHolds` | `Spec => []Monitored` | none |

**Pool.** `PoolAccounting` alone is not inductive: after the end of the process
the counters are zero, so no goroutine may be left, and `wg.Add` must not happen
while main waits. `Quiet` adds both: from "waiting" on no poll is in flight, and
after the exit every goroutine is gone. The refinement maps `running` to the
holders of a slot; `Exit` maps to `Close` because a zero wait group means no
goroutine, hence no holder.

**Rows.** `RowInv` relates the position of a goroutine to its row: RUNNING
between `call` and `update`, ENDED from `advance` on, unless a fault occurred.

**Retries.** `RetryInv`: inside the loop every answer so far was retryable and
at most `MaxRetries` were given; after a late call the loop is not in a position
to call again. `AlertInv`: in the loop `retryCount` is the number of answers, and
everything still planned fits what happened (`Fitting`). `DebtInv` says what is
owed: a failure one of its two alerts, a heartbeat that is not OK those of `Owed`,
each raised or still planned; the reading is the last of its plan, so that when it
is stored nothing is owed any more.

**Counting.** `CountInv` has the key conjunct `HeldOnce`: a call that an
execution took and has not yet written is registered, has no other holder, and
is in no row, neither the stored one nor one another execution has read and is
about to write back. `TurnsTaken` and `Covered` deal with repairs, which write
first and register afterwards. `Calm` excludes exactly what makes it false:
Redis failing open, and a repair that overlaps an execution or is cut off
between its write and its registration. `KeptInv` is the converse for
`NothingLostAtRest`: every call of the stored pages is in the row, or fresh (or
about to be) in the one execution at work, or about to be written by the one
repair, which knows all calls of the pages because those of its fetch include
them (`PagesInv`). `DashboardInv` adds that whoever has written a row or call logs owes
the dashboard, and that an execution knows the flag of its exophone.

**Ledger.** The stage of a call is read off the row, the set of SIDs and what the
executions hold (`StageFits`); with `CountInv` the three exclude each other as they
must. `TurnInv` says that one execution works on an exophone and that the row it
writes is the stored one, or an empty one when the database could not be read: the
upsert is then `Settle` or `Wipe`, a failed upsert and a crash are `Lose`, a new SID is
`Take`, and every other step stutters.

**Window.** `WindowInv`: a copy taken before another execution ended has a due
time up to which everything is known, asked for or in one of the histories
(`CopyInv`), so what a window leaves out with a stale `last_run_at` is too old for
it or was known before (`OpenInv`). When the execution ends, the window, what it left
out and the time since add up to everything before the new `last_run_at` less the
overlap (`RowKnown`, which is `NothingSkipped` without the interval).

**Health.** The bound on staleness is not inductive: it must be split into what a
copy has aged in the hands of a request and what it has left in Redis
(`AgeInv`: `stale + left <= TTL + Patience`, and a request's copy is no staler than
the time it was held). What a refresh writes
depends on the row it has on its way (`NewRowsAgree`).

**Metrics.** `Whole(r, b)` says that a row has the figures of a batch; `PlusWhole` that
adding a disjoint batch to such a row gives the figures of the union, from the
cardinality of disjoint unions. The total duration is a fold over a set; that it is
a natural number, that the sums of disjoint sets add up (`SumUnion`) and the bound
of half a hundredth of a second for each rounding (`RoundedFacts`, `PlusWithin`) are
proved from a minimal counterexample in the well-founded order of the subsets of a
finite set. Connected calls need the case split of `Paired`, by
whether the batch has customer legs. `RateInv` adds to the refusals that a row
without customer legs has as many connected as bridged calls, so that each
quotient is at most one (`RateFits`).

**Repairs.** `ReportAddsUp` is strengthened by `BulkInv`: tasks exist only while a
run that was announced is going, no two workers have the same one, and the report
is empty until the channel is filled; the counters move by one with the
cardinality of the results. `DayInv` carries `DoneIsCurrent`: one goroutine has
the entry of a day, what it has fetched is not older than the request, and
without an overlap a bulk task that is about to write has fetched after the last
request too.

**Onboarding.** `Monitored` is not inductive while a sync is half way. `MakingInv`
says what half way is: one request makes the jobs of an exophone, they are there
up to its counter and in order, and the exophone is still in P1 unless its
priority was changed. `AccountInv` keeps `CreateAccount` from meeting requests.
All conjuncts speak of one number, so the proof treats a step number by number
(`MonitoredNumber`, `MakingNumber`).

**Running out of steps.** Liveness itself is out of reach, but what the code
contributes to it is not: a bound on the steps each goroutine can take, and a next
step as long as it has not ended. What remains for fairness is that the Go
scheduler runs a goroutine that can go on.

* What main waits for after the signal is the pair of `Copies`, the jobs still to be
  handed out, and, for the same `Copies`, of `Submitting` and `Undone`, the Submits
  that wait for a slot and the steps left of the goroutines. `DrainNearer`: each step
  makes one of these finite sets smaller and leaves those before it alone, and once
  cron is stopped no request, refresh or tick adds to any. `DrainGoesOn`: a list has a
  first job (`ListInv`, and the least of a set of numbers, `LeastNat`), a full pool
  a holder or a Submit about to make one, and a wait group that is not zero a goroutine. `ShutdownCompletes`
  then needs only that goroutines are scheduled and a free slot goes to a Submit.
  `PausedNearer` says the same of one exophone while its flag is off: its part of
  these sets does not grow whatever else happens, which is what `PausedQuiesces`
  rests on.
* `Remaining` counts for an execution the steps of the retry loop, of the alerts
  still planned and of the statements after them. It needs `PlanInv`: no alert is
  planned twice and there are at most six. With it `ExecutionEnds` needs no more than
  that the goroutine is scheduled.
* `RunRank` and `RepairRank` count the SIDs an execution or a repair has still to
  register and the statements after them; no step of another one, and no failure of
  Redis, adds to them. `NeverStuck` says that whoever registers SIDs has one left.
  `RegisteredIsKept` is the rest of `RegisteredIsCounted`: in every state, not only
  at rest, a SID in the set stands for a call that is in the row or in the hands of
  the execution or repair that is going to write it.
* `SingleRank` and `BulkRank` do the same for repairs. While the tasks are done,
  `BulkRank` counts the set `ToDo` of tasks with the steps each has left, which shrinks with every step of
  a worker because no two have the same task. `RefusalsHaveCause` (from `EntryInv` and
  `BulkInv`) adds that whoever is refused with 409 waits for a goroutine that is there.

`BatchesShareTheirFate` says what the refinement of `CallLedger` means for the
pipeline: a step of the ledger moves a whole batch of taken calls to counted or to
lost, and the pipeline's steps are steps of the ledger on the mapped stages.

Not proved, and checked by TLC only: the liveness properties `DueJobRuns`,
`ShutdownCompletes`, `PausedQuiesces`, `RegisteredIsCounted`, `ExecutionEnds`,
`RepairsEnd` and `TotalsCatchUp`, since fairness and ENABLED are out of the prover's
reach. The induction theorems of the library take an operator as a parameter, which
no installed prover instantiates; where an induction over data is needed (the sums
of `CallMetrics`) it is done from a minimal element instead, and no module of the
project declares a RECURSIVE operator.

## 6. Not modelled, and the plan

The modules were written in this order, the most important behaviour first, and
each is checked and proved as section 5 says: `JobScheduler` with
`BoundedExecutor`, `CallPipeline` with `CallLedger`, `JobAttempt`, `CallsWindow`,
`HealthSnapshot`, `CallMetrics`, `Backfill`, `Onboarding` with the hourly count
of exophones.

Not modelled:

* *Acknowledging alerts* (`handlers/alerts.go`): one UPDATE and the deletion of a
  cached list. The list, the dashboard and the metrics are cached with the
  steps of a miss that `HealthSnapshot` models for the health row, and the same
  bound on staleness comes from their TTL.
* *Recomputing leg statuses* (`cmd/refresh-leg-status`): a command run by hand on
  stored rows, one after the other. `RecomputeCallMetricsForDate`, a second
  classification written in SQL, has no other caller.
* *The daily cleanup*: it deletes old rows nothing else refers to.
* *Routing, middleware, configuration, logging, encryption and read-only queries*:
  no state that changes by itself. The formatting of CSV and of alert messages.
* *The vendor and Slack themselves*: their answers are inputs. *The frontend*: it
  polls the read handlers and keeps no state the backend depends on.

Every safety property a passing run checks is proved.
