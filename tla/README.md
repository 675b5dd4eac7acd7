# Behavior Analytics for IBM QRadar: TLA+ models and proofs

The program watches a QRadar deployment. A FastAPI application serves the
dashboard and the operators' requests; Celery workers (four processes per
container, `task_acks_late`) run the periodic tasks that `beat` sends; PostgreSQL
with TimescaleDB holds all state that outlives a task; a Next.js frontend shows
it. Ariel, QRadar's search engine, is a scarce shared resource: every search of
every process goes through a budget kept in PostgreSQL advisory locks.

There is no in-process concurrency worth the name. What is hard is between
processes: tasks that outlive their beat interval and overlap the next one,
advisory locks that vanish with their connection, decisions taken on rows read
without a lock, one long transaction over many items, a worker that dies between
two commits. The models keep all of that and abstract the data.

## 1. Inventory

| Component | State | Operations | Hard behaviour | What makes it correct |
|---|---|---|---|---|
| Ariel permit budget (`services/ariel_permit.py`) | advisory locks per console range and global, the sessions that hold them | `permit`, `_acquire`, `_try_pool`, `_release_all` | slot-by-slot scans of several processes, wait with a deadline, sessions cut, cancelled, invalidated | ceilings, live reserve, no leaked slot, bounded wait |
| Scheduled searches (`services/search_scheduler.py`, `search_executor.py`, `alerts/search_alerts.py`) | `scheduled_search`, `search_execution`, the cycle lock | a cycle: list, claim, execute with retries, record, defer; manual run of the API | overlap after a lost lock, stale `now`, crash between claim and record | a tick runs once, missed ticks coalesce, nothing starves or is retired, alert = streak |
| Alerts (`alerts/service.py`) | `alert`, partial unique index on the active ones | `open_or_update`, `acknowledge`, `resolve`, `resolve_by_fingerprint`, `apply_bulk` | READ COMMITTED reads decide writes; insert race | one active alert per condition, one notification per transition |
| Notifications (`alerts/dispatcher.py`) | `alert_notification` | `enqueue`, `dispatch_due`, retry, dead letter | overlapping tasks, one commit at the end, lost responses | bounded sends, everything settles |
| Anomaly engine (`anomaly/engine.py`, `lifecycle.py`, `faults.py`) | watermark, detector row, incidents, faults | `evaluate_pending` over buckets in savepoints | one transaction over many buckets, overlapping passes, poison buckets | open and resolved as the verdicts say, no bucket skipped, catches up |
| Search cadence and metric collection (`services/search_cadence.py`, `collectors/metric_collector.py`) | slot per family, watermark and rows per console, the console's advisory lock | `claim_slot`, `set_cadence`, `collect` | conditional UPDATE against a changed cadence, lock given back before the commit, windows cut by the search cap | a slot runs once, no hole in the stored buckets, every console catches up |
| History backfill (`history/`, `services/history_backfill.py`, the collector's history phase) | decision, scope row with progress, floors and rebuilds, history rows | decide, stop, start; create, step, settle, finish, restart | minutes between a tick's reads and its writes, adaptive windows, stop racing start, time limit | nothing passed unread and unrecorded, no floor forgotten, readings end |
| Profiles and their validation (WAF, IPS) | profile version, stamp, pending request, messages, source lock | edit, request, validate with retries and requeues, enable, run | version changed during the validation, busy lock, lost or repeated messages, a command line without locks | a version counts as validated only on what was tested; requests are answered |
| Custom rules (`custom_rules/`) | counters on the rule, breach rows, one watermark per kind, the page | evaluate a tick, edit, delete, retire | no lock between ticks, many buckets in one tick, edits under a tick in flight | breach = what the verdicts say, pages end, watermark catches up |
| Other collectors, IPS and WAF engines, property watches | buckets, baselines, values | collect, judge, train, admit | like the collector and the anomaly engine | not modelled, see section 7 |
| Outage policy, fleet classification | policy rows per scope | precedence, edits | edits while a pass runs | the most specific scope wins |
| Login, retention, providers, notifiers, CLI, frontend | - | I/O, deletes by age, rendering | - | not modelled, see section 7 |

How they interact: the scheduler, the collectors and the backfill call `permit`
around every Ariel search; the scheduler's record, the anomaly pass and the
custom rules call the alert service inside their own transaction (and
`open_or_update` may roll that transaction back); the alert service queues
notification rows that the dispatch task sends; an anomaly pass reads what the
collectors wrote. The composition is therefore through tables, and each module
takes its neighbours' effects as actions: `Arrive` in `AnomalyEngine` is a
collector, `ReadActive` in `AlertLifecycle` any caller, `Enqueue` in
`NotificationDispatch` the alert service, `Collect` in `CustomRules` a collector.
`SourceProfile` composes the routes, the command line, the task and the pipeline
run, which share a row and a lock; `MetricCollection` composes the cadence, the
lock and the collector; `HistoryBackfill` composes the planner (`HistoryPlanner`)
with the lifecycle, the adapter and the decision.

## 2. Modules

| Module | Models | Proofs |
|---|---|---|
| `ArielPermit` | the permit budget and PostgreSQL's lock table and sessions | `ArielPermitProofs` |
| `SearchScheduler` | the cycle, the executor, the search alerts, the manual run | `SearchSchedulerProofs` |
| `AlertLifecycle` | alert rows and the intent to notify | `AlertingProofs` |
| `NotificationDispatch` | delivery of queued rows | `AlertingProofs` |
| `AnomalyEngine` | judging the buckets of one source with one detector | `AnomalyEngineProofs` |
| `MetricCollection` | `collect_metrics`: slot, console lock, watermarked pass | `MetricCollectionProofs` |
| `HistoryPlanner` | the pure planner: widths, spans, settling a step, gaps, verdict | `HistoryBackfillProofs` |
| `HistoryBackfill` | the Phase A reading of one console | `HistoryBackfillProofs` |
| `WindowReading` | what a history reading promises; `HistoryBackfill` implements it | `HistoryBackfillProofs` |
| `SourceProfile` | a WAF profile, its validation and a run's decision to collect | `SourceProfileProofs` |
| `CustomRules` | one custom rule, its breaches and page, and its kind's watermark | `CustomRulesProofs` |

`MC<Module>` declares the model values of the instances, and every `.cfg` is one
instance. Definitions headed `MUTANT` are plausible bugs: each stands before the
definition it would replace, is used by nothing, and shows that the property
named with it in `PROJECT.json` can fail.

### ArielPermit

One search is one pass through `permit()`: `Connect` (pool checkout and the
start of the clock), `TryInstance` and `TryGlobal` (one `pg_try_advisory_lock`
round trip each, at a random offset of the pool), `Wait` (the deadline test and
the sleep, which keeps an instance slot), then the caller's block (`EndSearch`,
`EndRefused`), and `Unlock` or `Invalidate`. `Abort`, `Cancel` and `Crash` are
the error paths; `ServerReap`, `ServerDrop` and `Discard` belong to PostgreSQL
and the pool. A session is `closed`, `idle` in the pool, `used`, `closing` (the
client is gone, the server has not noticed and still holds its locks) or `lost`
(the server ended it, the client has not noticed). Consoles whose ids hash to
one range share it, which is what `Console` says. "Running" means a search whose
session the server still knows: a search on a cut session goes on without
holding anything, and the code has no way to stop it.

### SearchScheduler

Time is a counter and a cron is a period. `StartCycle` takes the advisory lock
and reads the cycle's `now` and the list (most overdue first, unscheduled ones
before); `Process` is the claim transaction (claim, seed or pass over);
`Execute`, `Finish` are the executor's committed progress and its attempts;
`RecordReads` and `Record` are the record transaction: it reads
`consecutive_failures` without a lock, and counts, evaluates both alert conditions
and commits later, so the records of two runs of one search may interleave.
`EndCycle` unlocks what it still holds. `Toggle` and `ResolveAlert` are the operator. `SkipLocked`, `RecordFails`, `Crash`, `LoseLock`
are the faults. `ManualStart` and `ManualEnd` are the API's run: a single
transaction, so its execution row is invisible until it is over and is not in
`rows`; it evaluates the alerts on the counter it read at the beginning. `job`
holds what a worker or a request keeps in memory. Ghosts: `streak` (recorded
failures in a row), `dismissed` (an operator resolved the alert since it was
raised), `contended` (runs of the search met, or one was manual, since the last
success recorded undisturbed).

### AlertLifecycle

A transaction is two steps, what a session read and what it then wrote, because
no caller locks a row before it decides. The partial unique index decides
inserts and revivals. Refreshes (`occurrence_count`, evidence) move no status.

### NotificationDispatch

`Select` reads a batch, `Attempt` sends one row, `Commit` writes the batch. A
send may succeed, fail, fail for good, or fail after the message was delivered.
The ORM writes only columns that changed (`Written`), so a task that loaded
`FAILED` and fails again does not bring back a row another task has parked, but
one that loaded `PENDING` does. `due` is the order of `next_attempt_at`.

### AnomalyEngine

A pass reads the watermark and the pending buckets (`Load`), then the detector
row (`ReadState`), judges bucket by bucket in memory (`Judge`, `JudgeFails`,
`RecordFails`) and commits once. Its first write locks the source's rows until
the commit; what it read before that may be stale, and it writes only the columns
it changed. `Advance`, `OnAnomalous`, `OnHealthy`, `NextState` are
`lifecycle.py`; `Transition` is `_apply_transition` with its effects on
incidents and alert. One source and one detector are enough, because detectors
share only the watermark and sources share nothing but the transaction. When
`Operator` is TRUE the detector is `NO_EVENTS`, the one `RECORD_ONLY` applies
to.

### MetricCollection

A task reads the cadence (`ReadCadence`), claims the slot by the conditional
UPDATE (`Claim`), then visits the consoles: `TakeTime` (the boundary, before the
lock), `TryLock`, `Read` (watermark and intervals), `Insert` (a first watermark; `Unique` is the constraint that refuses
a second), `Search` (the window with its splits and cap; what is kept is a
prefix), `Write`, `Unlock`, `Commit`. The advisory lock is given back before the
commit, and the watermark row is locked from the first write on (`writer`).
`SearchFails`, `StatementFails`, `Rollback` and `Crash` are the failures; a
statement that failed also makes the unlock fail, and the lock stays until
`_for_each_instance` and the task dispose of the connection. Time is relative to
now, so that the model is finite while slots go on for ever.

### HistoryPlanner, HistoryBackfill, WindowReading

`HistoryPlanner` is `history/planner.py` as operators: `ChunkWidth`, `StepSpan`,
`StepResults` (the answers a step may get: complete, truncated, failed, not run),
`SettleStep` with `Passed`, `BecomesGap`, `OutOfGaps` and `WidthAfterStep`, and
`FinishVerdict`. Recursion is a recursive function (`Pieces`).

`HistoryBackfill` is the console's scope. Administrators `Decide`,
`RequestStart`, `RequestStop`; `SetMonitoring` adds a source; `Redeploy` flips
the switch; `HourPasses` is the clock of the time limit. A tick is `TickStarts`
(its time, before the live pass), `Begin` (what it reads after it) and one
`Tick...` action (what it writes, minutes later, on those reads): creating,
waking, stopping, restarting the scope, refusing a reading that has no source or
no window that fits (`TickRefused`), or one step of the reading. The first step of
a reading plans its window, so a restart may start elsewhere than the reading
before it (`Starts`); the anchor, where every window ends, stays. Time stamps are kept as the orders the code compares. The adapter's
floors, the sources a top-up asks for and the rebuilds owed are in the row, as
in the code. Rows are sets of buckets by source, and `baseline` is what a
source's baseline was last rebuilt from.

`WindowReading` is the promise: a window is read in one pass from its start, a
step stores rows only of the sources it is for and only where the frontier
passes, a skipped bucket is recorded, and "complete" is said only at the end
with nothing skipped or for a reading that was for nobody. `Implements` states
that every step of `HistoryBackfill` is a step of it or changes nothing of it.

### SourceProfile

A PUT locks the log source's row first (`PutLoads`, `PutSaves`); a request
commits and then sends (`RequestValidation`); a validation task reads the
profile, meets the source's advisory lock (`Receive`), spends its remote checks
and re-reads the row under a lock before it stamps (`Store`, `Current`,
`StaleRequeued`), or is refused the lock and sends itself again (`Locked`). The
command line loads and stores without a lock (`CliSet`, `CliValidate`,
`CliEnable`). The ORM's UPDATE names only the columns that differ from what was
loaded (`Flushed`). A pipeline run loads the profile and decides (`RunLoads`), tries
the lock (`RunTriesLock`) and gives it back before its commit (`RunUnlocks`).
Ghosts: `passed` (what tested VALID), `strayed` (a run collected on something
else), `raced` (a session wrote over a version it had not loaded).

### CustomRules

A tick reads rule and breach (`LoadRules`), the watermark (`LoadWatermarks`) and
the buckets (`LoadMetrics`) in three statements, folds them in memory (`Judge`,
`Consume`) and writes once (`Write`). What a bucket proves is chosen when it is
judged, because rows are stored again until they are complete and maintenance is
read live. Closed time is abstracted into `top`, the last stored bucket; only
the seed of a watermark is the clock's, and may lie past it (`Seeds`). The
fold is pure, so no other step is taken inside it; the write is one step because
the rule row is locked first by every writer. A second rule of the same kind is
always enabled and keeps the watermark going. `UpdateRule`, `DeleteRule`,
`DeleteSubject`, `RetireSubject`, `ResolveAlert`, `Restart` and `Die` are what
happens around a tick; of a rule deleted under a tick, a batched UPDATE may or
may not report the missing row (`WriteDeleted`, `Abort`).

## 3. Runs

| Run | Instance | Checks | States |
|---|---|---|---|
| `permit` | a live and two background searches, one console range and a global-only budget, three sessions, two global slots, one reserved | `GlobalCeiling`, `ConsoleCeiling`, `LiveReserve`, `NoLeakedPermit`, `BoundedWait`, `SlotsReturn` | 351 000 |
| `scheduler_overlap` | a search that is toggled and whose alerts are resolved, one with a bad cron; two workers; clock to 3, timeout 1; one fault | `TickRunsOnce`, `OverlapOnlyWhenStale`, `BacklogCoalesces`, `FailureAlertMeansStreak` | 3.7 million |
| `scheduler_liveness` | two searches, one dispatch per cycle, every run refused capacity; a manual run beside it; one fault | `NoSearchRetired` | 395 000 |
| `alert_lifecycle` | one condition, three rows, three sessions, all operations | `OneActive`, `NeverReopened` | 24 714 |
| `dispatch` | two rows (one without a notifier), two tasks, three attempts, batch of one, one dead task | `OutcomeEarned`, `SendsBounded`, `EventuallySettled` | 48 473 |
| `anomaly_lifecycle` | one pass at a time, five buckets, maintenance, one fault | `IncidentEarned`, `AlertAgrees`, `NoStaleFault` | 4.4 million |
| `anomaly_overlap` | two passes, three buckets that may always raise, an operator | `NoBucketSkipped`, `CatchesUp` | 191 000 |
| `metric_collection` | two tasks, one console, four buckets, cadences 1 and 2, two searches per tick, one fault | `NoHole`, `SlotOnce`, `CaughtUp` | 1.3 million |
| `history_reading` | two sources, one joining when it likes; windows of three or two buckets, spans of at most two, two failures to a gap, one gap allowed | `ReadOrGap`, `RowsAboveFloor`, `WindowRead`, `RebuildOwed`, `Implements`, `ReadingEnds`, `StopTakesEffect`, `RestartServed` | 365 000 |
| `profile_validation` | two mappings, two versions, two tasks, one lock retry, one fault, routes, command line and a run | `NoStaleStamp`, `CollectsOnlyValidated`, `PendingHasTask`, `RequestSettles` | 731 000 |
| `custom_rules` | two ticks, one overlap, three buckets at two a tick, sustain 1, recovery 2, one event | `StateIsReplay`, `PagedIsLive`, `PageEnds`, `CatchesUp` | 523 000 |
| `custom_rules_lost` | one tick at a time, four buckets at three a tick, no events | `OneLiveBreach`, violated (section 6) | - |

Some properties are conjunctions of named parts: `IncidentEarned` of
`OpenIffUnresolved`, `OpenIsConfirmed`, `ResolvedIsEarned` and `OneIncident`,
`OutcomeEarned` of `TypeOK`, `AttemptsBounded` and `SentWasDelivered`. Where no run
lists `TypeOK`, the module's first safety invariant takes it in or a theorem proves
it.

Why the bounds are enough. `permit`: three searches are one more than any
ceiling in the instance, so every ceiling could be broken. `scheduler_overlap`:
a run claimed at 0 is presumed dead at 2 and a third tick is left for the run
that replaces it; one fault either cuts the lock or kills the worker, and the
mutants of all the properties are found within it. `scheduler_liveness`: a
crash at tick 0 becomes stale at the last tick; `NoSearchRetired` excuses only
what the end of the bounded clock cuts off. `alert_lifecycle`: three sessions
are a stale decision, the transaction that invalidates it and one that follows.
`dispatch`: two tasks are what makes a stale write; the batch of one makes the
rows compete. `SendsBounded` is the tight bound for 2 to 5 attempts and two
tasks (for one attempt it is 2, and the formula allows 3); what it says of more
tasks is a bound, not the least one.
`anomaly_lifecycle`: with thresholds of two, five buckets open, resolve and
begin again; two buckets per pass make a backlog. `anomaly_overlap`: three
buckets are the seed and a held one with a successor.
`metric_collection`: four buckets are a seed, a window that is split, and a
successor for a task that works from an old watermark; two searches are what a
window of two may need when it is truncated. `history_reading`: three buckets are
more than a span, so the reading of the whole window takes several steps, with a gap
before, at or after a floor; two starts make a restart that plans a longer or a
shorter window than the reading it takes over; the second source joins when it
likes, so it may join after a reading of the first, which makes the top-up. The
first is monitored throughout: a reading for no source writes what `TickRefused`
writes for a window that does not fit.
`profile_validation`: two versions are an edit during a validation, two tasks a
validation beside its requeue. `custom_rules`: three buckets with recovery 2 open,
recover and resolve across two ticks cut at two buckets; one event is enough for
each of the edits, restarts and deaths to fall at any point of two ticks.

`CHECK_DEADLOCK FALSE` is set where a bounded clock, a finite number of
notifications, versions or buckets ends the behaviour; the permit, alert, history
and collection instances never stop and are checked for deadlock.

## 4. Fairness

Only what the code or its scheduler guarantees is owed; faults, operators and
requests never are.

* Permit: a live process goes on (`pg_try_advisory_lock` never queues, a search
  ends at its poll limit) and PostgreSQL reaps sessions whose client is gone.
* Scheduler: time passes, beat sends `run_due_searches` every minute to some
  worker, and a worker that is not killed goes on.
* Dispatch: beat starts a task every 30 seconds, a backoff is finite, a notifier
  call returns or times out, a task that is not killed commits.
* Anomaly: a pass that does not die comes to its end, over buckets that raise as
  over those that do not, and beat starts another.
* Collection: time passes, beat sends `collect_metrics`, and a task's statements
  and searches return or time out; faults are bounded, so that "once they stop"
  means something.
* History: the beat keeps starting ticks, time passes, and of ticks that are started
  again and again one gets through its live pass and one through its history phase
  (strong fairness of `Begin` and `TickCompletes`: a deferral by the permit budget
  counts as completing).
* Profiles: a task's remote checks end or time out, and messages of every retry
  count are delivered in the end (strong fairness, since a worker slot comes and
  goes). Nothing is owed by a pipeline run: it may hold the source for ever.
* Custom rules: some tick goes on, and beat sends another. No fairness between
  two overlapping ticks is needed.

## 5. Proofs

All theorems hold for every value of the constants that the named assumptions
admit; the assumptions are the ranges the settings' validators enforce and that
the sets of names do not contain `None`.

**ArielPermit** (`GlobalCeilingHolds`, `LiveReserveHolds`, `ConsoleCeilingHolds`,
`NoLeakedPermitHolds`, `SessionsExclusiveHolds`). A ceiling says nothing of how it is kept, so it is not
inductive. The invariant ties three views together: what a search believes it
holds (`LocalInv`), what the lock table says (`HeldInv`, `LockInv`), and which
session belongs to whom (`SessionInv`, `UsedInv`). As long as a session lives,
the slot in a search's local variable is its session's in the table; sessions
are exclusive, so running searches have different slots, and the ceilings are
the pigeonhole principle (`CountBySlots`): running searches inject into the
slots, background ones into the slots from `FirstGlobal` up, those of a console
into its range. `NoLeakedPermit` follows from `LockInv` and `UsedInv`.

**SearchScheduler** (`TypeOKHolds`, `TickRunsOnceHolds`,
`OverlapOnlyWhenStaleHolds`, `BacklogCoalescesHolds`,
`FailureAlertMeansStreakHolds`). `TickRunsOnce` needs
`RunInv`: a worker on a run of tick t has `next_run_at > t`, because the claim
moved it in the same transaction and `next_fire_time` never goes back
(`NextFire`). A later claim takes `next_run_at` itself, hence another tick, with
or without the cycle lock. `cycle[w].sent < MaxDispatch` is there for the type
of the counter. The overlap and the backlog are read off the committed rows, and
need `RowInv`: `next_run_at` is past every run key that has a row and past the
`now` of the cycle that claimed it (`RowsBehind`), rows and cycles lie in the past
(`RowTimes`, `CycleTimes`), and the row of a run under way says so (`RunRow`). All
steps but the claim and the seed only finish runs and keep `next_run_at` (`Kept`),
so they share one proof. The failure alert follows the streak because, until runs of
a search meet, `consecutive_failures` is the streak, as is the count that a record
has read and not yet written (`StreakInv`). Once they meet nothing is said until a
success is recorded with no other run under way, which sets both to 0. The theorem has
a hypothesis, `Manuals = {}`: a failed manual run may raise the alert from a stale
count (section 6), which the run's instance leaves out for the same reason.

**AlertLifecycle** (`OneActiveHolds`, `NeverReopenedHolds`).
`TxnInv` says that what a session carries names an existing row of the condition
it works on. `NeverReopened` is an action property proved from the same
invariant. `AlertingProofs` extends `AlertLifecycle` and `NotificationDispatch`, the two
ends of the notification queue; so the first names its specification `AlertSpec`.

**SourceProfile** (`TypeOKHolds`, `NoStaleStampHolds`,
`CollectsOnlyValidatedHolds`, `PendingHasTaskHolds`). The invariant is `Consistent`: the types, and,
until a session has written over a version it had not loaded, `Unraced`. Its core
is that a version names its mapping: whoever holds a copy of the profile (a PUT, a
command, a task) holds a version that is not newer than the row's, and if it is
the row's own, the mapping is too (`Agrees`). A task that stamps has compared the
version under the lock, so what it tested is what the row has. The command line
compares nothing; for it the proof needs `StampedSince`: a status that changed
since it loaded the row came with a stamp of the current version. A run's decision
is kept by `RunPassed`, since `passed` only grows.

`PendingHasTask` has an invariant of its own, `PendingAnswerable`: until a fault, a
pending request has a message that is queued or a task that is busy with it.

**NotificationDispatch** (`OutcomeEarnedHolds`, `SendsBoundedHolds`). A row is
due only while it is unsettled, and once (`DueUnsettled`), so a task tries each row of
its batch once and from a state with an attempt left (`Held`). What it writes is its own outcome or,
when its status is the one it loaded, the count and the backoff of a failure beside
a status that another task earned. That one is never `PENDING`: no task holds a
`FAILED` copy of a row that was never tried (`Untried`).

`SendsBounded` does not follow from counts alone: a stale write sets `attempts` back,
and a stale failure of a copy that was loaded `PENDING` revives a row that is parked.
The invariant is a potential, the sends that a row is still good for.

For any number of tasks, every task has a claim on a row (`Claim`): `Chain` of the
attempts that were left at the smaller of the count it loaded and the row's count now,
less the send it has made. A count is only ever written above the one that was loaded,
so with k attempts left the claim of one task is one send of its own and, for every
task, the claims of k - 1: `Chain[k] = 1 + N * Chain[k - 1]`. A commit may raise the
claims of all tasks, those that load the row it wrote included, by no more than what its own
claim gives up (`BudgetStep`, `Respread`); the sends made and the claims left never
exceed N times `Chain[MaxAttempts]` (`Budget`). Claims are summed along an enumeration
of the tasks.

Two tasks, the case of passes that take less than two periods of the beat, get the
tight bound. For a row with a attempts whose copies were loaded with b and c, what is
left is `Owed(a, b, c)`: the attempts left from a, and `Runs` from the least of the
three, for each count may be written back once; for a settled row it is `Late` of each
copy. No step raises it above what the bound leaves (`Pair`): a commit that keeps the
row open lowers it (`OwedCommit`), and so do one that settles the row (`OwedSettles`)
and one that revives it (`OwedRevives`). `OwedCommit` needs that of two tasks that both
hold a row one has loaded it as it is; with three that is not so, and TLC finds more
sends than that bound, which is why the statement distinguishes the number of tasks.

**MetricCollection** (`NoHoleHolds`, `SlotOnceHolds`). The slot in the row is at
least as recent as that of every task that claimed one (`SlotsBehind`), and a claim
needs a more recent one. For the buckets, the watermark stands on a stored bucket
(`Anchored`) and the stored ones are an interval (`Unbroken`). A pass that saw a
watermark appends to a bucket that is stored, whatever happened to the watermark
since; one that saw none holds the row it inserted until it commits (`TasksSound`).
And `_search_window` completes a prefix of its window, however it is cut.

**HistoryBackfill** (`TypeOKHolds`, `ReadOrGapHolds`, `RowsAboveFloorHolds`,
`WindowReadHolds`, `RebuildOwedHolds`, `ImplementsHolds`). Every step either keeps
progress, floors and rows (`Kept`), or is one step of a reading that moves the
frontier past what it read and at most one gap (`StepDone`, from the lemmas on
`SettleStep`). On top come `Fresh` (no progress, no rows), `Frontier`,
`FloorsBehind`, `StillMonitored` and `Owed` (what is not listed for a rebuild will
be when the reading ends). The refinement of `WindowReading` goes by the same two
kinds of steps: the first are an `Ask`, a `GiveUp` or a stutter, the second is `Step`.

**AnomalyEngine** (`NoBucketSkippedHolds`, `NoStaleFaultHolds`, `AlertAgreesHolds`,
`IncidentEarnedHolds`). That no bucket is skipped holds for any passes that
overlap: the settled buckets are an interval, the watermark stands on it, and each
pass goes on right after a bucket that is settled for it, so a pass with a stale
watermark judges again but leaves nothing out (`PassSound`). The other three have
the hypothesis that passes do not overlap, and `AlertAgrees` that no operator acts;
section 6 says what two passes and `_refresh` do otherwise. Their invariants relate
what is committed with what the pass would commit: the folded buckets have no open
fault and none lies beyond the next bucket (`FInv`); alert and detector agree
(`AInv`); the counters count the verdicts in a row that end at the last judged
bucket, the state is what they have earned, and an active incident is the one the
detector names (`EInv`, of `Counts`, `Standing` and `Named`). All say that a column
the pass has not written is the committed one, since a commit writes dirty columns
only.

**CustomRules** (`StateIsReplayHolds`, `PagedIsLiveHolds`). `StateIsReplay` speaks of
the committed rows, while a tick folds verdicts in memory over several steps. The
invariant says of every memory, the stored one and that of a running tick, that it is
the replay of the verdicts that are stored and of those the tick has read since
(`Replays`): `breaching` and `under` count exactly the verdicts at the end, and there is
a live breach exactly when a run of `Sustain` opened one that no later run of `Recovery`
closed. `Descends` says which row the breaches in a tick's memory will be written to,
and `PointerInv` that `active_breach_id` names a live row. These hold until ticks
overlap or one tick goes through two breaches, as the property says. `PagedIsLive`
holds for overlapping ticks too and needs only the pointer. An insert must find a free
id, although the model's ids are bounded: breach rows never outnumber the judged buckets
and the overlaps (`RoomInv`), so the bound cuts no behaviour off.

Where a fold, `Without` or the search of a window goes through a sequence, the
lemma is proved by the least counterexample (`WFMin` on the naturals), not by the
induction theorems. Two definitions had `CASE` guards that overlap (the ghost
`CountRun`, and `NextState` with `Transition`), which leaves the value open to a
proof though TLC takes the first; they now have disjoint ones, in the code's order.

Every invariant and action property that a passing run checks is stated by a theorem.
Liveness under fairness is out of the prover's reach, so the temporal properties are
only model-checked: `BoundedWait`, `SlotsReturn`, `NoSearchRetired`,
`EventuallySettled`, `CatchesUp` (of two modules), `ReadingEnds`, `StopTakesEffect`,
`RestartServed`, `CaughtUp`, `RequestSettles` and `PageEnds`.

## 6. Where code and documentation disagree

**`custom_rules_lost`** ends in a counterexample to "the rule's one live breach"
(`models/custom_rule.py:141`). `_persist` (`custom_rules/engine.py:499`) saves one
breach per rule and tick, the resolved one if there is one, and points at the live
one. A tick that judges several buckets may resolve one breach and open the next:
the new one is never stored, the pointer names no row, and the page is resolved
while the condition persists. A tick that opens a second breach and resolves that
too stores only the second and leaves the first `OPEN` with nothing pointing at
it; the rule's next breach then violates the unique index, and the tick of all
rules is rolled back. Two overlapping ticks can leave the same state. This is why
`PageEnds` and `CatchesUp` except an orphaned breach row and `StateIsReplay` a tick
that went through two breaches.

Other disagreements, met while modelling. Each is what the named module does; the
properties are stated so that they hold beside it.

* Scheduler: a manual run does not commit its progress (`api/routes/searches.py:726`),
  so the scheduler runs the same search beside it; the docstring of
  `services/search_scheduler.py:20` calls a double run structurally impossible. A
  failed manual run can raise the failure alert from a count that a scheduled
  success has reset meanwhile (`api/routes/searches.py:736`). So can a cycle whose
  run was presumed dead: `_record` counts on a value read without a lock
  (`services/search_scheduler.py:887`), and two records of one search lose a count or
  write an old one over a success's 0, until the next success. This is what the ghost
  `contended` is for.
* Alerts: `acknowledge` decides on a status read without a lock
  (`alerts/service.py:124`): an alert resolved in between becomes `ACKNOWLEDGED`
  again.
* Dispatch: tasks neither lock rows nor exclude each other
  (`alerts/dispatcher.py:104`); two that overlap deliver a message twice.
* Anomalies: two passes that overlap (`workers/tasks.py:749`) each create an
  incident for one detector, and the one the detector row does not name stays
  active; the later commit may put `last_interval_start` back while the counters
  stay (`anomaly/engine.py:564`). `_refresh` reopens, without announcing it, the
  alert an operator resolved (`anomaly/engine.py:974`).
* Permit: a refusal is yielded before the instance slot is released
  (`ariel_permit.py:209`, docstring 18-20).
* History: `docs/HISTORY-BACKFILL.md:169` says a `COMPLETE` scope has no hole. After
  a reading that ended `PARTIAL`, "Read history now" searches only sources without
  a floor (`collectors/metric_collector.py:895`) and may end `COMPLETE` with the
  earlier reading's buckets unread; so does a source whose monitoring was removed
  during a reading. A `WAITING` scope that is stopped and restarted before the
  first live bucket reads without an anchor, and every step raises
  (`metric_collector.py:808`). `settle_step` keeps the failure count when a prefix
  of the failing step advanced, so a bucket may become a gap after one failure of
  its own; `docs/HISTORY-BACKFILL.md:503` counts `history_backfill_max_failures`.
  A stop between a restart and its first step leaves the pending rebuilds to the
  next restart.
* Collection: a task that read the watermark between another's unlock and its
  commit may move it back; no hole results. A search cap below the number of
  halvings of a window makes no progress while answers stay truncated.
* Profiles: `qradar-dash waf validate` stores its result on the row it loaded
  (`cli/waf.py:157`). Over an HTTP edit whose own validation refused the mapping,
  it can leave the new version's stamp with the old VALID; the source can then be
  enabled and collected, against `services/waf_profiles.py:4` and `:235`. This is
  what the ghost `raced` is for. A command-line `set` that races a PUT can give two
  mappings one version.
* Custom rules: every tick's UPDATE moves `updated_at`, which is the token a PATCH
  compares (`api/routes/custom_rules.py:808`), so an edit prepared before the last
  tick is refused. A rule enabled again whose last status is still `DISABLED` can
  lose its page to an idle tick.
* WAF pipeline: its lock ends before `run_waf_source` commits
  (`services/waf_pipeline.py:996`), against its docstring (17-19).

## 7. Not modelled

Detectors, baselines and thresholds are floating-point statistics; the engine
takes their verdict as a choice. Notifiers and QRadar clients are network I/O,
present as outcomes. Authentication is directory binds and cryptography around a
few counters. Retention is deletes by age. Request schemas, migrations, most of
the command line, the log generator and the frontend hold no protocol. Metric
rows, evidence, wording and occurrence counts are data no property tells apart.

Within modelled parts: in `SearchScheduler` searches are not deleted during a
cycle and crons are periodic; in `AnomalyEngine` there is one source;
`HistoryBackfill` is the console scope of Phase A with a fixed anchor (a restart
takes the oldest live bucket of that time), while the WAF, IPS and
catch-all scopes use the same planner and lifecycle with other adapters;
`SourceProfile` is read from the WAF sources; in `CustomRules` the threshold and
the bucket counts are fixed, and creation, the enabled cap, retention and the
preview are left out. The WAF and IPS engines and collectors and the property
watches are upserts and statistics around a watermark, like the parts modelled
here, but their own tables are not.

## 8. Plan

1. Property watches: the admission of values against a budget and the training
   lifecycle (`property_watch/admission.py`, `training.py`).
2. The enabled cap of scheduled searches and custom rules (`_lock_enabled_cap`),
   outage-policy precedence.
3. The WAF and IPS scopes of the history reading as further instances of
   `HistoryPlanner`.
