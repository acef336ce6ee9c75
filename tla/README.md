# Glimt in TLA+

Glimt is a self-hosted web analytics server: one Go process, one SQLite
database. Browsers send beacons to `/api/<token>`; the process turns each into
a row of table `event`, stitches rows into sessions, keeps hourly and daily
rollups, and shows them on a dashboard. This directory models the parts of it
whose correctness depends on order, failure and concurrency, checks them with
TLC on small instances, and proves most of the safety properties with TLAPS for
instances of any size.

`PROJECT.json` lists, for every definition, the source lines it stands for, and
for every property a *mutant*: a variant of one definition, with a bug one could
write in that line, under which TLC finds the property violated. The variants
stand in the modules just before the definitions they vary
(`HasRoomOffByOne` before `HasRoom`) and are used by nothing else.

## The system

| Part | Source | State | Operations | Module |
|---|---|---|---|---|
| Collector | `ingest/collector.go` | none | `Handle`, `HandlePixel` | IngestPipeline, SiteRegistry, WriteConnection |
| Ingestor | `ingest/writer.go` | channel `ch`, `dropped`, batch | `Start`, `Enqueue`, `loop`, `flush`, `Stop` | IngestPipeline, EventDelivery |
| Process | `cmd/glimt/main.go` | `run`'s position | start, signal, `Shutdown`, listener error | IngestPipeline, WriteConnection, Accounts |
| Sessions | `ingest/writer.go` (`insertEvent`) | tables `session`, `event` | `insertEvent` | EventStore |
| Rollups, retention | `rollup/rollup.go` | `rollup_stats`, `rollup_dim` | `Run`, `tick`, `recompute` | EventStore |
| Visitor salt | `ingest/visitor.go` | `sm.day`, `sm.salt`, `sm.mu`, table `salt` | `NewSaltManager`, `ensure`, `Hash` | SaltRotation |
| Site registry | `sites/sites.go` | table `website`, five indexes | `Create`, `Update`, `Delete`, `RegenTokens`, `SetPublic`, `Reload`, lookups | SiteRegistry |
| Database | `store/store.go`, `store/migrations` | schema, `user_version`, the write connection | `Open`, `migrate` | Migrations, WriteConnection |
| Accounts | `auth/auth.go`, forms in `dashboard/admin.go` | tables `admin`, `admin_session` | `EnsureAdmin`, `Login`, `valid`, `Require`, `Logout`, `CreateUser`, `DeleteUser` | Accounts |
| Read models | `query/query.go` | none | `Summary`, `TimeSeries`, `Top`, `EvaluateFunnel`, ... | ReadModels (partly) |
| Dashboard pages | `dashboard/dashboard.go`, `dashboard/admin.go` | none | `resolveRangeParams`, `buildDashboard`, the forms | ReadModels, SiteRegistry, Accounts (partly) |
| Tracker script, router, configuration, enrichment, geo, user agent, referrer | the other packages | none | rendering, pure lookups | not modelled |

How they meet. `net/http` runs a goroutine per request. A beacon's handler looks its
token up in the registry (a read lock), classifies the request, hashes the visitor
with today's salt (which may rotate the salt, through the write connection, under
`sm.mu`), and calls `Enqueue`, which sends on the buffered channel or drops. One
writer goroutine receives, batches, and flushes a batch in one transaction. One rollup
goroutine recomputes the recent buckets every minute in another transaction. The
database handle has one write connection (`W`), so that transactions exclude each
other, and a pool of readers (`R`). `main` waits for a signal or a listener error,
shuts the server down with a deadline of ten seconds, and stops the ingestor, which
closes the channel and waits for the writer; the rollup goroutine it cancels, after
that or, on a listener error, before, and does not wait for it. Before it serves,
`main` has migrated the database and created or reset an account. A request to the
dashboard presents a cookie, whose row in `admin_session` lets it in; its page is made
of several queries on `R`, its forms write through `W`.

What is hard in it, and where each is treated:

- *Interleaving.* Handlers race `Stop` on the channel and each other on
  `dropped` (IngestPipeline); two rotations of the salt race, in one process or
  in two (SaltRotation); writes to `website` race the readings other `Reload`s
  have made (SiteRegistry); two processes migrate at once (Migrations); two
  requests count the accounts before either deletes one (Accounts); the worker
  commits between the queries of a page (ReadModels).
- *Waiting.* A handler waits for the write connection while it holds `sm.mu`, for
  which all other beacons wait; the connection may be with the writer, the worker
  or a form; the writer's last flush stands in the same queue (WriteConnection).
- *Failure and restart.* Any statement may fail and any process may die between
  two statements: a batch is rolled back and dropped, a rotation or migration
  stops halfway, the registry keeps what it had, a start dies after it has counted
  the accounts.
- *Order.* Events are stamped when their handler starts and inserted later, in
  another order; sessions, closed buckets and the retention cutoff must bear it
  (EventStore). Events of the same millisecond come out of a query in any order
  (ReadModels).
- *Time.* The shutdown deadline races the last handlers; the flush ticker must
  get its turn; midnight falls inside a rotation; a bucket closes before the
  worker's next pass; a login session ends while a request that presents it is
  under way.

`PROJECT.json` lists them one by one at the line where they bite, with the
properties that would notice.

## The modules

**EventDelivery** is the promise: an accepted event waits, in the order of
acceptance, until a prefix of what waits becomes durable in one transaction or is
given up. Nothing is duplicated, reordered or kept waiting.

**IngestPipeline** is the code. `handler[e]` is where the goroutine of beacon
`e` stands; `Arrive`, `Ignore` (every early return of the handlers), `Accept`,
`Drop`, `CountDrop` and `SendPanic` are its steps. `dropped++` is two steps, a
read into `register[e]` and a write, since nothing synchronises it. The writer is
`Receive`, `Tick` and `SeeClosed` (the cases of its `select`) and `BeginTx`,
`InsertRow`, `Commit`, `FlushFails` (the statements of `flush`; any of them may
be the one that fails). `back` remembers whether the running flush was called
from the loop or as the last one. Main is `Signal`, `ShutdownDone`,
`ShutdownTimeout`, `ServeError`, `MainReturns`. `Crash` and `Restart` keep the
database and clear the memory. `ticket` numbers acceptances and is history only.

**EventStore** has the four tables and the two transactions that write them,
`Insert` (insertEvent) and `Recompute` (one pass of the worker); each is one
action because `W` is a single connection. Time is in ticks. An event carries the
tick at which its handler built it and is inserted up to `MaxLag` later. One
website stands for all, since every statement is partitioned by website;
dimensions `path` (counted over events) and `entry` (counted over sessions) stand
for the two kinds of dimension.

**SaltRotation** has one action per statement of `ensure`, with `sm.mu` as
`holder`. `INSERT OR IGNORE`, the re-read after it, the `DELETE`, and every error
return are separate, so that other callers, other processes, a crash or a
midnight may fall between any two. `late` remembers the days for which a rotation has
written something after they were over, `older` those on which a call whose `ensure`
had succeeded hashed with the salt of an earlier one.

**SiteRegistry** splits every administrative operation in three: the write, the
reading of the table, and the swap of the indexes under the lock, because `Reload`
takes the lock only for the last. Beacons resolve a token and record an event
later. Rowids are given out as SQLite does it for `INTEGER PRIMARY KEY` without
`AUTOINCREMENT`: one more than the largest in use.

**Migrations** runs files of statements, each of which commits by itself, then
the PRAGMA. A statement is "create" (repeatable) or "alter" (not). A process may
be of a build that embeds fewer files.

**Accounts** has one action per statement of `auth.go`. `boot[p]` is where process
`p` is in `EnsureAdmin` (`CountAtBoot`, then `CreateFirst`, `ResetPassword` or
`StartWithout`) and `req[r]` where request `r` is: `Verify` and `IssueToken` are
`Login`; `Arrive` presents a cookie, then come `Logout`, or the outcomes of `valid`
behind `Require` (`Admit`, `Refuse`, `FindExpired` and `RefuseExpired`); an
admitted request may do `CreateUser`, or `CountAccounts` and `DeleteAccount`, the two
statements of `DeleteUser`. `Answer` is every error and every page that changes
nothing. A token is a value never issued before, a password hash the password
itself. `issued`, `loggedOut`, `raced` and `reset` are history.

**WriteConnection** puts together who waits for whom and leaves out what is
read and written: `conn` has the write connection and `mu` has `sm.mu`. Beacons
(`Arrive`, `CheckCache`, `LockSalt`, the statements of `ensure`, `UnlockSalt`,
`EndRequest`), forms (`AskToWrite`), the writer (`FlushBatch`, `WriterReturns`), the
worker (`StartPass`, `WorkerReturns`) and main go on for ever, or until main
returns. `TakeConnection` is `database/sql` handing the connection to one who waits;
a statement or a transaction that ends, committed or rolled back, gives it back.

**ReadModels** runs a page step by step: a range that `resolveRangeParams` can return,
`ReadSummary`, `ReadSeries` with the loop over the points (`NextPoint`, `EndSeries`),
`ReadTop`, and `WorkerCommits` between them, since no transaction spans the queries.
Headline and chart read `rollup_stats` (`stats`), a panel reads `rollup_dim`
(`listed`). The two differ: pageviews of no path are only in the first (`pathless`),
and a pass rebuilds its days of the second from the events the retention has left
(`Rebuilt`), while the first keeps its hours. Beside it `EvaluateFunnel` runs row by
row over every small result of its query. Both are held against definitions that say
what the result should mean.

Modules whose name ends in *Proofs* hold the theorems (see *What is proved*).

## The runs

| Run | Module | Expect | What it shows |
|---|---|---|---|
| `ingest_pipeline` | IngestPipeline | pass | each accepted event is in exactly one place, once; rows in order of acceptance; batches whole; shutdown drains, ends, and cuts nobody off if it came in time; the drop counter never overcounts; nothing waits for ever; EventDelivery is implemented |
| `salt_rotation` | SaltRotation | pass | `sm.mu` is never left locked, and no hash is made without a salt; until a rotation goes on after its day is over, one salt per day over two processes, failures and a crash, and the cached salt is the stored one; a call whose `ensure` succeeded hashes with an older day's salt only after such a rotation, and then with that of the day before |
| `salt_midnight` | SaltRotation | violation | a rotation for yesterday that finishes after one for today breaks both promises of `SaltManager`'s comment: it moves the cache back under a call whose `ensure` has succeeded, which then hashes with yesterday's salt, and deletes today's, so that today gets a second one |
| `site_registry` | SiteRegistry | pass | the indexes agree with each other; one undisturbed operation or a restart repairs any staleness; share links are stable |
| `sites_rotate` | SiteRegistry | violation | two overlapping reloads leave a rotated token working, with nothing under way |
| `sites_inherit` | SiteRegistry | violation | a new site shows the events of a deleted one |
| `event_store` | EventStore | pass | session rows say what their events say; sessions end exactly where they should, up to the lag; closed hours and days are exact; events that have lost their session are only those about to expire |
| `migrations` | Migrations | pass | `user_version` claims nothing that did not run; whoever opens the database has what its build needs; the schema is always a prefix of the statements |
| `accounts` | Accounts | pass | an account is left unless a deletion was overtaken by another; the password a start has set stays set; a cookie is admitted exactly from its login to its logout or its end, whatever else happens |
| `last_admin` | Accounts | violation | two deletions that have both counted two accounts leave none |
| `write_connection` | WriteConnection | pass | connection and mutex are never held by one who is not using them; no deadlock; every beacon, form, batch and pass is served; a shutdown ends |
| `read_models` | ReadModels | pass | chart and headline count the same rows but for one hour, and the chart has no gap; the chart is not behind the headline; a panel leaves nothing out that the chart shows but pageviews of no path, if the retention is of no day that is still rebuilt; a funnel counts the sessions that took its steps in order |

### Bounds, and why they are enough

- `ingest_pipeline`: 3 beacons, a channel of 1, batches of 2, 1 restart. A full
  channel, a drop, a full batch, a batch that only the ticker flushes, a failing
  statement after one that succeeded, and a crash at each of these all occur; a
  third event is there to be accepted while the writer flushes the others. The
  theorems below remove these bounds.
- `salt_rotation`: 2 processes with 2 handlers, 3 days, and one of two things: a
  crash, or a day for which a rotation goes on after it is over (`MaxFaults`). One
  midnight may fall inside a call of `ensure` (`MaxLag`), which is enough for a
  rotation for a day to come after one for the next. 8 salts are one for each day, one
  for each caller and another, so that fresh random bytes, a salt that no one uses,
  stores or holds, exist as long as no rotation is late (`SaltsSuffice` proves it;
  after a late one the bound may end a behaviour). Processes and handlers are
  symmetric. `salt_midnight` needs one process with two handlers.
- `site_registry`: 2 requests, 3 tokens, 1 fault, 1 beacon: enough for a create, a
  rotation and a reading overlapping both, which is what every staleness needs.
- `event_store`: 2 visitors, 3 events, a session window of 3 ticks, hours of 2 ticks,
  days of 2 hours, 10 ticks in all. An hour and a day close, the retention passes over
  events of closed days, a session's rowid is given out again while one of its events
  is still there, a late event moves `last_seen_at` back, and the worker misses up to
  2 ticks. `StatsHours` is 3 and `DimDays` 2 as in the code; `MaxLag` and `MaxDown`
  stay below what these windows cover, as the constants of the code intend (a minute
  between passes against hours and days). The events of two sessions of one visitor
  may be nearer than the window by twice the lag, which takes a fourth event to show;
  the theorem `BordersHold` is for any number.
- `migrations`: 2 processes, 2 crashes, three files of the three kinds that occur.
- `accounts`: 2 processes that serve one request each, 2 names, 2 passwords, 2
  tokens, rowids up to 3, sessions of one tick and a clock of two. Two starts overlap;
  a start resets an account another one created with a different password; two
  processes count and delete; the newest rowid is given out again; a session ends
  under a request and beside another login. Processes, slots, names, passwords and
  tokens are symmetric: no definition tells two of them apart, and no property is
  about liveness. The theorems remove the bounds. `last_admin` needs no second
  process: two requests of one do.
- `write_connection`: 2 beacons, so that one waits for `sm.mu` while the other waits
  for the connection under it, 1 form, the writer, the worker, main and 1 midnight.
  `ensure` has 2 statements instead of four: a first one, after which it may be
  done, and a last one, whose failure it ignores; those between behave like
  the first, and `HeldByOne` is proved for any number.
- `read_models`: six hours of two ticks, days of two hours, 0 or 1 pageviews an hour,
  one of them perhaps without a path, retentions of 0 (all is kept), 1 and 2 days, and
  any part of the days that are rebuilt lost to them already; while the page is made,
  one pass of the worker between any two queries, up to a tick later, which may roll
  up another pageview, on time or late; every range of every time, presets and custom,
  by hour and by day, so that ranges begin and end on and off each boundary. Funnels
  of up to 3 steps over up to 4 rows of 2 sessions at 2 times, so that simultaneous
  events occur in both orders.

Deadlock is checked for `migrations`, the three runs of SiteRegistry and
`write_connection`, where the only state without a real step is the ended process.
The other systems may really stop: all beacons answered and the process ended, the
calendar, the clock or the tokens used up, a query done.

### Fairness

IngestPipeline and WriteConnection have liveness properties.

IngestPipeline assumes three things of the running process: the writer goroutine, if
it can take a step, takes one (the Go scheduler; its ticker makes `Tick` possible every
second, so it never waits for a full batch); `srv.Shutdown` returns, because its
context has a deadline; and `Stop` returns once the writer has. Nothing is assumed of
handlers, which may hang, of signals, or of a restart. Under this, an accepted event
is eventually committed or given up, and a shutdown eventually ends.

WriteConnection assumes weak fairness of whoever can simply run: a statement or a
transaction ends (`ConnectionStep`), the deferred `Unlock` runs (`SaltStep`),
`Shutdown` and `Stop` return as above (`MainStep`). For those who compete it assumes
strong fairness, one by one: a goroutine that waits for the connection gets it if it
is free again and again (`database/sql` hands a freed connection to a waiter picked at
random), and so does a handler that waits for `sm.mu` (Go's `RWMutex` lets waiting
readers in when a writer unlocks, and its inner mutex goes to the oldest waiter once
one has starved for a millisecond). When the writer flushes is left open there, so the
model says of it that it returns at last once the channel is closed and only empties
(strong fairness of `WriterReturns`); IngestPipeline has its loop in full. Nothing is
assumed of arrivals, signals, the clock or the worker's ticker. Weak fairness would
not do for the competitors: the worker and the forms may take the connection again
before a waiter sees it.

## What is proved

Every theorem is for any value of the constants that satisfies the module's named
assumption (`PipelineAssumption` and so on, which TLC evaluates in the passing
runs): processes, handlers, requests, names and tokens as many as one likes, and any
bounds. Some have a hypothesis of their own, which the table names and the text
below it justifies; the cfg of the run satisfies each of them.

| Theorem | Module | Says |
|---|---|---|
| `TypeCorrect` | IngestPipelineProofs | `TypeOK`: types, and the capacities of channel and batch |
| `OrderKept` | IngestPipelineProofs | `AcceptanceOrder` |
| `NothingDuplicated` | IngestPipelineProofs | `ExactlyOnePlace` |
| `StopDrains` | IngestPipelineProofs | `DrainOnStop` |
| `ImplementsDelivery` | IngestPipelineProofs | every behaviour of the pipeline is one of EventDelivery (safety part) |
| `BatchesWhole` | IngestPipelineProofs | `WholeBatches` |
| `ShutdownClean` | IngestPipelineProofs | `CleanShutdown` |
| `CounterBounded` | IngestPipelineProofs | `DroppedUndercounts` |
| `AccountsTyped` | AccountsProofs | `TypeOK`: ids and names are unique, sessions are of logins |
| `NeverLockedOut` | AccountsProofs | `AccountRemains` |
| `PasswordKept` | AccountsProofs | `ResetHolds` |
| `GateExact` | AccountsProofs | `AdmitsExactly` |
| `HeldByOne` | WriteConnectionProofs | `TypeOK`: who holds the connection and `sm.mu` |
| `MigrationsTyped` | MigrationsProofs | `TypeOK` |
| `VersionClaimsNothing` | MigrationsProofs | `VersionHonest` |
| `MigratedWhenOpen` | MigrationsProofs | `OpenMeansMigrated` |
| `SchemaIsPrefix` | MigrationsProofs | `AppliedInOrder` |
| `CacheIsStored` | SaltRotationProofs | `CachePersisted`: until a rotation is late |
| `SaltNotOlder` | SaltRotationProofs | `NeverOlderSalt`: with late rotations too |
| `TypesKept` | SaltRotationProofs | `TypeOK` |
| `OneSalt` | SaltRotationProofs | `OneSaltPerDay`: until a rotation is late |
| `TypesHold` | EventStoreProofs | `TypeOK` |
| `TotalsHold` | EventStoreProofs | `SessionTotals` |
| `StraysExpire` | EventStoreProofs | `StrayOnlyAtCutoff` |
| `BordersHold` | EventStoreProofs | `SessionBorders`, under `WindowAssumption` |
| `StatsAreFinal` | EventStoreProofs | `FinalStatsExact`, under `StatsAssumption` |
| `DimsAreFinal` | EventStoreProofs | `FinalDimsExact`, under `DimsAssumption` |
| `ChartIsWhole` | ReadModelsProofs | `ChartCovers` |
| `PointsAddUp` | ReadModelsProofs | `ChartAddsUp` |
| `PageIsForward` | ReadModelsProofs | `PageMovesForward`; for the panel: if the retention keeps the days that are rebuilt |
| `FunnelIsRight` | ReadModelsProofs | `FunnelCounts` |
| `RegistryTyped` | SiteRegistryProofs | `TypeOK` |
| `IndexesOfOneReading` | SiteRegistryProofs | `IndexesAgree` |
| `ReloadHeals` | SiteRegistryProofs | `LoneReloadHeals` |
| `ShareLinkKept` | SiteRegistryProofs | `ShareLinkStable` |

*The pipeline* (any finite set of events, positive channel and batch size, any number
of restarts). There are two inductive invariants. `ControlInv` is `TypeOK` with
`LoopInv`, which ties the writer's position to its buffers: the rows of an open
transaction are a prefix of the batch; the flush that precedes the return is the last
one, on a closed and empty channel; a writer that has returned, or whose process has
ended, leaves batch and channel empty. Without it one can show neither that `Commit`
writes the whole batch nor that `run` returns with nothing in memory. `DeliveryInv`
adds what the order is made of: an event has a ticket exactly if it was accepted,
tickets do not exceed the number issued, and the sequence *db, batch, channel* is
strictly ordered by ticket. All of `ExactlyOnePlace` and `AcceptanceOrder` follows,
because every step does one of three things to that sequence: leaves it
(`HeldStaysStep`), appends a younger event (`AcceptStep`, by `OrderedAppend`), or cuts
a segment out (`CutOutStep`, by `Excise`: a failed flush takes the batch, a crash the
batch and the channel). The refinement maps the last two to `Accept` and `Settle`, and
everything else to stuttering.

*Accounts.* `AccountsInv` is `TypeOK` and `ResetHolds` with three facts about what a
request remembers from an earlier statement. `CookiesIssued`: the token it presents
was issued. `SessionsStand`: a token issued and not logged out has its row unless its
time is over, which is why a deletion of an expired row by a request that read it
earlier takes nothing from another one. `CountsStand`: as long as no
overtaken deletion has been carried out, a process that has counted some accounts
still finds one, and a request that has counted two and was not overtaken still finds
two. The count itself is forgotten at once, so without `CountsStand` nothing says that
the `DELETE` leaves an account behind.

*The write connection.* `HoldInv` says for each goroutine that it holds the connection
exactly while it runs, and `sm.mu` exactly between `Lock` and `Unlock`; since both
variables have one value, a step that moves one goroutine leaves the claim about every
other one alone (`OneMoves`).

*Migrations* (any number of processes and crashes, builds of any age, the three files
of the repository's kinds). `MigrationInv` adds to the four properties that whatever a
process stands behind has been executed (`Passed`): the statements before its position,
the files before the `PRAGMA` it is about to issue. A slower process can then stamp
only a version that is true, even where it is lower than the one it overwrites.

*The salt* (any processes, handlers, days, failures and crashes, and any number of
midnights inside a rotation). `SaltInv` has two halves. About time, always: a call in
`ensure` wants a day that is over by at most `MaxLag` (`CallsInTime`), no cache is
ahead of the clock (`CachesInTime`), and a call whose `ensure` has succeeded finds a
salt of its day, of a later one, or one that a late rotation has moved the cache back
to (`EnsuredInTime`). About storage, as long as no rotation has gone on after its day
was over: the salt of today that a caller holds between its re-read and the cache is
the stored one (`GotIsStored`), and so is what a manager caches for today or yesterday
(`CachesStored`). The second half needs the first, since a `DELETE` spares exactly the
day it was asked for and the one before; and its condition is needed, as
`salt_midnight` shows. `OneSaltPerDay` takes `FullInv`, which adds what a process may
be doing before it has a salt (`UpInv`) and, in `PairsInv` and under the same
condition, that the pairs of day and salt that are *anywhere* (used for a hash, cached
or stored) are one to one. Only `Insert` makes such a pair, only for a day without a
row, and of that day no hash can have been made yet, because one of today was made
with the stored salt. The salt it stores was fresh when it was drawn, and no other
caller about to insert holds the same (`FreshIsNew`; `SaltsSuffice`: each salt in
sight belongs to a day or to a caller, so that `MaxDay + 1 + Cardinality(Callers)` of
them cannot be all).

*The event store* (any visitors, bucket sizes, retention, lag, downtime and number
of events). `StoreInv` is inductive whatever the constants are. Next to
`SessionTotals` and `StrayOnlyAtCutoff` it says how rows hang together when rowids
are given out again: events are numbered, a session has the number of its first event
(`RowsInv`) and, while it is there, an event it started with and one it was last
seen with (`SessionsInv`); the events of a session are at most a lag later than its
`last_seen_at`, which may move back (`SeenInv`); and an event or session that is
gone has expired when the worker last ran (`PrunedInv`, `StrayInv`). The
totals are counts over the events ever inserted, so an insert adds one to exactly
one of them, and pruning changes none.

`BordersInv` adds that of a visitor's sessions only the youngest is ever extended
(`OrderInv`). That is false in general: it needs `WindowAssumption`, that an event
waits less in the queue than the window of a session (seconds against `sessionWinMs`,
thirty minutes), and that a retention, if there is one, is not shorter than the window
(days). `Window - 2 * MaxLag` is what comes out, and not `Window - MaxLag`: three
events do not tell the two apart, four do.

`ClosedStatsInv` and `ClosedDimsInv` say that a bucket that was over, and for a lag,
when the worker last ran is exact: no insert reaches it any more, and a pass that
still recomputes it finds all its rows, since the retention has not come as far. A
bucket that leaves the window was over at the previous pass, if `StatsAssumption` or
`DimsAssumption` holds: lag and downtime are shorter than the window less the bucket
under way (two hours, and one day), and the window lies within the retention. That is
how the code's constants are meant (passes are a minute apart), with one exception:
the two days of `rollup_dim` do not fit a retention of one day, and one of two days
only just (see `retention_days` below). What a downtime beyond these windows loses is
outside of the theorems, as it is outside of the runs.

*The page and the funnel* (any range, bucket width, counts, commits of the worker,
rows, steps and sessions). `ChartInv` is the invariant of the loop over the points:
those made are of the first buckets, and `t` is where the next one begins. `SumInv`
says what is counted. A sum of counters is the number of the pageviews, each told by
its hour and number (`Counted`), so that sums split over disjoint hours (`SumSplits`)
and grow with hours and counters (`SumGrows`) as cardinalities do; the points made add
up to the hours before `t` (`NextGroup`: the next takes exactly those of its bucket),
the series is not ahead of the table, and the hours of a range lie in the days of its
panel (`HoursOfRange`). `TablesInv` relates the two tables: an hour of `rollup_stats`
counts no more than the rows of `rollup_dim` and the pageviews of no path. A pass
keeps that if the retention keeps the days it rebuilds, since nothing of them is then
prunable (`DaysKept`, `RebuiltRows`); that is the condition in `PageMovesForward`, and
with a retention of one day the panel does fall short of the chart (TLC finds it when
the condition is dropped). At the end the hours not reached are those of `Beyond`
(`LeftOut`). `FunnelInv` is the invariant of `EvaluateFunnel`. `CameInv`: each session
has matching events, in order, for all steps before the one it waits for, none later
than the `lastTs` kept of it. `NoFurtherInv`: no chain of events at distinct times
goes any further, nor as far any earlier, which is why the greedy walk loses nothing.
`CountInv`: a step's counter is the number of sessions past it. `NoFurtherInv` is kept
because the rows come by session and time, so that no row is earlier than what has
been processed of its session (`RowAtHand`); a chain that uses the row at hand ends in
it. (That makes the comparison of `ts` with `lastTs` in the code redundant.)

*The registry* (any number of requests and beacons). `RegistryInv` has the table's
constraints (`TableInv`: rowids, tokens and share tokens unique and minted, a public
site has a share token); that every reading under way and the one installed is
unambiguous, and that all five indexes are made of one (`ReadInv`); and that an
operation which runs alone has read what the table holds now, until the next write
(`AloneInv`). `IndexesAgree` follows from the second, `LoneReloadHeals` from the
third. That the rowid of a new row is in no other row, which `TableInv` needs, rests
on the existence of a largest element of a finite set of naturals (`MaxIsGreatest`).

Only model-checked is liveness: `Settles`, `ShutdownTerminates`, `EveryoneServed`,
`ShutdownEnds` and the fairness part of `DeliverySpec`, which are beyond this prover.
Every other property of a passing run is a theorem. Those of the other four runs do not
hold.

## What the runs found

Each is a `finding` in `PROJECT.json`, with the sentence of the repository it
contradicts.

1. `salt_midnight`: one rotation for yesterday that ends after one for today breaks
   both promises of `visitor.go:13-15`. It sets `sm.day` and `sm.salt` back between
   the successful `ensure` of another call and its read of `sm.salt`: a visitor of
   today has yesterday's hash. And its `DELETE` keeps the day it was asked for and the
   one before, not the newest: today's salt is gone, a second one is made, and today's
   visitors are counted again. `KeepsAPromise` says that one of the two at least is
   kept, so that its violation shows both in one behaviour.
2. `sites_rotate`: `Reload` reads before it locks, so an older reading can be
   installed over a newer one and stay.
3. `sites_inherit`: `Delete` removes the row of `website` only, and the rowid is given
   out again.
4. `last_admin`: `DeleteUser` counts and deletes in two statements on two connections,
   so that the last two accounts can delete each other. Whoever still has a
   session can create one; so can a restart with the credentials in the environment,
   as they are for an empty table.

Noticed while reading, and checked by no run:

- `Stop` closes the channel while handlers may still send on it, after the shutdown
  deadline or at once on a listener error (`writer.go:47-51`): the send panics.
  `net/http` recovers the panic of that request; the event is lost and the
  request aborted. `CleanShutdown` says that it cannot happen otherwise.
- With `retention_days = 1` the cutoff falls inside yesterday, which is still being
  recomputed: the rollup of a closed day loses events (`rollup.go:98`), and a panel
  shows less than the chart above it, whose hours stay (`PageMovesForward` excepts
  it). With two days, which the `event_store` run keeps, the cutoff stays out of the
  window, but a session is pruned by its `last_seen_at`, which may have moved back
  before its start: one that started within a lag after midnight may be pruned in the
  last pass before the second midnight, and its day loses an entry. The hypothesis of
  `DimsAreFinal` is exact about it: the two days of the window and the lag, less a
  tick (TLC finds that loss with a lag of two ticks). Three days are always enough.
- `store.go:59-60` says that migrations can be run again, but a file with
  `ALTER TABLE ... ADD COLUMN` cannot, and a file and its PRAGMA are not one
  transaction: after a crash between the two, later starts fail until someone sets
  `user_version` by hand. No state that Migrations reaches is wrong, only stuck.
- `README.md:65` says of the account of the environment that it is created on first
  boot; every later boot resets its password, as the comment in `auth.go` says. If the
  environment names an account that does not exist while others do, the `UPDATE`
  matches no row and the start goes on without a word.
- Sessions of a deleted account, or of one whose password was reset, stay good until
  their time is over; expired rows are deleted only when somebody presents them;
  `Logout` ignores the error of its `DELETE`, so that the cookie is cleared and the
  session may live on.
- The settings form names an account by its rowid, which is given out again: a form
  that was rendered before another request deleted the newest account and created one
  deletes the new one.
- At the first beacon of a day all beacons wait for `sm.mu` while its holder waits for
  the write connection, that is, behind a pass of the worker if one is under way. They
  are served (`EveryoneServed`), but late.
- `main` does not wait for the worker: its transaction may be cut off by the end of the
  process. SQLite rolls it back and the next start recomputes the same window.
- The combined view of all sites counts the rollups of deleted ones.
- `cleanPath("//")` yields the empty string, so that such pageviews have a session
  and no path.
- `Hash` ignores the error of `ensure` and hashes with whatever salt is cached; on
  a day whose first statement fails that is yesterday's, although
  `visitor.go:15` promises hashes unlinkable across days.
- A process that dies between the `INSERT` of a salt and the `DELETE` of old ones
  leaves these until the next rotation: later starts find today's row and skip the
  `DELETE`.
- `EvaluateFunnel` does not look at `rows.Err()`; a query that fails halfway
  gives a funnel of the rows read so far.
- `last_seen_at` may end up before `started_at` when events are inserted out of
  order, and `Summary` averages the negative difference.
- The chart has no point for the hour that starts exactly where the range ends,
  while the headline counts it (`ChartAddsUp` states the exception).
- The parts of a page are of different moments (`PageMovesForward` says in which
  direction they may differ).

## Not modelled

- *Rendering, the overview page, the tracker script, the router*: templates and static
  wiring without state.
- *Configuration*: read once at start; its values are constants of the modules. Starts
  that fail on it, or on the geo database, end the process before it has done
  anything.
- *Enrichment and classification* of referrer, user agent, country, URL and screen:
  pure functions of one request, made of tables and string matching; the time stamp
  an event takes is an input of EventStore.
- *Of the read models*: `Realtime`, the export, web vitals, averages and revenue, one
  SQL expression each. `CreateFunnel` and `DeleteFunnel` are single statements.
- SHA-256, PBKDF2 and the generation of tokens are abstracted to fresh values.
- *Long downtime of the worker* (`rollup.go:74`): EventStore bounds it to what the
  windows cover. Hours and days older than the window are never rolled up afterwards,
  and no sentence of the repository says that they are.

## Plan

1. *EventDelivery*: the invariants of the promise itself, proved once in the abstract
   module and carried to IngestPipeline through the refinement.
2. *WriteConnection*: the part of its liveness that is a state property: whoever
   waits, waits for somebody who can take a step without waiting.
