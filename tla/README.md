# IBPython: TLA+ models, checks and proofs

This directory holds the formal models kept beside IBPython. Each module is translated from the Python
source under `src/`; the file and lines behind every definition are in the `map` of
`PROJECT.json`. TLC checks the models on small instances (the `.cfg` files), TLAPS proves theorems
about them for every value of the constants.

```
tlc -workers 2 -config connection_switch.cfg MCIBKRConnection.tla     # one run
tlapm IBKRConnectionProofs.tla                                        # one proof module
```

Contents: 1 inventory, 2 modules, 3 runs, 4 connection manager, 5 repair queue, 6 scheduler,
7 traffic to IBKR, 8 orders, streams, MCP server, 9 REST application, 10 findings, 11 what is proved,
12 properties and mutants, 13 known deviations, 14 not modelled.

## 1. Inventory of the system

IBPython is a market-data and order gateway to Interactive Brokers (IBKR). Three processes share the
code: the REST API (`src/webapp`), the scheduler (`main.py`, `src/transport/scheduler.py`) and the
MCP server (`src/mcp_server.py`). Each is one asyncio loop. They share Redis (job definitions,
leases, run records, latest bars, the IBKR control switch, rate-limit windows, idempotency keys), the
QuestDB/MySQL bar stores and one SQLite archive; they do not call one another, except that the
scheduler's snapshot handler may load bars through the REST API.

| Component | State it keeps | Operations | What is hard | What makes it correct |
|---|---|---|---|---|
| Connection manager (`feeds/ibkr_connection.py`) | switch, generation, client, shared attempt, reconnect task, two locks, watcher | connect, ensure_connected, disconnect, refresh/write of the control switch, socket events | coroutines interleave at every await; attempts outlive their session; events during setup; lost reconnects | one attempt and at most one client per generation; a stop is final for what was under way; no leaked socket; recovery |
| Repair queue (`transport/analytics_store.py`, `feeds/quality_repair.py`, `feeds/ohlcv_loader.py`) | the `repairs` table: state, attempts, due time, lease | enqueue with a capture, claim, load, finish | two processes on one table, crashes after the claim, slow runs that outlive their lease, two stores | a lease is respected; three tries at most; complete means repaired; every job is settled |
| Archive queries (same file) | datasets, references, executions | point-in-time reads, upsert of executions | late corrections, cut-offs | a later revision wins, nothing from after the cut-off is seen |
| Scheduler (`transport/scheduler.py`, `redis_client.py`) | local jobs and tasks, leases and run records in Redis | reload, reconcile, run once with retries, stop | several workers, lease expiry during a run, cancellation, time-outs of Redis | one worker runs a job at a time; a record ends; reconciliation keeps what is configured; nothing is left after a stop |
| Cron calendar (`transport/scheduler_calendar.py`) | a parsed expression, the next run | parse, match, search, sleep | day and weekday fields together, steps, rounding, sleeping over a minute | a job runs at its times and at no other |
| Snapshot handlers (`transport/scheduler_handlers.py`) | bookmark per job and symbol in Redis | load since the bookmark, persist, cache, move the bookmark | partial failure, unfinished bars, cancellation | no gap: the bookmark never passes bars that were not stored in their final form |
| Rate limiter (`transport/ibkr_rate_limit.py`) | windows and market-data leases in Redis, local fallbacks | wait for a slot, acquire and release a line | Redis outages in the middle, expired leases, lost replies | IBKR's limits hold; every line is given back |
| Pacing guard (`feeds/pacing.py` and its Redis twin) | request times, cool-downs, a semaphore | acquire, release | lock given up while waiting, cancellation, the guard changes under a request | windows hold; permits are not lost |
| Feed clients (`feeds/ibkr_*.py`, `equity_reference.py`) | subscriptions and tickers of the session | forty kinds of request | session end, cancellation and failure at every await | nothing is held by a request that is over; an answer belongs to the session it was asked in |
| Circuit breaker (`feeds/circuit_breaker.py`) | state, failures, opening time | guard, record | concurrent probes, late results | closed only after a success, open after enough failures |
| Order client (`feeds/ibkr_order_client.py`) | idempotency keys in Redis, envelopes | place, cancel, modify, preview, bracket, OCA group | duplicates, session loss around the placement | at most one order per key; an interruption is recorded |
| MCP server (`mcp_server.py`) | shared client, reference count, idle-close task | acquire, release, close when idle, the tools | reuse during the close, cancellation | never closed while in use, one client id at a time |
| Streams (`webapp/routers/streaming.py`) | subscriptions, one bounded queue each | subscribe, stop, clean up | slow consumers, session end, expiry, all at once | bounded, ended when the session ends, ticker released once |
| Response cache (`webapp/cache.py`) | entries, per-key locks | get_or_set, get, set, clear | concurrent misses, clear during a fill, deadlines | one load per key; only sound answers are kept |
| HTTP middleware (`webapp/middleware`) | counter per client and minute | allow, deadline, token | two Redis calls, fallback | the limit holds and ends |
| Routers, models, analytics, storage clients, entry points | none of their own, or external | request and response mapping, numerics, SQL | - | the routers as ways through the handlers; the rest are not state machines |

`PROJECT.json` lists each with its status, and under `hazards` the lines where each can go wrong with
the property that would show it.

## 2. Modules

| Modules | What they are |
|---|---|
| `IBKRSession`, `IBKRConnection` (MC: `MCIBKRConnection`; proofs: `IBKRConnectionProofs`) | the connection manager and the abstract session it implements |
| `RepairLedger`, `RepairQueue` (MC: `MCRepairQueue`; proofs: `RepairQueueProofs`) | the repair queue and the abstract ledger it implements |
| `SchedulerRun` (proofs: `SchedulerRunProofs`) | lease, attempts and run record of one job on several workers |
| `SchedulerJobs` | the job table of one worker: reload, reconciliation, stop |
| `CronSchedule` | cron expressions and the loop that sleeps between runs, against what an expression means |
| `SnapshotRun` | the market-data captures: store, cache, bookmark |
| `RateLimitController` (proofs: `RateLimitControllerProofs`) | message windows and market-data lines, Redis and fallbacks |
| `HistoricalPacing` | the pacing guards and their callers |
| `FeedMethods` + `FeedRequests`, `HistoricalRange` | every feed method as the sequence of what it awaits; paginated history |
| `Orders`, `StreamingTickers`, `McpTools` + `McpServer` | order operations; ticker streams; the MCP server's shared state and tools |
| `RestRoutes` + `RestRequests` (proofs: `RestRequestsProofs`) | every REST route as its ways through the handler, over cache, session, switch and deadline |
| `MCScheduling`, `MCProgress`, `MCGateway`, `MCServing` | the suites: one TLC run for several of these modules |
| `SchedulingProofs`, `GatewayProofs`, `ServingProofs` | proofs about the suites' other parts: jobs, cron, snapshots; pacing, feed methods, history; orders, streams, the MCP server |

A **suite** instantiates modules that share no variable and has a variable `part` that names the one that
runs; the others keep one fixed initial state of theirs. A run of a suite explores the disjoint union
of its parts' state spaces: it is as strong as a run per part, and says so in one run. The suite's
properties are those of its parts, `X == part = "..." => M!X`. The constants of a suite are those of its
parts, so a theorem about a suite's specification is one about each part for all values of its constants.

The connection manager is composed with what stands on it through its abstract session: `FeedRequests`,
`Orders`, `StreamingTickers` and `RestRequests` have `up`/`session` (a generation begins, ends,
and the next one begins), which is what `IBKRSession` promises of a session captured once its setup is
complete and what the manager is proved to implement. A session captured earlier can lose its client under
the same generation (section 13); to those four it is then a session that ended.

Modules that carry theorems declare no `RECURSIVE` operator; parameters are `CONSTANTS` with named
assumptions; an inductive invariant is a conjunction of named parts. `RestRoutes` keeps the routes whose
answers a `cache_if` guards (`KeptRoutes`) apart from the others, because a proof is about their ways.

## 3. Runs

| Run | Instance | Shows |
|---|---|---|
| `connection_switch` | 1 user, 3 loops, 1 writer, watcher, control key, 3 events | types, `StoppedHasNoClient`, `ClosedIsQuiescent`, `NoOrphanSocket`, `OneLoopPerSession`, `OneAttemptPerSession`, `DeadSocketEndsSession`, refinement `SessionsKeepTheirClient` |
| `connection_recovery` | 1 user, 2 loops, watcher, 2 events, fair | `Recovers`, `SwitchDisconnects` |
| `connection_abandoned` | 1 user, 2 loops, no control Redis, 2 events | violates `NeverAbandoned` (finding 1) |
| `connection_absent_key` | 1 user, watcher, no event, fair | violates `AbsentKeyPreservesEnabled` (finding 2) |
| `repair_contention` | 1 job, 2 scheduler runs, 1 API run, up to 2 iterations | types, `CompleteMeansRepaired`, `LeaseRespected`, refinement `RepairsAreBounded` |
| `repair_settles` | 1 job, 1 scheduler run, 1 API run, fair | `EventuallySettled` |
| `scheduling` | suite: runs, jobs, cron, snapshots | types, `CoveredRunsAreExclusive`, `LedgerTellsTheEnd`, `OneTaskPerJob`, `StoppedMeansQuiet`, `RunsAtItsTimes`, `NoMinuteSleptThrough`, `CacheFollowsStore`, `BookmarksPassFinalBars` |
| `progress` | suite: runs, jobs, fair | `SchedulerKeepsOn` |
| `gateway` | suite: rate limiter, pacing (twice), feed methods, history | types, `BudgetsKept`, `PacingKept`, `PermitsConserved`, `CleanupIsComplete`, `TickersHaveASession`, `AnswersAreOfOneSession`, `HistoryHasNoHoles` |
| `range_lost` | as `gateway` | violates `RangeIsComplete` (finding 3) |
| `leases_leaked` | as `gateway` | violates `LeasesAreReleased` (finding 4) |
| `serving` | suite: routes (all of them; those whose cache is guarded), orders, streams, MCP server | types, `OneOrderPerKey`, `OrdersAreAccounted`, `StreamsEnd`, `StatesAreShared`, `OneLoadPerKey`, `KeptAnswersAreSound` |

The constants are in the `.cfg` files; what is a function or a set of functions is defined in the MC
module and named there. Deadlock is
checked for the repair queue only: the other models stop for good when a bound is used up and everything
is connected, closed or answered, and really may.

## 4. The connection manager

**`IBKRConnection`** models one `IBKRConnectionManager`. A step is what one coroutine does between two
suspensions; actions therefore interleave exactly where the code awaits something that can suspend.

| Model | Code |
|---|---|
| `enabled`, `closed`, `shuttingDown` | `connection_enabled`, `_closed`, `_shutting_down` |
| `generation`, `ib`, `ibGen`, `open` | `generation`, `_ib`, the generation that client was created for, the clients whose socket is open |
| `attempt[a]`, `connectTask` | the `_connect()` tasks: created, dialing (in `connectAsync`), dialed (after it, setting up); `_connect_task` while not done |
| `reconnectTask`, `reconnectLock` | `_reconnect_task` (kept when done, as in the code), the holder of `_reconnect_lock` |
| `frame[p]` | where each coroutine is suspended and the locals it will use: the captured generation, the attempt it awaits, its place at the control lock |
| `key`, `want` | the control key in Redis, what a writer was asked to store |

| Actions | Handler |
|---|---|
| `UserConnects`, `UserEnsures`, `UserLocks`, `UserReturns`, `UserCancelled` | `connect`, `ensure_connected`, cancellation of either |
| `UserDisconnects` | `disconnect` (`_stop_connection` up to the first await) |
| `ReconnectorStarts/Wakes/Locks/Returns/Fails` | `_reconnect` |
| `WatcherWakes`, `ControlGranted`, `RefreshEnables/Disables/Dropped` | `_watch_connection_control`, `refresh_connection_control`, `_apply_connection_switch`, and the rest of `connect()` after its second refresh |
| `WriteStarts`, `WriteStored`, `WriteFails`, `WriteCancelled` | `write_connection_control`; the five-second limit of `_drain_cleanup` |
| `AttemptDials/Refused/Connects/Fails`, `DialOpens` | `_connect`, `connectAsync` |
| `SocketDrops` | the peer or the network, `_on_ibkr_disconnected` |
| `KeyChanges` | another process or an operator (external) |

`connect()` refreshes the switch twice when a control Redis is configured (once through
`start_connection_control`, once itself): `control1` and `control2` in the model.

**`IBKRSession`** is the abstract specification. A client is offered when its socket opens, settles when its
attempt is over, and then stays until the generation ends; one that has not settled may be withdrawn, and another
one offered under the same generation. Orders, streams and feeds rely on it through `capture_session` and
`require_session`. `SessionsKeepTheirClient` says that the manager implements it; the refinement mapping is what
`capture_session` hands out (`SessionClient`, which asks for a live socket and not for a finished attempt) and
whether its attempt is over (`Settled`).

Abstractions, each of which adds behaviours or removes only reporting:

- Redis answers with the value the key has when the reply arrives; a read that errs or times out is
  an event.
- The retries inside `connectAsync`'s wrapper are part of "dialing".
- Session start and end callbacks, `last_error`, `desired_enabled`, `_connection_dead`, status
  publishing and logging are left out. `on_connected` is the circuit breaker's `record_success`,
  which does not suspend in a way that matters here.
- Cancelling a coroutine whose only way out is releasing locks takes effect at once; a cancelled
  attempt stays a step of its own, and may still open its socket first (ib_async may swallow a
  cancellation).
- Back-off delays are not measured: a sleeping loop may wake at any time.

**Bounds.** `MaxEvents` bounds what the world does (drops, failed dials, failed or cancelled calls,
writes, key changes, disconnects). Each such event ends at most one generation by itself, so three
events give several generations at once, with attempts and loops of earlier ones still winding down;
the hazards listed need two or three. Several users, and a manager without a control Redis, are covered
by the theorems, which hold for any `Users` and either `Redis`. Identities of loops and attempts are reused once nobody refers to
them; three of each are enough that no run is blocked for lack of one. Symmetry is used for users, loops,
writers and attempts in safety runs only. Deadlock is not checked: when the bound is used up and
the manager is connected or closed, it really may stop.

**Fairness** (`FairSpec`, liveness only). asyncio runs every ready callback and its locks are FIFO, so each
coroutine that can run again and again does: strong fairness per coroutine. Redis calls end by
their two-second timeout, `connectAsync` by its own timeout: weak fairness per attempt. Users, writers'
requests, the key, drops and failures are under no obligation. As events are bounded, "eventually" means
after the last failure.

## 5. The repair queue

**`RepairQueue`** models the `repairs` table (`row`) and the runs that work on it (`run`), which belong to the
scheduler process or to API requests and share nothing but the table. A step is one SQLite transaction
(they are `BEGIN IMMEDIATE` or single statements) or one stretch between two awaits.

| Actions | Code |
|---|---|
| `Enqueue` | `archive_dataset` of a capture with issues or with a failed primary store |
| `Starts` | the `data_quality_repair` handler (any `persist`), `POST /repairs/run` (never `persist`) |
| `Claim`, `ClaimsNothing` | `claim_repair`: sweep rows whose tries are used up, then claim one due row with a fresh token |
| `LoadErrs`, `BarsArrive`, `PrimaryStore`, `ArchiveResult`, `ArchiveErrs` | the body of `run_quality_repairs`: the refusals, the feed, `process_bars` with its two stores, the judgement |
| `Finish`, `LeaseLost` | `finish_repair`, the update guarded by state and token, and "repair lease lost" |
| `RunDies` | a crash, the request timeout, a cancellation: the lease is simply left to expire |
| `Tick` | five minutes pass |

Time is counted in units of five minutes: a job is due one unit after it is queued, a lease lasts
six, the back-off after the n-th try 2^n. A row keeps the time left until `due_at`, so the state space is
finite and every due row looks alike; `ORDER BY due_at` becomes a free choice among them. The lease
token is a uuid: the model takes any token that neither the table nor a run still holds. The answer of
the feed is one of clean, flawed (issues), fatal, or none (an empty window of a known calendar).
`submitted` and `archived` record what reached the two stores. `insert_bars` succeeds or fails;
which bars it wrote is not modelled. A dataset without an archive cannot occur (both processes
build their loader with the archive), so "repair result was not archived" is not.

**`RepairLedger`** is the abstract specification: a job is open, and then complete after at least
one try or exhausted after the last, for good; at most three tries. `RepairsAreBounded` is the
refinement.

**Bounds.** The table's rows do not interact except through a sweep, hence one job in the runs (several jobs
are covered by the theorems); three overlapping runs are a slow holder, a current holder and a third
that sweeps. In `repair_contention` (`ContentionSpec`) a run loops over a second repair only while the others
are idle: a bound on the instance. `MaxLimit` bounds the iterations of a run; the rest is finite by
itself. **Fairness**: cron keeps starting the scheduler's runs and a started run is not
killed before its first transaction for ever (strong fairness of the claim); loads and SQLite calls
end by their timeouts; time passes. Runs may die after every claim: three claims settle a job.

What the model shows but no property forbids: an API run uses up a try of a job that only the
scheduler can repair; a run that finishes after its lease has lost its result although both stores have it;
a job whose primary store had failed completes without a submission when the repaired window turns out
empty (hence the alternative in `CompleteMeansRepaired`).

## 6. The scheduler

### One job on several workers: `SchedulerRun`

`_run_once` of the workers that share a job, from trigger to release. `lease`/`ttl` are the key
`SchedulerLease::<job>`, `latest` is the run record, `run[w]` is where worker `w` is (`acquire`, `skip`, `record`,
`handler`, `backoff`, `cancelled`, `final`, `release`) with its token, attempt, timer and outcome.

| Actions | Code |
|---|---|
| `Triggered`, `Acquires`, `Refused`, `AcquireErrs`, `RecordsSkip` | a due run, `_acquire_job_lease` (SET NX EX; refused; failed before or after Redis executed it), the record of a skip |
| `RecordsRunning`, `HandlerReturns`, `HandlerFails`, `BacksOff` | the attempt loop: a returned result ends it, an exception or `wait_for`'s time-out is retried after `retry_backoff_seconds * attempt` |
| `RecordsFinal`, `RecordsCancelled`, `Releases`, `ReleaseErrs` | `_record_run_result`, the script that deletes only its own token |
| `Cancelled`, `Crashes`, `Tick` | a changed or removed job, the end of a shutdown; a dead worker; one unit of time, with the lease's expiry |

Redis calls take no time against a unit; any of them may fail, which counts against `MaxFaults` together with
cancellations and crashes. The jitter before a run is part of
"waiting": it is slept before the lease is asked for.
*Bounds*: two workers, two attempts of at most two units with a back-off of one: `RunTime` is five units, and the lease of
six is the shortest that covers it, so that `CoveredRunsAreExclusive` is neither vacuous nor slack. Two faults are enough for a lost reply followed by a crash. Four tokens leave
one fresh in every state. Larger instances are covered by the theorems.

### The job table: `SchedulerJobs`

One worker process: `files` and `redis` are the sources, `jobs`, `slot` and `task` the table, its tasks and
which of them are not done yet, `loader` the reload task with what it has merged so far.

| Actions | Code |
|---|---|
| `ReloadStarts`, `ScanReturns`, `ScanTimesOut`, `Gets`, `Loaded`, `LoadFails` | `reload_jobs_from_sources`: files, the scan of the keys, one GET per key |
| `Takes`, `StartsTask`, `CancelAndWait`, `Reconciles`, `Resumes`, `Reconciled` | `_reconcile_jobs`: an unchanged job keeps its task, a changed or removed one is cancelled and awaited |
| `TaskEnds` | a cancelled loop has wound down; a loop whose cron never matches dies |
| `RequestStop`, `StopBegins`, `LoaderEnds`, `DrainTimesOut`, `StopEnds` | `stop`, with its patience for running jobs |
| `RedisEdited` | an operator or the API changes a key (external) |

*Bounds*: two names, two definitions of which one is barren, four tasks (two of each name can be alive at most:
one that winds down and its successor, which is just what `OneTaskPerJob` excludes), one edit beside
any initial content of both sources, one failed load. *Abstraction*: reconciliation takes one name per
step, in any order, so more interleavings than the loop has.

### Cron: `CronSchedule`

`_parse_cron_expression`, `matches`, `next_cron_run` and `_run_cron_loop` over a calendar of any shape
(`MinutesPerHour` ... `MonthLengths`), with a clock of the job's zone that may shift once. `Meant` says what an
expression means, token by token, independently of the sets the parser builds. A star is bare or has a step:
`*/1` is every value too, but only the bare star is the wildcard of the rule for days and weekdays. *Bounds*: hours of two
minutes, days of three hours, weeks of three days and months of two and three days; day and weekday fields in
every combination of star, value, range, list, step, and the forms the parser rejects. Every boundary of
the code (end of hour, day, month, year, week, horizon) falls into 40 minutes.

### Snapshots: `SnapshotRun`

The three capture jobs: window, bookmark, calendar, load with the retry after HTTP 429, the primary store, the cache,
the bookmark; `equity_snapshot` captures all symbols together. A bar is the minute it begins in and is
unfinished while that minute lasts, which is what makes an inclusive bookmark necessary. Any await may fail,
and the scheduler's time-out, a stop or a crash may cut the run off anywhere (`Cancelled`).
*Bounds*: two symbols with one slot of concurrency (so one waits for the other), four minutes of which one is outside the
window, one retry, two faults.

### Liveness: `progress`

`SchedulerKeepsOn` joins `KeepsRunning` (whatever leases were left behind, the job runs again and again) and `Settles`
(the table ends up as the sources say, or the process stops). Fairness (`SchedulerRun!FairSpec`,
`SchedulerJobs!FairSpec`): intervals and cron keep triggering, Redis calls end by their time-outs,
handlers by `timeout_seconds`, time passes, cancelled tasks end. A worker that died comes back, as its
supervisor restarts it (`Crashes` leads to waiting). Faults and edits are bounded and under no obligation.

## 7. The traffic to IBKR

### Messages and lines: `RateLimitController`

Each "book" is Redis or one process's fallback; `lease[b]` are the market-data leases a book counts, `window[b]` its
message times, `line[r]` where a request is. A Lua script is one step; its call may fail before or after Redis
ran it (`FallsBack`), a release may fail (`ReleaseFails`), a process may die (`Dies`).
`BudgetsKept` says what is left of the limits when Redis comes and goes: every book keeps its own limit in every
rolling second, and no line in use escapes every book while its lease lasts. *Bounds*: one line of room for two
requests of one process, one message per window of two units, two failures, three units of time (a lease lasts
two): wide enough for a lease to expire in use and for both books to be at their limit. Any number
of processes, requests and failures is covered by the theorem.

### Pacing: `HistoricalPacing`

The guard in the process and its Redis twin with the same rules: weighted requests in a long window, requests of a
contract in a short one, a cool-down for identical requests; `permits` are the semaphores, `mode` the
ContextVar by which `release()` finds the semaphore it took from. The guard gives up its lock while it
waits: `Sleeps` only computes when to look again. A call that was granted its slot is recorded in the guard's table
(`GetsSlot`) and then waits in `with_retry` for the message limiter, however long (`"limiter"`, `SendsRequest`); IBKR
counts from the moment it sends. So `PacingKept` tells two kinds of requests in a window apart: the punctual ones, granted
their slot within the same span, keep all three limits; the stragglers, granted earlier and held back by the limiter, come on
top, at most one per permit. Two instances, each with three calls: `Limits` (two permits, windows of four, three and one
units, time up to five, cancellation at every await, no outage) for `PacingKept`; `Pool` (one permit, two units, an outage that
changes the guard, a resent request, cancellation once a call has its slot) for `PermitsConserved`. They are two
because `PacingKept` does not hold for resent requests nor across an outage, and `PermitsConserved` not for a
cancellation in a wait (known deviations); a single instance would leave out both.

### Feed methods: `FeedMethods`, `FeedRequests`

Every request method of the feed clients is a sequence of steps and a way to clean up (`care`): `none`; `bounded`
(an undo task with a time-out, P&L); `sync` (realtime bars); `late` (options: the release is behind another
await); `depth`; `retained` (a cleanup task of the feed that outlives its caller); `ticker` (`subscribe_ticker`: such a
task once there is a ticker, before that a release awaited by the caller itself, `Shielded`). `FeedMethods` lists them;
`FeedRequests` has the list as the constant `Method` and is the one interpreter that runs them: any step that awaits can fail, be cancelled, also again during the cleanup, or resume in another session. The
cleanup tasks have five seconds (`Expires`): a wait for the limiter cut short still cancels the subscription, a release cut
short loses the lease. Leases that nobody will release are counted until their time to live (`cut`, `expired`, `Leases`), and
`CleanupIsComplete` names the methods and the ends that may leave one. *Bounds*: any method against one that keeps
its line and one that is cancelled late, two lines, two symbols or pages, two sessions: an answer that crosses
a session boundary, a batch whose second symbol fails, and a full pool of lines all occur.

### History: `HistoricalRange`

The chunks of a paginated load, from the end of the range backwards, over any set of traded bars and any reply that begins up
to `Slack` before its chunk. *Bounds*: timestamps up to six, chunks of two, at most three chunks, `Slack` of one.

## 8. Orders, streams, MCP server

**`Orders`** has one sequence of steps per operation of the order client, with the range of steps in which an
exception is recorded in the envelope (`guard`), the idempotency key, the envelopes in Redis, what IBKR really has
(`broker`), sessions, outages and cancellations. The undo of a preview that timed out may itself raise, in the limiter or in
`cancelOrder`, which the envelope records. `OneOrderPerKey` relates key, callers and broker;
`UncertainOrdersAreMarked` relates what the envelope says to what the broker has. *Bounds*: two placements under one
key, or any other operation beside a look at the open orders; two legs, two sessions, one outage.

**`StreamingTickers`** models one generator per subscription with its producer, its watch on the session and everything
that can end it: the client, DELETE, the age limit, `max_updates`, the session, a failed subscription. *Bounds*: two
streams of up to two updates and up to one, each with a queue of two (a full queue with a late sentinel occurs), over
one registry and two sessions.

**`McpServer`** models `_acquire_mcp_shared_state`, `_release_mcp_shared_state` and the idle close, with the tools of
**`McpTools`** run by the sessions. Cancelling a session that waits for a close cancels the close task, as in the
code: the task takes the exception at its idle wait, in `close()`, or before its first step, which leaves `reuse` as it
was. A close that raises leaves the state closing for ever. *Bounds*: three sessions (one that leaves, one that stays, one that comes during the close), two states, two
cancellations, with and without an idle delay (`delayed`, chosen at the start). `OneClientId` is claimed for a positive
delay only.

## 9. The REST application

**`RestRoutes`** names every route and the ways through its handler as short sequences of what matters
to the state shared by requests: refusals, awaits, cache operations, the order token, the switch.
**`RestRequests`** runs requests on these ways over the response cache with its per-key locks, under
the request deadline, session changes, the switch, expiry and eviction at any time, and the cache's clear.
A lock is named by its key and the number of clears before it, because `clear()` forgets the locks.
All requests carry the same payload, the only case in which they meet. *Bounds*, in two parts of the run: any
route beside a clear, a news request (two nested loads) or the list of providers, in one session; and three requests on
the routes whose cache is guarded, over two (`Offered` in `MCServing`). The theorems cover any number.

## 10. Findings

1. `connection_abandoned`: a drop between the completion of an attempt and the resumption of the reconnect
   loop that awaited it is lost. `_schedule_reconnect` sees a task that is not done, and that task then returns
   without looking at the socket. With a control Redis the watcher repairs this at its next poll
   (`Recovers` holds); without one nothing does until the next `ensure_connected()`.
2. `connection_absent_key`: the README says that an absent control key preserves enabled behaviour; the code disables
   the manager, as its test asserts.
3. `range_lost`: a paginated load leaves its loop when the earliest bar of *any* chunk stands at or before that chunk's
   start, although the range goes on; everything older is missing and no error says so.
4. `leases_leaked`: option analytics, the underlying's snapshot, and a depth snapshot cut off in its cleanup end
   without releasing their line's lease when they are cancelled at the wrong await; so does `subscribe_ticker` when it is
   cancelled again while it releases the line it has no ticker for (`ibkr_reference_feed.py:458`), and a cleanup task whose
   five seconds are over (`ibkr_reference_feed.py:542`, `:621`, `equity_reference.py:228`). The line stays taken until
   its time to live. The architecture document keeps that for process crashes.

## 11. What is proved

All theorems hold for every value of the constants that satisfies the named assumptions. `PROJECT.json` lists
them under `theorems`. Every invariant and every action property of the passing runs is the statement of one of them;
liveness is out of the prover's reach and only model-checked.

**`IBKRConnectionProofs`** (`ProcsAssumption`, `ValuesAssumption`): `TypeCorrect`, `SessionInvariant`, and from it
`StoppedManagerHasNoClient`, `SocketsAreOwned`, `AttemptsAreShared`, `DeadSocketsAreNoticed` and the refinement
`ImplementsSession`. The inductive invariant `SessionInv` adds to the properties that no attempt or client belongs to a
later generation (`GensBounded`), that the manager's client has left the state "created" (`ClientSetUp`), and that a
client of the current generation whose attempt is over has an open socket and no attempt beside it
(`SettledSession`), and that a client with an open socket or an attempt still under way is of the current generation
(`CurrentClient`). Without `SettledSession` neither a second attempt under a live session nor a dead client under
a live generation could be excluded; without `CurrentClient` an obsolete client could be the one that
`capture_session` hands out. `LoopsAreUnique` follows from a second invariant (a loop which has not started, or which
works for the current generation, is the one in `_reconnect_task`), and `ClosedStaysQuiet` from both.

**`RepairQueueProofs`** (`RunsAssumption`, `NullsAssumption`, `LimitAssumption`): `QueueTypeCorrect`, `CompletedJobsAreRepaired`,
`LeasesAreRespected` and the refinement `ImplementsLedger`, from `QueueInv`: only running rows have a token
(`LeaseShape`), a run which holds the token of a row claimed it last and so knows its number of tries
(`HolderIsCurrent`), and what a run has done at each point (`WorkBacked`).

**`SchedulerRunProofs`** (`TokenAssumption`, `JobAssumption`): `RunsTyped`, `LedgerIsTrue`, `CoveringLeaseExcludes`. That two
handlers never overlap is not inductive: the invariant says that a run in its attempts owns the lease and that
the lease's remaining time exceeds the longest time the run can still take (`LeaseFits`), a sum of the remaining
attempts and of the back-offs between them, which grow with the attempt: hence triangle numbers
(`Left`, `Rest`). Every action either leaves that difference alone or both sides of it lose a unit (`Tick`).

**`RateLimitControllerProofs`** (`ControllerAssumption`): `BudgetsHold`. The invariant strengthens "a line in use is
counted" to "by a lease that expires no earlier than the line believes" (`Counted`), and each book's window is
bounded in every rolling second because a message is added only where the last `Window` units have room.

**`RestRequestsProofs`**: `SingleFlight` uses nothing of the routes. A load runs under a lock named by key and clears; the
invariant is the property with the shape of requests and locks (`LockInv`), and the argument goes over what a step can do
to the locks held and to the entries. `GuardedAnswersAreSound` (`KeptAnswersAreSound`) is about the routes with a
`cache_if`: `KeptInv` says that a request on one of them is on one of its ways, and that the session it captured, the one its
load began in and the present one follow each other in this order. Only then does an unchanged generation at the end
mean that every part of the answer came from the session in the key. The types (`TypesInv`, used by `ServingIsTyped` below)
need every route: a request is on one of the ways of its route or has ended in one of the known manners.

**`SchedulingProofs`** (about `MCScheduling`, under its `PartsAssumption`):

- `JobsRunOnce` and `StopIsComplete`, from `JobsInv`: what each task can be (`Placed`), what each name's slot can hold
  (`SlotFits`), and that nothing is left once the process is stopped. The property alone is not inductive: that a new task
  is alone needs that the one it replaces was awaited, which is a fact about the place of reconciliation.
- `CacheShowsTheStore` and `BookmarksAreSafe`, from `SnapInv`: for each symbol's work, what was asked for, what was loaded
  and what was stored (`Fits`), the cache against the store (`CacheFits`), and no bookmark ahead of the clock. Hypotheses: bars of
  `ohlcv_snapshot` come from the REST API (`OhlcvThroughApi`), because direct mode drops the report of a failed store; and, for
  the second theorem, a bookmark of its own for each symbol (`KeysDiffer`). Both are deviations of section 13.
- `CronRunsAtItsTimes` and `CronSkipsNoMinute`, from `CronInv`: while the loop sleeps no minute of its expression lies between
  the minute it computed in and the one it waits for; and the parser agrees with `Meant`, token by token. Hypothesis: summer time
  neither begins nor ends (`NoShift`), see section 13. Any calendar, any expressions.
- `SchedulingTyped`: the types of all parts, without these hypotheses.

**`GatewayProofs`** (about `MCGateway`, under its `PartsAssumption`):

- `LoadedRangesAreWhole`, from `RangeInv`: everything wanted from the end of the next chunk on has been loaded.
- `PacingIsKept`, from `LimitsInv`: what the guard granted keeps the limits in every window (`GrantsInv`); a call sends once,
  and never before it was granted its slot (`SendsFollow`); and those granted by some time and not sent by then are at most the
  permits, at every time so far (`StragglersHold`), because each of them held one throughout (`PermitsHeld`). The punctual
  requests of a window are then among its grants, one to one, and the stragglers are bounded. Callers may be cancelled
  anywhere, although each then may keep its permit. Hypotheses of the instance: nothing is sent again and Redis stays up
  (section 13 says why).
- `PermitsAreConserved`, from `PoolInv`: for either guard, free permits and holders are all there are; a call that has its slot,
  at the limiter or in flight, knows the guard whose permit it holds, whichever guard is in force by now. Counting holders uses
  the library's facts about cardinality. Hypothesis of the instance: callers are cancelled only once they have their slot
  (section 13).
- `CleanupIsAlwaysComplete`, `TickersAlwaysHaveASession`, `AnswersAreAlwaysOfOneSession` (an action property), from `FeedInv`: how
  many lines and tickers a request has at each step of its method, and of which session they are; and a lease is lost only by
  the methods and the ends that `CleanupIsComplete` names (`Lost`), the others release all they took, through any number of
  cancellations. The lemmas before it say
  once what every method's sequence of steps looks like; the rest of the proof cites only that shape.
- `GatewayIsTyped`, from `GatewayInv`, without these hypotheses, and with every bound the types state. How many requests a
  feed method has sent, and so how many lines and tickers it has, is bounded by numbering the sends of its sequence of steps
  (`Numbered`): the n-th send stands at a place of its own, so what was sent by a place has a number below it (`FeedBounds`).
  The numbering replaces an induction over the sequence, which the provers cannot do.
- `LinesAreNotOverbooked`: the lines all feed methods hold together are at most the account's. `FeedBounds` counts them as a
  set of pairs of a request and the number of its line (`Held`), which grows by one element when a line is taken; a sum over
  the requests would need an induction over their set.
- `GuardsKeepTheirLimits`: with retries, outages and a guard that is replaced under way, each guard's own table obeys all
  three limits, and nothing is sent by a call that no guard has recorded (`TablesInv`): what goes wrong in the excluded cases
  (section 13) is a second sending, or two guards that each know a part.

**`ServingProofs`** (about `MCServing`, under its `PartsAssumption`):

- `OrdersAreSentOnce` (`OneOrderPerKey`) and `OrdersAreAlwaysAccounted`, from `OrdersInv`: per call, what it has sent, what its
  envelope says and where it stands agree (`CallFits`); a key is held by the only call with that key that has come past the
  reservation (`KeyFits`); a replayed answer is the holder's (`ReplaysFit`). The lemma `OperationsFit` says of each operation, with
  any number of legs, that wherever an exception can strike after an order may have been sent it is recorded.
- `StreamsAlwaysEnd`, from `StreamsInv`: where each stream's generator stands tells whether it can have helpers, a line and a
  registration, and how many updates it has sent since it was told to stop; and the gauge is the size of the registry.
- `StatesAreAlwaysShared`, from `McpInv`: a session inside has the current state, which is not closing (`SessionsFit`); that state
  counts its sessions, and only a state that closes has a task doing so (`StatesFit`); one session builds at a time
  (`OneBuilder`); and, with an idle delay, only the current state or the one being built uses the client id (`OneConnects`).
- `ServingIsTyped`, from these invariants and the bounds of each part. Orders (`OrderBounds`): an operation, broken off anywhere,
  has attempted no more orders than it has legs, because its n-th send stands at a known step (`SendsNumbered`, for any number of
  legs), and IBKR has no more of them than were attempted. Streams (`StreamBounds`): a queue that is full drops its oldest
  update, and the gauge stays within the streams, of which there are finitely many. MCP (`McpBounds`): every state counts no
  more sessions than there are, also one that is no longer current, because only the current state's count grows; and a
  tool places at most one order per step. Requests: `TypesInv` of `RestRequestsProofs`.

Only model-checked:

- liveness (`Recovers`, `SwitchDisconnects`, `EventuallySettled`, `SchedulerKeepsOn`), which is out of the prover's reach;
- and what the runs with findings violate, where the result is a counterexample.

## 12. Properties and mutants

Each property has a mutant in `PROJECT.json`: an operator defined just before the one it replaces
(`\* Mutant:` comments), the way a plausible bug would change it. TLC finds the property violated
under the run's own configuration.

## 13. Known deviations

What the code does and a property therefore does not claim: found while modelling, by reading or by a run with other constants.

*Scheduler.* A run may outlive its lease, which is not renewed (`scheduler.py:410`, `:477`): then two workers run the job,
contrary to README:162; hence `LeaseCoversRun`. A result "failed" that a handler *returns* is not retried (`scheduler.py:479`).
A scan of the job keys that times out counts as empty, and reconciliation stops the jobs of Redis until the next good reload
(`scheduler.py:206`). A disabled Redis definition does not switch off a local file's job of the same name
(`scheduler.py:220`). The cron loop's wait is a difference of wall-clock times, wrong when summer time begins or ends
in between (`scheduler.py:386`); `RunsAtItsTimes` is checked and proved without a shift. A job loop that died is not restarted.

*Connection manager.* `capture_session` hands out a client whose attempt is still setting it up (`ibkr_connection.py:308`). If
the setup then fails (`:394`) or the socket drops (`:640`), the client is disposed of and may be replaced without
`_end_session`: the generation stays and no session-end callback runs, so a ticker registered in between stays registered until
the next session ends. `require_session` notices once `_ib` has changed, but not while a dead socket awaits the failure
of its attempt. `SessionsKeepTheirClient` therefore speaks of settled clients.

*Pacing and rate limiter.* A request cancelled while it waits for a slot keeps its permit (`pacing.py:60`). `with_retry` sends a historical
request again without asking the guard (`ibkr_connection.py:752`). It also waits for the message limiter after the guard has
recorded the request (`:740`): requests granted at different times may be sent together, so that IBKR may see up to one
request per permit more in a window than the guard counts; `PacingKept` claims no more than that. The clock of a Lua script
is the client's, read before the awaited call (`ibkr_rate_limit.py:526`, `:552`), where the models read it and run the script in one
step: a delay of Redis adds to the error of a window, as clocks that differ between processes do. A lease acquired while Redis was down is released in
Redis, or the other way round, and stays counted until it expires; waiters sleep until the oldest lease
expires even if it is released earlier. A weight above the limit raises in the local limiter.

*Feed cleanups.* `subscribe_ticker` releases a line it has no ticker for in the caller's own task
(`ibkr_reference_feed.py:458`): a second cancellation there loses the lease. A cleanup task has five seconds (`:542`, `:621`): a
release that is cut short by that limit loses its lease. Finding 4 has the other methods.

*Snapshots.* In direct mode `load()` drops the report of a failed primary store and the bookmark moves on
(`BookmarksPassFinalBars` is checked and proved for bars from the REST API). Two symbols of one job may share a bookmark key. A
cancellation of one symbol ends the whole run. `last_quality_report` is shared and read after an await.

*Orders.* A caller cancelled during the final write leaves the envelope pending, without an answer or a mark
(`OrdersAreAccounted` excludes envelopes that could not be written). A process that dies between the reservation and the envelope
blocks the key for 24 hours; the key is not tied to the request's body. `Idempotency-Replayed` is never set to true. Envelopes are
stored without a time to live although the router says 24 hours. The undo of a preview that raises (`ibkr_order_client.py:813`)
leaves the what-if order behind, marked in the envelope of the call.

*MCP server.* A session cancelled while it waits for a close cancels the close task (`mcp_server.py:154`), a second one leaves the
state closing for ever, and so does a close that raises (`:181`; `AppState.close` swallows the ordinary exceptions of its own
parts, `dependencies.py:50`). A close task cancelled before its first step leaves `reuse` set (`:185`), so that later
the first cancelled wait already leaves the state closing for ever. A cancelled build leaves its feed connected under the client id (`:143`); an idle delay of zero allows two
states at a time (`OneClientId` excludes these). Connection flags are those of the build. Bracket and OCA tools place orders
without the order client, hence without envelope or key.

*Streams.* The request deadline cuts a stream off although its docstring says it lasts until the client leaves. A response that is never
iterated leaves its registration until the age limit. Stopping realtime bars only removes the registration.

*REST.* A range of bars has no single flight (`market_data_shared.py:541`), its key does not contain `cache_latest`; bond yields
load before they look into the cache. A clear drops the per-key locks, so a load after it may run beside one before it
(`OneLoadPerKey` is about loads that share a lock). Commodity futures, symbol news and some other routes cache partial
answers. The deadline may send a second response start. INCR and EXPIRE of the HTTP rate limiter are two calls.

*Repairs.* An API run uses up a try of a job that only the scheduler can repair; a run that finishes after its lease has lost its
result although both stores have it; a job whose primary store had failed completes without a submission
when the repaired window turns out empty (hence the alternative in `CompleteMeansRepaired`).

*Circuit breaker* (read, not modelled). In HALF_OPEN every concurrent caller passes (`circuit_breaker.py:101`).

## 14. Not modelled

- `with_retry` for requests after connect appears as a call that is sent and answered (and as `Resends` in the pacing
  model); market-data error events, status publishing, telemetry and notifications are reporting.
- The circuit breaker: three counters and a state without an await of its own; a call it refuses is one that fails.
- Point-in-time archive queries, storage clients: SQL text and ILP; the models take a store as an action
  that succeeds or fails.
- Numerical analytics (floating point), Pydantic models, contract and order building, normalization: no state of their
  own that a model checker could tell apart.
- Realtime bars' registry, the deprecated market-data budget (no caller), the dashboard, command lines and wiring.
- How the HTTP rate limiter counts; security headers; correlation ids.
