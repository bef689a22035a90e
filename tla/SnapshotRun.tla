----------------------------- MODULE SnapshotRun -----------------------------
(***************************************************************************)
(* The jobs that capture market data (src/transport/scheduler_handlers.py, *)
(* src/feeds/ohlcv_loader.py): ohlcv_snapshot with its bookmarks,          *)
(* market_snapshot and equity_snapshot.                                    *)
(*                                                                         *)
(* The scheduler's lease keeps one run of a job going at a time            *)
(* (SchedulerRun).  A bar is the minute it begins in; while that minute    *)
(* lasts the bar is unfinished.  A step of a symbol is what its coroutine  *)
(* does between two awaits.                                                *)
(***************************************************************************)
EXTENDS Integers, FiniteSets

CONSTANTS
    Symbols,
    KeyOf,              \* the bookmark key of a symbol: job, symbol name, bar size
    Kinds,              \* the kinds of job
    ApiMode,            \* bars come from the REST API (IBKR_REST_BASE_URL)
    OpenAt,             \* the minutes inside the job's window
    Duration,           \* of a request without a bookmark, in bars
    MaxConcurrency,
    RetryCount,         \* api_rate_limit_retry_count
    MaxFaults, MaxTime

SnapshotAssumption ==
    /\ KeyOf \in [Symbols -> Symbols] /\ ApiMode \in BOOLEAN
    /\ Kinds \subseteq {"ohlcv_snapshot", "market_snapshot", "equity_snapshot"}
    /\ {Duration, MaxConcurrency} \subseteq Nat \ {0}
    /\ {RetryCount, MaxFaults, MaxTime} \subseteq Nat

VARIABLES
    kind,       \* of the job
    now,
    work,       \* _run_symbol of each symbol
    status,     \* the result of the last run, or "running"
    bookmark,   \* OhlcvSnapshot::...:last_ts
    stored,     \* the rows of the primary store
    cached,     \* the latest value in Redis
    faults

vars == <<kind, now, work, status, bookmark, stored, cached, faults>>

Time == 0..MaxTime
None == -1

Idle == [pc |-> "done", start |-> 0, end |-> None, attempt |-> 1, outcome |-> "success"]

Pcs == {"queued", "calendar", "load", "retry", "capture", "persist", "cache", "mark",
        "done"}
Outcomes == {"success", "degraded", "skipped_holiday", "failed"}

TypeOK ==
    /\ kind \in Kinds /\ now \in Time /\ faults \in 0..MaxFaults
    /\ work \in [Symbols -> [pc : Pcs, start : -Duration..MaxTime,
                             end : Time \cup {None}, attempt : 1..RetryCount + 1,
                             outcome : Outcomes]]
    /\ status \in Outcomes \cup {"none", "running", "partial_success",
                                 "skipped_window", "cancelled"}
    /\ bookmark \in [Symbols -> Time \cup {None}]
    /\ stored \in [Symbols -> [Time -> {"absent", "unfinished", "final"}]]
    /\ cached \in [Symbols -> Time \cup {None}]

Init ==
    /\ kind \in Kinds /\ now = 0 /\ faults = 0
    /\ work = [s \in Symbols |-> Idle] /\ status = "none"
    /\ bookmark = [s \in Symbols |-> None]
    /\ stored = [s \in Symbols |-> [t \in Time |-> "absent"]]
    /\ cached = [s \in Symbols |-> None]

Fault == faults < MaxFaults /\ faults' = faults + 1
Data == <<bookmark, stored, cached>>

-----------------------------------------------------------------------------
\* A run.

\* OHLCVSnapshotJobHandler.__call__: outside its window the job does nothing.
Skips ==
    /\ kind = "ohlcv_snapshot" /\ status # "running" /\ now \notin OpenAt
    /\ status' = "skipped_window"
    /\ UNCHANGED <<kind, now, work, faults, Data>>

Starts(symbols, pc) ==
    [s \in Symbols |-> [Idle EXCEPT !.pc = IF s \in symbols THEN pc ELSE @]]

\* A market_snapshot job has one symbol.
Triggered ==
    /\ status # "running"
    /\ \/ kind = "ohlcv_snapshot" /\ now \in OpenAt /\ work' = Starts(Symbols, "queued")
       \/ kind = "market_snapshot" /\ \E s \in Symbols : work' = Starts({s}, "load")
       \/ kind = "equity_snapshot" /\ work' = Starts(Symbols, "capture")
    /\ status' = "running"
    /\ UNCHANGED <<kind, now, faults, Data>>

With(outcome) == {s \in Symbols : work[s].outcome = outcome}

JobStatus ==
    IF With("failed") = Symbols THEN "failed"
    ELSE IF With("failed") \cup With("degraded") # {} THEN "partial_success"
    ELSE IF With("skipped_holiday") = Symbols THEN "skipped_holiday" ELSE "success"

Ends ==
    /\ status = "running" /\ \A s \in Symbols : work[s].pc = "done"
    /\ status' = JobStatus
    /\ UNCHANGED <<kind, now, work, faults, Data>>

\* The scheduler's time-out, a stop or a crash, at any await
Cancelled ==
    /\ status = "running" /\ Fault
    /\ status' = "cancelled" /\ work' = Starts({}, "done")
    /\ UNCHANGED <<kind, now, Data>>

-----------------------------------------------------------------------------
\* A symbol.

At(s, pc) == status = "running" /\ work[s].pc = pc
Becomes(s, w) == work' = [work EXCEPT ![s] = w]
Goes(s, pc) == Becomes(s, [work[s] EXCEPT !.pc = pc])
Finishes(s, outcome) == Becomes(s, [work[s] EXCEPT !.pc = "done", !.outcome = outcome])

Running == {s \in Symbols : work[s].pc \notin {"queued", "done"}}

\* Mutant: the next request begins after the bar the bookmark names.
AfterBookmark(s) ==
    IF bookmark[KeyOf[s]] # None THEN bookmark[KeyOf[s]] + 1 ELSE now - Duration

\* Bookmarks are inclusive.
Start(s) ==
    IF bookmark[KeyOf[s]] # None THEN bookmark[KeyOf[s]] ELSE now - Duration

\* _read_bookmark, under the semaphore
ReadsBookmark(s) ==
    /\ At(s, "queued") /\ Cardinality(Running) < MaxConcurrency
    /\ Becomes(s, [work[s] EXCEPT !.start = Start(s),
                                  !.pc = IF ApiMode THEN "load" ELSE "calendar"])
    /\ UNCHANGED <<kind, now, status, faults, Data>>

\* _has_trading_session; API mode does not ask.
AsksCalendar(s) ==
    /\ At(s, "calendar")
    /\ Goes(s, "load") \/ Finishes(s, "skipped_holiday")
    /\ UNCHANGED <<kind, now, status, faults, Data>>

\* The reply: the bars up to now, the last of them unfinished.
LoadsFrom(s) == IF kind = "ohlcv_snapshot" THEN work[s].start ELSE now - Duration
Loads(s) ==
    /\ At(s, "load")
    /\ Becomes(s, [work[s] EXCEPT !.pc = "persist", !.start = LoadsFrom(s),
                                  !.end = now])
    /\ UNCHANGED <<kind, now, status, faults, Data>>

\* The window holds no bars: nothing to store, cache or mark.
LoadsNothing(s) ==
    /\ At(s, "load") /\ Finishes(s, "success")
    /\ UNCHANGED <<kind, now, status, faults, Data>>

\* HTTP 429: _post_ohlcv_with_rate_limit_retry sleeps and asks again.
RateLimited(s) ==
    /\ ApiMode /\ kind = "ohlcv_snapshot" /\ At(s, "load") /\ Fault
    /\ IF work[s].attempt > RetryCount THEN Finishes(s, "failed") ELSE Goes(s, "retry")
    /\ UNCHANGED <<kind, now, status, Data>>

Retries(s) ==
    /\ At(s, "retry")
    /\ Becomes(s, [work[s] EXCEPT !.pc = "load", !.attempt = @ + 1])
    /\ UNCHANGED <<kind, now, status, faults, Data>>

\* Redis, the calendar, IBKR or the API fail, the bars are fatally bad, the archive
\* fails.
StepFails(s) ==
    /\ kind # "equity_snapshot"
    /\ \E pc \in {"queued", "calendar", "load", "persist", "mark"} : At(s, pc)
    /\ Fault /\ Finishes(s, "failed")
    /\ UNCHANGED <<kind, now, status, Data>>

\* What the store holds once it has the bars; rows are upserted.
Rows(s) ==
    [t \in Time |->
        IF t \notin work[s].start..work[s].end THEN stored[s][t]
        ELSE IF t < work[s].end THEN "final" ELSE "unfinished"]

Persists(s) ==
    /\ kind # "equity_snapshot" /\ At(s, "persist")
    /\ stored' = [stored EXCEPT ![s] = Rows(s)]
    /\ Goes(s, "cache")
    /\ UNCHANGED <<kind, now, status, faults, bookmark, cached>>

\* process_bars reports a failed primary store: API mode raises, load() drops the
\* report, with the cache skipped if it was load() that had to write it.
StoreFails(s) ==
    /\ kind # "equity_snapshot" /\ At(s, "persist") /\ Fault
    /\ \/ kind = "market_snapshot" /\ Finishes(s, "success")
       \/ kind = "ohlcv_snapshot" /\ ApiMode /\ Finishes(s, "failed")
       \/ kind = "ohlcv_snapshot" /\ ~ApiMode /\ Goes(s, "cache")
    /\ UNCHANGED <<kind, now, status, Data>>

\* A write of the cache that fails is a warning.
Caches(s) ==
    /\ At(s, "cache")
    /\ \/ /\ cached' = [cached EXCEPT ![s] = work[s].end] /\ UNCHANGED faults
          /\ IF kind = "ohlcv_snapshot" THEN Goes(s, "mark") ELSE Finishes(s, "success")
       \/ /\ Fault /\ UNCHANGED cached
          /\ CASE kind = "ohlcv_snapshot" -> Goes(s, "mark")
               [] kind = "market_snapshot" -> Finishes(s, "success")
               [] kind = "equity_snapshot" -> Finishes(s, "degraded")
    /\ UNCHANGED <<kind, now, status, bookmark, stored>>

\* _write_bookmark
Marks(s) ==
    /\ At(s, "mark")
    /\ bookmark' = [bookmark EXCEPT ![KeyOf[s]] = work[s].end]
    /\ Finishes(s, "success")
    /\ UNCHANGED <<kind, now, status, stored, cached, faults>>

-----------------------------------------------------------------------------
\* EquitySnapshotJobHandler: all symbols together.

Captured == {s \in Symbols : work[s].pc = "persist"}

Captures ==
    /\ kind = "equity_snapshot" /\ status = "running" /\ \A s \in Symbols : At(s, "capture")
    /\ \E good \in SUBSET Symbols :
          work' = [s \in Symbols |->
                    IF s \in good
                    THEN [Idle EXCEPT !.pc = "persist", !.start = now, !.end = now]
                    ELSE [Idle EXCEPT !.outcome = "failed"]]
    /\ UNCHANGED <<kind, now, status, faults, Data>>

\* Mutant: the snapshots go to the cache whatever the store said.
CacheAnyway == "cache"

UnstoredGo == "done"

PersistsSnapshots ==
    /\ kind = "equity_snapshot" /\ status = "running" /\ Captured # {}
    /\ \/ /\ stored' = [s \in Symbols |-> IF s \in Captured THEN Rows(s) ELSE stored[s]]
          /\ work' = [s \in Symbols |->
                        IF s \in Captured THEN [work[s] EXCEPT !.pc = "cache"] ELSE work[s]]
          /\ UNCHANGED faults
       \/ /\ Fault
          /\ work' = [s \in Symbols |->
                        IF s \in Captured
                        THEN [work[s] EXCEPT !.pc = UnstoredGo, !.outcome = "degraded"]
                        ELSE work[s]]
          /\ UNCHANGED stored
    /\ UNCHANGED <<kind, now, status, bookmark, cached>>

Tick ==
    /\ now < MaxTime /\ now' = now + 1
    /\ UNCHANGED <<kind, work, status, faults, Data>>

SymbolSteps(s) ==
    \/ ReadsBookmark(s) \/ AsksCalendar(s) \/ Loads(s) \/ LoadsNothing(s)
    \/ RateLimited(s) \/ Retries(s) \/ StepFails(s) \/ Persists(s) \/ StoreFails(s)
    \/ Caches(s) \/ Marks(s)

Next ==
    \/ Skips \/ Triggered \/ Ends \/ Cancelled \/ Tick
    \/ Captures \/ PersistsSnapshots
    \/ \E s \in Symbols : SymbolSteps(s)

Spec == Init /\ [][Next]_vars

-----------------------------------------------------------------------------

(* "bookmarks update only after the durable write has succeeded" and "are
   inclusive": when the bookmark of a symbol moves on, every bar it passes is
   in the store, and as it was when its minute had ended. *)
BookmarksPassFinalBars ==
    [][\A s \in Symbols :
         LET from == bookmark[KeyOf[s]]
             to == bookmark'[KeyOf[s]] IN
         from # None /\ to # from =>
             /\ \A t \in from..to - 1 : stored'[s][t] = "final"
             /\ stored'[s][to] # "absent"]_vars

(* "Persist to QuestDB first, cache to Redis only on success"
   (EquitySnapshotJobHandler): the cache never shows what the store has not. *)
CacheFollowsStore ==
    \A s \in Symbols : cached[s] # None => stored[s][cached[s]] # "absent"
=============================================================================
