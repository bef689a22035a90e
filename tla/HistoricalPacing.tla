-------------------------- MODULE HistoricalPacing --------------------------
(***************************************************************************)
(* The pacing of historical requests to IBKR: the guard in the process     *)
(* (src/feeds/pacing.py), the one in Redis that falls back to it           *)
(* (src/transport/ibkr_rate_limit.py), and the callers that hold a permit  *)
(* of the guard while with_retry sends the request                         *)
(* (IBKRHistoricalClient.load_historical_ohlcv and its siblings).          *)
(*                                                                         *)
(* Both guards keep three tables that are always written together, so one  *)
(* bag of records stands for them: a record is pruned from each when it is *)
(* too old to matter there.  A call that is granted a slot still waits for *)
(* the message limiter (wait_for_ibkr_request) before it sends.            *)
(***************************************************************************)
EXTENDS Naturals, FiniteSetsExt

CONSTANTS
    Calls,                  \* tasks, one request each
    Series, ContractOf,     \* request keys and their contract key
    Weight,                 \* BID_ASK counts twice
    SeriesOf,               \* what a call asks for
    First,                  \* the guard the process is built with
    Permits,                \* max_concurrent_requests
    Window, WindowMax, Cooldown, Burst, BurstMax,
    MaxAttempts,            \* of with_retry
    CancelledAt,            \* where a caller may be cancelled
    MaxOutages, MaxTime     \* bounds on Redis failures and on the clock

PacingAssumption ==
    /\ {Permits, Window, WindowMax, Cooldown, Burst, BurstMax, MaxAttempts}
          \subseteq Nat \ {0}
    /\ {MaxOutages, MaxTime} \subseteq Nat
    /\ First \in {"redis", "local"}
    /\ CancelledAt \subseteq {"permit", "slot", "limiter", "flight"}
    /\ IsFiniteSet(Calls) /\ SeriesOf \in [Calls -> Series]
    /\ Weight \in [Series -> 1..WindowMax]

VARIABLES
    now,
    pc, guard,      \* of a call: its state, and the guard it is in
    mode,           \* the Redis guard's ContextVar in the task of the call
    wake, attempt,
    permits,        \* free permits of the two semaphores
    table,          \* requests recorded by a guard
    sent,           \* requests sent to IBKR
    outages

vars == <<now, pc, guard, mode, wake, attempt, permits, table, sent, outages>>

Both == {"redis", "local"}
Event == [call : Calls, attempt : 1..MaxAttempts, at : 0..MaxTime]

TypeOK ==
    /\ now \in 0..MaxTime
    /\ pc \in [Calls -> {"idle", "permit", "slot", "limiter", "flight", "done"}]
    /\ guard \in [Calls -> Both] /\ mode \in [Calls -> Both \cup {"none"}]
    /\ wake \in [Calls -> Nat] /\ attempt \in [Calls -> 1..MaxAttempts]
    /\ permits \in [Both -> Nat]
    /\ table \in [Both -> SUBSET Event] /\ sent \subseteq Event
    /\ outages \in 0..MaxOutages

Init ==
    /\ now = 0 /\ pc = [c \in Calls |-> "idle"]
    /\ guard = [c \in Calls |-> First]
    /\ mode = [c \in Calls |-> "none"]
    /\ wake = [c \in Calls |-> 0] /\ attempt = [c \in Calls |-> 1]
    /\ permits = [g \in Both |-> Permits]
    /\ table = [g \in Both |-> {}] /\ sent = {} /\ outages = 0

-----------------------------------------------------------------------------
\* The three rules, over a set of past events.

Recent(events, span) == {e \in events : now - e.at < span}
SameSeries(events, c) == {e \in events : SeriesOf[e.call] = SeriesOf[c]}
SameContract(events, c) ==
    {e \in events : ContractOf[SeriesOf[e.call]] = ContractOf[SeriesOf[c]]}

\* A request takes as many places in the long window as it counts.
Places(e) == {e} \X (1..Weight[SeriesOf[e.call]])
Load(events) == Cardinality(UNION {Places(e) : e \in events})

\* How long until the oldest event leaves its window
Left(events, span) == span - (now - Min({e.at : e \in events}))

\* Mutant: a BID_ASK request counts once.
WindowWaitsUnweighted(events, c) ==
    LET window == Recent(events, Window)
    IN  IF Cardinality(window) + 1 > WindowMax THEN {Left(window, Window)} ELSE {}

WindowWaits(events, c) ==
    LET window == Recent(events, Window)
    IN  IF Load(window) + Weight[SeriesOf[c]] > WindowMax
        THEN {Left(window, Window)} ELSE {}

CooldownWaits(events, c) ==
    LET same == SameSeries(Recent(events, Cooldown), c)
    IN  IF same # {} THEN {Left(same, Cooldown)} ELSE {}

BurstWaits(events, c) ==
    LET burst == SameContract(Recent(events, Burst), c)
    IN  IF Cardinality(burst) >= BurstMax THEN {Left(burst, Burst)} ELSE {}

\* _required_wait_seconds, REDIS_HISTORICAL_PACING_LUA
RequiredWait(events, c) ==
    Max({0} \cup WindowWaits(events, c) \cup CooldownWaits(events, c)
            \cup BurstWaits(events, c))

-----------------------------------------------------------------------------
Goes(c, to) == pc' = [pc EXCEPT ![c] = to]

Asks(c) ==
    /\ pc[c] = "idle" /\ Goes(c, "permit")
    /\ UNCHANGED <<now, guard, mode, wake, attempt, permits, table, sent, outages>>

TakesPermit(c) ==
    /\ pc[c] = "permit" /\ permits[guard[c]] > 0
    /\ permits' = [permits EXCEPT ![guard[c]] = @ - 1]
    /\ wake' = [wake EXCEPT ![c] = now] /\ Goes(c, "slot")
    /\ UNCHANGED <<now, guard, mode, attempt, table, sent, outages>>

Records(c, event) == table' = [table EXCEPT ![guard[c]] = @ \cup {event}]

\* The tables are read and written under the lock, or by one script.
GetsSlot(c) ==
    /\ pc[c] = "slot" /\ now >= wake[c] /\ RequiredWait(table[guard[c]], c) = 0
    /\ Records(c, [call |-> c, attempt |-> 1, at |-> now])
    /\ mode' = [mode EXCEPT ![c] = guard[c]] /\ Goes(c, "limiter")
    /\ UNCHANGED <<now, guard, wake, attempt, permits, sent, outages>>

Sleeps(c) ==
    /\ pc[c] = "slot" /\ now >= wake[c] /\ RequiredWait(table[guard[c]], c) > 0
    /\ wake' = [wake EXCEPT ![c] = now + RequiredWait(table[guard[c]], c)]
    /\ UNCHANGED <<now, pc, guard, mode, attempt, permits, table, sent, outages>>

\* Mutant: the permit of the Redis guard is kept by a call that falls back.
KeepsPermit == UNCHANGED permits

GivesPermitBack == permits' = [permits EXCEPT !["redis"] = @ + 1]

\* A Redis error: the call starts again with the guard in the process.  The
\* script may have run, and only its reply been lost.
FallsBack(c) ==
    /\ pc[c] = "slot" /\ guard[c] = "redis" /\ now >= wake[c]
    /\ outages < MaxOutages /\ outages' = outages + 1
    /\ \/ UNCHANGED table
       \/ /\ RequiredWait(table["redis"], c) = 0
          /\ Records(c, [call |-> c, attempt |-> 1, at |-> now])
    /\ GivesPermitBack
    /\ guard' = [guard EXCEPT ![c] = "local"] /\ Goes(c, "permit")
    /\ UNCHANGED <<now, mode, wake, attempt, sent>>

\* release() in the caller's finally.  The local guard returns a permit whoever
\* calls; the Redis guard returns the one its ContextVar names.
Release(c) ==
    /\ LET g == IF First = "local" THEN "local" ELSE mode[c]
       IN  permits' = IF g = "none" THEN permits ELSE [permits EXCEPT ![g] = @ + 1]
    /\ mode' = [mode EXCEPT ![c] = "none"]
    /\ Goes(c, "done")

\* The message limiter lets the call through, however long that took.
SendsRequest(c) ==
    /\ pc[c] = "limiter" /\ Goes(c, "flight")
    /\ sent' = sent \cup {[call |-> c, attempt |-> attempt[c], at |-> now]}
    /\ UNCHANGED <<now, guard, mode, wake, attempt, permits, table, outages>>

\* A reply, an error that is not retried, or a session that changed
Ends(c) ==
    /\ pc[c] \in {"limiter", "flight"} /\ Release(c)
    /\ UNCHANGED <<now, guard, wake, attempt, table, sent, outages>>

\* Mutant: the attempts are not counted.
ResendsForever(c) ==
    /\ pc[c] = "flight" /\ Goes(c, "limiter")
    /\ attempt' = [attempt EXCEPT ![c] = @ + 1]
    /\ UNCHANGED <<now, guard, mode, wake, permits, table, sent, outages>>

\* A transient error: with_retry sends again, and asks only the limiter.
Resends(c) ==
    /\ pc[c] = "flight" /\ attempt[c] < MaxAttempts /\ Goes(c, "limiter")
    /\ attempt' = [attempt EXCEPT ![c] = @ + 1]
    /\ UNCHANGED <<now, guard, mode, wake, permits, table, sent, outages>>

Cancelled(c) ==
    /\ pc[c] \in CancelledAt /\ Release(c)
    /\ UNCHANGED <<now, guard, wake, attempt, table, sent, outages>>

Tick ==
    /\ now < MaxTime /\ now' = now + 1
    /\ UNCHANGED <<pc, guard, mode, wake, attempt, permits, table, sent, outages>>

Next ==
    \/ Tick
    \/ \E c \in Calls :
          \/ Asks(c) \/ TakesPermit(c) \/ GetsSlot(c) \/ Sleeps(c) \/ FallsBack(c)
          \/ SendsRequest(c) \/ Ends(c) \/ Resends(c) \/ Cancelled(c)

Spec == Init /\ [][Next]_vars

-----------------------------------------------------------------------------
\* What IBKR sees of a span of time: the calls that were granted their slot
\* within it too, and the stragglers, which the limiter held back for longer.
Granted(span) == {e.call : e \in Recent(table["redis"] \cup table["local"], span)}
Punctual(span) == {e \in Recent(sent, span) : e.call \in Granted(span)}
Stragglers(span) == {e \in Recent(sent, span) : e.call \notin Granted(span)}

\* What IBKR counts stays within its limits, but for stragglers: weighted
\* requests in the long window, requests of a contract in the short one, and the
\* time between two identical requests (IBKRHistoricalPacingGuard).  Stragglers
\* come on top of the limits, no more of them at a time than there are permits,
\* because a call keeps its permit while the message limiter holds it.
PacingKept ==
    /\ Load(Punctual(Window)) <= WindowMax
    /\ \A c \in Calls : Cardinality(SameContract(Punctual(Burst), c)) <= BurstMax
    /\ \A c \in Calls : Cardinality(SameSeries(Punctual(Cooldown), c)) <= 1
    /\ \A span \in {Window, Burst, Cooldown} : Cardinality(Stragglers(span)) <= Permits

\* A permit is either free or held by a call that waits for its slot or for the
\* limiter or is in flight, and it goes back to the semaphore it was taken from,
\* whichever guard the call went through and fell back to (acquire, release): so
\* no more than max_concurrent_requests are in flight, and none is lost.
PermitsConserved ==
    \A g \in Both :
        permits[g] + Cardinality({c \in Calls : /\ pc[c] \in {"slot", "limiter", "flight"}
                                               /\ guard[c] = g}) = Permits

=============================================================================
