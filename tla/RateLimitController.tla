------------------------- MODULE RateLimitController -------------------------
(***************************************************************************)
(* IBKRRateLimitController of src/transport/ibkr_rate_limit.py on several  *)
(* processes: the window of outgoing messages and the leases of            *)
(* market-data lines, both kept by Lua scripts in Redis, and per process   *)
(* when a call of Redis fails.                                             *)
(*                                                                         *)
(* A script is one step.  Its call may fail before Redis runs it or after. *)
(* Time passes in units; a lease is counted until its expiry.              *)
(***************************************************************************)
EXTENDS Naturals, FiniteSetsExt

CONSTANTS
    Requests,       \* each acquires one line, once
    Processes, ProcessOf,
    MaxActive,      \* max_active_market_data_lines
    Ttl,            \* of a lease
    MaxMessages,    \* global_messages_per_second
    Window,         \* its second
    MaxSent, MaxErrors, MaxTime     \* bounds

Redis == "redis"

ASSUME ControllerAssumption ==
    /\ ProcessOf \in [Requests -> Processes] /\ Redis \notin Processes
    /\ {MaxActive, Ttl, MaxMessages, Window} \subseteq Nat \ {0}
    /\ {MaxSent, MaxErrors, MaxTime} \subseteq Nat

VARIABLES
    now,
    lease,      \* the leases of Redis and of every process's fallback
    line,       \* each request's line
    window,     \* the message times of Redis and of every fallback
    errors

vars == <<now, lease, line, window, errors>>

Books == {Redis} \cup Processes
Time == 0..MaxTime
Lease == [request : Requests, expires : 0..MaxTime + Ttl]
Message == [at : Time, number : 1..MaxSent]

TypeOK ==
    /\ now \in Time /\ errors \in 0..MaxErrors
    /\ lease \in [Books -> SUBSET Lease]
    /\ line \in [Requests -> [pc : {"idle", "redis", "local", "held", "done"},
                              wakeAt : 0..MaxTime + Ttl, expires : 0..MaxTime + Ttl]]
    /\ window \in [Books -> SUBSET Message]

Init ==
    /\ now = 0 /\ errors = 0
    /\ lease = [b \in Books |-> {}] /\ window = [b \in Books |-> {}]
    /\ line = [r \in Requests |-> [pc |-> "idle", wakeAt |-> 0, expires |-> 0]]

Fails == errors < MaxErrors /\ errors' = errors + 1
Goes(r, pc) == line' = [line EXCEPT ![r].pc = pc]

-----------------------------------------------------------------------------
\* Market-data lines.

\* Mutant: a lease is given up a unit before it expires.
ActiveUntilLast(b) == {l \in lease[b] : l.expires > now + 1}

\* ZREMRANGEBYSCORE 0 now, _prune
Active(b) == {l \in lease[b] : l.expires > now}

Room(b) == Cardinality(Active(b)) < MaxActive

\* REDIS_MARKET_DATA_LEASE_LUA, and _LocalMarketDataLineLimiter under its lock
Leases(b, r) ==
    lease' = [lease EXCEPT ![b] = Active(b) \cup {[request |-> r, expires |-> now + Ttl]}]

Asks(r) ==
    /\ line[r].pc = "idle" /\ Goes(r, "redis")
    /\ UNCHANGED <<now, lease, window, errors>>

Asking(r, pc) == line[r].pc = pc /\ now >= line[r].wakeAt
Book(r, pc) == IF pc = "redis" THEN Redis ELSE ProcessOf[r]

Acquires(r, pc) ==
    /\ Asking(r, pc) /\ Room(Book(r, pc))
    /\ Leases(Book(r, pc), r)
    /\ line' = [line EXCEPT ![r].pc = "held", ![r].expires = now + Ttl]
    /\ UNCHANGED <<now, window, errors>>

\* No room: sleep until the oldest lease expires.
Sleeps(r, pc) ==
    /\ Asking(r, pc) /\ ~Room(Book(r, pc))
    /\ lease' = [lease EXCEPT ![Book(r, pc)] = Active(Book(r, pc))]
    /\ line' = [line EXCEPT ![r].wakeAt = Min({l.expires : l \in Active(Book(r, pc))})]
    /\ UNCHANGED <<now, window, errors>>

\* The script fails, or its reply is lost: the process keeps its own count.
FallsBack(r) ==
    /\ Asking(r, "redis") /\ Fails
    /\ \/ UNCHANGED lease
       \/ Room(Redis) /\ Leases(Redis, r)
    /\ line' = [line EXCEPT ![r].pc = "local"]
    /\ UNCHANGED <<now, window>>

Drop(b, r) == lease' = [lease EXCEPT ![b] = {l \in @ : l.request # r}]

Releases(r) ==
    /\ line[r].pc = "held" /\ Goes(r, "done")
    /\ Drop(Redis, r)
    /\ UNCHANGED <<now, window, errors>>

\* ZREM fails: the lease is looked for in the fallback.
ReleaseFails(r) ==
    /\ line[r].pc = "held" /\ Fails /\ Goes(r, "done")
    /\ Drop(ProcessOf[r], r)
    /\ UNCHANGED <<now, window>>

\* The process dies with its requests; what it leased stays in Redis.
Dies(p) ==
    /\ Fails
    /\ line' = [r \in Requests |->
          IF ProcessOf[r] = p THEN [line[r] EXCEPT !.pc = "done"] ELSE line[r]]
    /\ lease' = [lease EXCEPT ![p] = {}] /\ window' = [window EXCEPT ![p] = {}]
    /\ UNCHANGED now

-----------------------------------------------------------------------------
\* Messages.

Recent(b, t) == {m \in window[b] : m.at + Window > t}

\* REDIS_GLOBAL_REQUEST_LUA, _LocalGlobalRequestLimiter.wait, for weight 1
Sends(b) ==
    /\ Cardinality(Recent(b, now)) < MaxMessages
    /\ Cardinality(window[b]) < MaxSent
    /\ window' = [window EXCEPT
          ![b] = @ \cup {[at |-> now, number |-> 1 + Cardinality(window[b])]}]

SendsByRedis == Sends(Redis) /\ UNCHANGED <<now, lease, line, errors>>
SendsByFallback(p) == Fails /\ Sends(p) /\ UNCHANGED <<now, lease, line>>

Tick == now < MaxTime /\ now' = now + 1 /\ UNCHANGED <<lease, line, window, errors>>

LineSteps(r) ==
    \/ Asks(r) \/ FallsBack(r) \/ Releases(r) \/ ReleaseFails(r)
    \/ \E pc \in {"redis", "local"} : Acquires(r, pc) \/ Sleeps(r, pc)

Next ==
    \/ Tick \/ SendsByRedis
    \/ \E p \in Processes : SendsByFallback(p) \/ Dies(p)
    \/ \E r \in Requests : LineSteps(r)

Spec == Init /\ [][Next]_vars

-----------------------------------------------------------------------------

Live(r) == line[r].pc = "held" /\ now < line[r].expires

(* "atomic Lua checks", "local in-process limiting rather than sending an
   unbounded burst": whichever calls of Redis fail, a line in use whose lease
   has not expired is counted, so that the lines in use exceed the budget only
   by what the fallbacks granted; and no second, wherever it begins, has more
   messages than the limit, what one process sent without Redis counted apart. *)
BudgetsKept ==
    /\ \A r \in Requests : Live(r) =>
          \E b \in {Redis, ProcessOf[r]} : \E l \in Active(b) : l.request = r
    /\ \A b \in Books : Cardinality(Active(b)) <= MaxActive
    /\ \A b \in Books : \A t \in Time :
          Cardinality({m \in window[b] : t <= m.at /\ m.at < t + Window}) <= MaxMessages
=============================================================================
