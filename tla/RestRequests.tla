----------------------------- MODULE RestRequests -----------------------------
(***************************************************************************)
(* The requests of the REST application on one event loop, each on its way *)
(* through a handler (RestRoutes), with what they share: the response      *)
(* cache (src/webapp/cache.py), the connection's session and switch, and   *)
(* the request deadline.  All requests carry the same payload, so those of *)
(* one namespace meet in one cache entry.                                  *)
(*                                                                         *)
(* An asyncio.Lock belongs to a key until the cache is cleared; clear()    *)
(* forgets the locks, and who comes later makes a new one.  A lock is      *)
(* therefore named by its key and the number of clears before it.          *)
(*                                                                         *)
(* Between two awaits a handler is not interrupted; the cache's own lock   *)
(* is never held across one, so its operations are single steps.           *)
(***************************************************************************)
EXTENDS RestRoutes

CONSTANTS
    Requests,
    RoutesOf,           \* the routes a request may be for
    MaxSessions,        \* bound on the connection's sessions
    MaxClears           \* bound on the times the cache is cleared

VARIABLES
    session,            \* connection.generation
    enabled,            \* connection.connection_enabled
    clears,
    entry,              \* AsyncTTLCache._entries
    req

vars == <<session, enabled, clears, entry, req>>

RestAssumption ==
    /\ RoutesOf \in [Requests -> SUBSET DOMAIN Routes]
    /\ MaxSessions \in Nat \ {0} /\ MaxClears \in Nat

-----------------------------------------------------------------------------

NoRequest ==
    [pc |-> "idle", of |-> "", way |-> <<>>, at |-> 1, captured |-> 0, since |-> 0,
     whole |-> TRUE, locks |-> {}, awaits |-> {}]
Ended(how) == [NoRequest EXCEPT !.pc = how]

Ends(r, how) == req' = [req EXCEPT ![r] = Ended(how)]

Init ==
    /\ session = 1 /\ enabled = TRUE /\ clears = 0
    /\ entry = [k \in {} |-> 0]
    /\ req = [r \in Requests |-> NoRequest]

Step(r) == req[r].way[req[r].at]
At(r, steps) ==
    req[r].pc = "run" /\ req[r].at <= Len(req[r].way) /\ Step(r) \in steps

GoesOn(r) == req' = [req EXCEPT ![r].at = @ + 1]

\* The key of a cache step; the overview's names the session.
Key(r) ==
    LET step == Step(r)
    IN [of |-> IF step \in {"getProviders", "putProviders"} THEN "get_news_providers"
                                                             ELSE Namespace(req[r].of),
        range |-> step \in {"find", "store"},
        session |-> IF req[r].of = "get_equity_overview" THEN req[r].captured ELSE 0]

KeyLock(r) == [key |-> Key(r), clears |-> clears]

-----------------------------------------------------------------------------
\* A request comes, is turned away by a middleware, or reaches its handler.

\* 429, 401 or 413.
Rejected(r) ==
    /\ req[r].pc = "idle"
    /\ Ends(r, "refused") /\ UNCHANGED <<session, enabled, clears, entry>>

Begins(r) ==
    /\ req[r].pc = "idle"
    /\ \E route \in RoutesOf[r] : \E way \in Routes[route] :
        req' = [req EXCEPT ![r] = [NoRequest EXCEPT !.pc = "run", !.of = route,
                                                    !.way = way, !.captured = session,
                                                    !.since = session]]
    /\ UNCHANGED <<session, enabled, clears, entry>>

Answers(r) ==
    /\ req[r].pc = "run" /\ req[r].at > Len(req[r].way)
    /\ Ends(r, "answered") /\ UNCHANGED <<session, enabled, clears, entry>>

Asks(r) ==
    /\ At(r, {"ask", "token", "refuse?"})
    /\ \/ GoesOn(r)
       \/ Ends(r, IF Step(r) = "ask" THEN "failed" ELSE "refused")
    /\ UNCHANGED <<session, enabled, clears, entry>>

AsksEach(r) ==
    /\ At(r, {"each"})
    /\ \E all \in BOOLEAN :
        req' = [req EXCEPT ![r].at = @ + 1, ![r].whole = @ /\ all]
    /\ UNCHANGED <<session, enabled, clears, entry>>

NeedsConnection(r) ==
    /\ At(r, {"enabled?"})
    /\ IF enabled THEN GoesOn(r) ELSE Ends(r, "refused")
    /\ UNCHANGED <<session, enabled, clears, entry>>

\* The deadline of the request (not of the health routes) cancels it where it
\* awaits; the locks it holds are released on the way out.
TimesOut(r) ==
    /\ req[r].pc = "wait" \/ At(r, {"ask", "token", "each"})
    /\ req[r].of \notin DOMAIN Health
    /\ Ends(r, "timed out") /\ UNCHANGED <<session, enabled, clears, entry>>

-----------------------------------------------------------------------------
\* The response cache.

Holders(lock) == {r \in Requests : lock \in req[r].locks}
Waiters(lock) == {r \in Requests : lock \in req[r].awaits}

\* Where the load of a get ends.
CloseOf(r) ==
    LET closes == IF Step(r) = "getProviders" THEN {"putProviders"} ELSE {"put", "keep"}
    IN CHOOSE i \in req[r].at..Len(req[r].way) : req[r].way[i] \in closes

Hits(r, lock) ==
    /\ lock.key \in DOMAIN entry
    /\ req' = [req EXCEPT ![r].pc = "run", ![r].at = CloseOf(r) + 1, ![r].awaits = {}]

StartsLoad(r, lock) ==
    req' = [req EXCEPT ![r].pc = "run", ![r].at = @ + 1, ![r].since = session,
                       ![r].whole = TRUE, ![r].locks = @ \cup {lock},
                       ![r].awaits = {}]

Misses(r, lock) == lock.key \notin DOMAIN entry /\ StartsLoad(r, lock)

Gets(r) ==
    /\ At(r, {"get", "getProviders"})
    /\ LET lock == KeyLock(r)
       IN IF lock.key \in DOMAIN entry THEN Hits(r, lock)
          ELSE IF Holders(lock) \cup Waiters(lock) = {} THEN Misses(r, lock)
          ELSE req' = [req EXCEPT ![r].pc = "wait", ![r].awaits = {lock}]
    /\ UNCHANGED <<session, enabled, clears, entry>>

\* Mutant: a request that waited loads without looking again.
RechecksNot(r, lock) == StartsLoad(r, lock)

Rechecks(r, lock) == Hits(r, lock) \/ Misses(r, lock)

\* The waiter is woken when the key's lock is released.
Resumes(r) ==
    /\ req[r].pc = "wait"
    /\ \E lock \in req[r].awaits : Holders(lock) = {} /\ Rechecks(r, lock)
    /\ UNCHANGED <<session, enabled, clears, entry>>

\* Mutant: an overview is kept if it is whole, whatever became of its session.
KeepsWhole(r) == req[r].whole

\* The cache_if of the panels and of the overview.
Keeps(r) ==
    /\ req[r].whole
    /\ req[r].of = "get_equity_overview" => enabled /\ session = req[r].captured

Value(r, loadClears) ==
    [clears |-> loadClears, sessions |-> req[r].since..session, whole |-> req[r].whole]

EntryWith(key, value) ==
    [k \in DOMAIN entry \cup {key} |-> IF k = key THEN value ELSE entry[k]]

Puts(r) ==
    /\ At(r, {"put", "putProviders", "keep"})
    /\ \E lock \in req[r].locks :
        /\ lock.key = Key(r)
        /\ entry' = IF Step(r) # "keep" \/ Keeps(r)
                    THEN EntryWith(lock.key, Value(r, lock.clears))
                    ELSE entry
        /\ req' = [req EXCEPT ![r].at = @ + 1, ![r].locks = @ \ {lock}]
    /\ UNCHANGED <<session, enabled, clears>>

\* Ranges of bars are looked up and stored without the key's lock.
Finds(r) ==
    /\ At(r, {"find"})
    /\ IF Key(r) \in DOMAIN entry
       THEN Ends(r, "answered")
       ELSE req' = [req EXCEPT ![r].at = @ + 1, ![r].since = session]
    /\ UNCHANGED <<session, enabled, clears, entry>>

Stores(r) ==
    /\ At(r, {"store"})
    /\ entry' = EntryWith(Key(r), Value(r, clears))
    /\ GoesOn(r) /\ UNCHANGED <<session, enabled, clears>>

\* Reads the sizes only.
Stats(r) ==
    /\ At(r, {"stats"})
    /\ GoesOn(r) /\ UNCHANGED <<session, enabled, clears, entry>>

Clears(r) ==
    /\ At(r, {"clear"}) /\ clears < MaxClears
    /\ entry' = [k \in {} |-> 0] /\ clears' = clears + 1
    /\ GoesOn(r) /\ UNCHANGED <<session, enabled>>

\* The entry's time to live is over (at once, if it is zero), or it is the
\* oldest of a full cache.
Expires(k) ==
    /\ k \in DOMAIN entry
    /\ entry' = [j \in DOMAIN entry \ {k} |-> entry[j]]
    /\ UNCHANGED <<session, enabled, clears, req>>

-----------------------------------------------------------------------------
\* The connection (IBKRConnection).

NextSession ==
    /\ enabled /\ session < MaxSessions
    /\ session' = session + 1 /\ UNCHANGED <<enabled, clears, entry, req>>

SwitchedOff ==
    /\ enabled /\ enabled' = FALSE /\ UNCHANGED <<session, clears, entry, req>>
SwitchedOn ==
    /\ ~enabled /\ session < MaxSessions
    /\ enabled' = TRUE /\ session' = session + 1 /\ UNCHANGED <<clears, entry, req>>

-----------------------------------------------------------------------------

Request(r) ==
    \/ Rejected(r) \/ Begins(r) \/ Answers(r) \/ Asks(r) \/ AsksEach(r)
    \/ NeedsConnection(r) \/ TimesOut(r) \/ Gets(r) \/ Resumes(r) \/ Puts(r)
    \/ Finds(r) \/ Stores(r) \/ Stats(r) \/ Clears(r)

Next ==
    \/ \E r \in Requests : Request(r)
    \/ \E k \in DOMAIN entry : Expires(k)
    \/ NextSession \/ SwitchedOff \/ SwitchedOn

Spec == Init /\ [][Next]_vars

-----------------------------------------------------------------------------

Keys ==
    [of : {Namespace(route) : route \in DOMAIN Routes} \cup {"get_news_providers"},
     range : BOOLEAN, session : 0..MaxSessions]

(* Session, switch, cache entries and requests have their types. *)
TypeOK ==
    /\ session \in 1..MaxSessions /\ enabled \in BOOLEAN /\ clears \in 0..MaxClears
    /\ DOMAIN entry \subseteq Keys
    /\ \A k \in DOMAIN entry :
        /\ entry[k].clears \in 0..MaxClears /\ entry[k].whole \in BOOLEAN
        /\ entry[k].sessions \subseteq 1..MaxSessions
    /\ \A r \in Requests :
        /\ req[r].pc \in {"idle", "run", "wait", "answered", "refused", "failed", "timed out"}
        /\ (req[r].pc = "wait") = (req[r].awaits # {})
        /\ \A lock \in req[r].locks \cup req[r].awaits :
               lock.key \in Keys /\ lock.clears \in 0..MaxClears

(* "per-key single-flight protection": of the loads that share a lock of a
   key at most one runs, and none runs while what was loaded under that lock
   is still cached: AsyncTTLCache.get_or_set. *)
OneLoadPerKey ==
    \A r \in Requests : \A lock \in req[r].locks :
        /\ Holders(lock) = {r}
        /\ lock.key \in DOMAIN entry => entry[lock.key].clears # lock.clears

(* What a cache_if guards is sound as long as it is cached: a panel in which
   no instrument failed, and an overview that was loaded, from its first
   request to its last, in the session its key names: get_equity_overview,
   DetailedBarsResponse.cacheable. *)
KeptAnswersAreSound ==
    \A k \in DOMAIN entry :
        /\ k.of \in DOMAIN Panels => entry[k].whole
        /\ k.of = "get_equity_overview" =>
               entry[k].whole /\ entry[k].sessions = {k.session}
=============================================================================
