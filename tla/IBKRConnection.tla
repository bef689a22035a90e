--------------------------- MODULE IBKRConnection ---------------------------
(***************************************************************************)
(* The life cycle of one IBKRConnectionManager (src/feeds/                 *)
(* ibkr_connection.py): connect, the shared connection attempt, the        *)
(* reconnect loop, the Redis control switch with its watcher and writers,  *)
(* and disconnect.                                                         *)
(*                                                                         *)
(* The manager runs on one asyncio loop.  A step of the model is what one  *)
(* coroutine does between two suspensions, so steps interleave exactly     *)
(* where the code awaits something that can suspend: the control lock, a   *)
(* Redis round trip, the reconnect lock, the shielded attempt, a sleep.    *)
(* Cancelling a task takes effect at once for a coroutine whose way out    *)
(* only releases locks; a cancelled connection attempt still has to close  *)
(* its socket and stays a step of its own.                                 *)
(***************************************************************************)
EXTENDS Naturals

CONSTANTS
    Users,          \* coroutines of the host program that use the manager
    Reconnectors,   \* identities for _reconnect() tasks, reused when done
    Writers,        \* requests that write the control switch
    Watcher,        \* the _watch_connection_control() task
    Attempts,       \* identities for _connect() tasks and their IB clients
    NoAttempt,      \* None in _ib; no attempt under way in _connect_task
    NoProc,         \* nobody: _reconnect_task is None, a lock is free
    Redis,          \* is a control Redis configured?
    MaxEvents       \* bound on what the world around the manager does to it

Procs == Users \cup Reconnectors \cup Writers \cup {Watcher}

ASSUME ProcsAssumption ==
    /\ Users \cap Reconnectors = {}
    /\ Users \cap Writers = {}
    /\ Reconnectors \cap Writers = {}
    /\ Watcher \notin Users \cup Reconnectors \cup Writers
    /\ NoProc \notin Procs

ASSUME ValuesAssumption ==
    /\ NoAttempt \notin Attempts
    /\ Redis \in BOOLEAN
    /\ MaxEvents \in Nat

VARIABLES
    enabled,        \* connection_enabled
    closed,         \* _closed
    shuttingDown,   \* _shutting_down
    generation,     \* generation
    ib,             \* _ib, named by the attempt that created the client
    ibGen,          \* generation of that attempt (0 when there is no client)
    open,           \* the clients whose socket is open
    attempt,        \* where each _connect() task is, with its generation
    connectTask,    \* _connect_task while it is not done
    reconnectTask,  \* _reconnect_task
    reconnectLock,  \* holder of _reconnect_lock
    frame,          \* where each coroutine is suspended, with its locals
    want,           \* the switch a writer was asked to store
    key,            \* the control key in Redis
    events          \* what is left of MaxEvents

switchVars    == <<enabled, closed, shuttingDown>>
sessionVars   == <<generation, ib, ibGen, open>>
attemptVars   == <<attempt, connectTask>>
reconnectVars == <<reconnectTask, reconnectLock>>
redisVars     == <<want, key, events>>
vars == <<switchVars, sessionVars, attemptVars, reconnectVars, frame, redisVars>>

KeyValues == {"true", "false", "missing", "invalid"}

PCs == {"idle", "created", "lock", "control1", "control2", "join",
        "joined", "refused", "sleep", "poll", "write"}

Frames ==
    [pc         : PCs,
     gen        : Nat,                         \* captured by connect and loop
     joined     : Attempts \cup {NoAttempt},   \* awaited through shield
     control    : {"none", "wait", "io"},      \* at _control_lock
     controlGen : Nat]                         \* captured by refresh or write

IdleFrame == [pc |-> "idle", gen |-> 0, joined |-> NoAttempt,
              control |-> "none", controlGen |-> 0]

AttemptStates == [pc : {"idle", "created", "dialing", "dialed"}, gen : Nat]

IdleAttempt == [pc |-> "idle", gen |-> 0]

TypeOK ==
    /\ enabled \in BOOLEAN /\ closed \in BOOLEAN /\ shuttingDown \in BOOLEAN
    /\ generation \in Nat /\ ibGen \in Nat
    /\ ib \in Attempts \cup {NoAttempt}
    /\ open \subseteq Attempts
    /\ attempt \in [Attempts -> AttemptStates]
    /\ connectTask \in Attempts \cup {NoAttempt}
    /\ reconnectTask \in Reconnectors \cup {NoProc}
    /\ reconnectLock \in Users \cup Reconnectors \cup {NoProc}
    /\ frame \in [Procs -> Frames]
    /\ want \in [Writers -> BOOLEAN]
    /\ key \in KeyValues
    /\ events \in 0..MaxEvents

-----------------------------------------------------------------------------
\* Questions the code asks of its own state.

\* is_connected
Connected == ib \in open

\* Mutant: an attempt that has not started yet is taken for none.
ConnectBusyOnceStarted ==
    connectTask # NoAttempt /\ attempt[connectTask].pc # "created"

ConnectBusy == connectTask # NoAttempt

\* Mutant: a loop in its back-off is taken for done.
ReconnectBusyAwake ==
    reconnectTask # NoProc /\ frame[reconnectTask].pc \notin {"idle", "sleep"}

ReconnectBusy == reconnectTask # NoProc /\ frame[reconnectTask].pc # "idle"

\* Mutant: only the shutdown flags are asked.
GenerationOpen(g) == ~closed /\ ~shuttingDown

\* _require_generation does not raise
GenerationValid(g) == enabled /\ g = generation /\ ~closed /\ ~shuttingDown

\* asyncio.Lock lets a newcomer pass only when it is free and nobody waits;
\* coroutines in gone were cancelled in the same step.
AtControl(p, gone) ==
    IF \A q \in Procs \ (gone \cup {p}) : frame[q].control = "none"
    THEN "io" ELSE "wait"

ControlHeld == \E q \in Procs : frame[q].control = "io"

ReconnectLockFree ==
    reconnectLock = NoProc /\ \A q \in Procs : frame[q].pc # "lock"

\* The lock after p left the block it may hold the lock in
Released(p) == IF reconnectLock = p THEN NoProc ELSE reconnectLock

\* An attempt identity that no task uses and no client bears
Reusable(a) == attempt[a].pc = "idle" /\ a # ib

\* A drop, a failure, a write or a shutdown uses up the bound.
Spend == events > 0 /\ events' = events - 1

-----------------------------------------------------------------------------
Init ==
    /\ enabled = ~Redis /\ closed = FALSE /\ shuttingDown = FALSE
    /\ generation = 0 /\ ib = NoAttempt /\ ibGen = 0 /\ open = {}
    /\ attempt = [a \in Attempts |-> IdleAttempt]
    /\ connectTask = NoAttempt
    /\ reconnectTask = NoProc
    /\ reconnectLock = NoProc
    /\ frame = [p \in Procs |-> IdleFrame]
    /\ want = [w \in Writers |-> FALSE]
    /\ key \in KeyValues
    /\ events = MaxEvents

-----------------------------------------------------------------------------
\* Pieces of handlers.  fs stands for frame with what the coroutine that runs
\* the handler has already done to its own entry.

\* _stop_connection run by p: end the session, dispose of the client, forget
\* the attempt, cancel the reconnect task (unless p is that task) and, when the
\* manager closes, the watcher.
Stop(p, fs, closing) ==
    LET cancelled == ({reconnectTask} \cup closing) \ {p}
        gone      == {q \in Procs : q \in cancelled \/ fs[q].pc = "idle"}
    IN  /\ shuttingDown' = TRUE
        /\ generation' = generation + 1
        /\ ib' = NoAttempt /\ ibGen' = 0
        /\ open' = open \ {ib}
        /\ connectTask' = NoAttempt
        /\ reconnectTask' = NoProc
        /\ reconnectLock' = IF reconnectLock \in gone THEN NoProc
                                                      ELSE reconnectLock
        /\ frame' = [q \in Procs |-> IF q \in cancelled THEN IdleFrame
                                                        ELSE fs[q]]

\* The session goes on; p may leave the block it held the reconnect lock in.
KeepSession(p, fs) ==
    /\ frame' = fs
    /\ reconnectLock' = IF fs[p].pc = "idle" THEN Released(p) ELSE reconnectLock
    /\ UNCHANGED <<shuttingDown, sessionVars, connectTask, reconnectTask>>

\* Mutant: the switch forbids new attempts and leaves the session alone.
SwitchOffOnly(p, fs) == enabled' = FALSE /\ KeepSession(p, fs)

\* _apply_connection_switch(False): stop whatever exists.
SwitchOff(p, fs) ==
    /\ enabled' = FALSE
    /\ IF enabled \/ ib # NoAttempt \/ ConnectBusy
       THEN Stop(p, fs, {})
       ELSE KeepSession(p, fs)

\* The task creation of _schedule_reconnect
StartReconnector(fs) ==
    IF ReconnectBusy
    THEN frame' = fs /\ UNCHANGED reconnectTask
    ELSE \E r \in Reconnectors :
            /\ frame[r].pc = "idle"
            /\ frame' = [fs EXCEPT ![r] = [IdleFrame EXCEPT !.pc = "created"]]
            /\ reconnectTask' = r

\* Mutant: the switch is recorded and nobody is sent to reconnect.
SwitchOnOnly(fs) ==
    /\ enabled' = TRUE
    /\ shuttingDown' = FALSE
    /\ frame' = fs
    /\ UNCHANGED reconnectTask

\* _apply_connection_switch(True) on a manager that is not closed
SwitchOn(fs) ==
    /\ enabled' = TRUE
    /\ shuttingDown' = FALSE
    /\ IF Connected
       THEN frame' = fs /\ UNCHANGED reconnectTask
       ELSE StartReconnector(fs)

\* The end of connect() once _require_generation passed and the socket is not
\* live: await the attempt under way, or create one.
JoinableAttempts ==
    IF ConnectBusy THEN {connectTask} ELSE {a \in Attempts : Reusable(a)}

\* Mutant: the new attempt carries the generation before its own.
JoinStale(a) ==
    /\ connectTask' = a
    /\ attempt' = IF ConnectBusy THEN attempt
                  ELSE [attempt EXCEPT ![a] = [pc |-> "created",
                                               gen |-> generation - 1]]

Join(a) ==
    /\ connectTask' = a
    /\ attempt' = IF ConnectBusy THEN attempt
                  ELSE [attempt EXCEPT ![a] = [pc |-> "created",
                                               gen |-> generation]]

Awaiting(a) == [IdleFrame EXCEPT !.pc = "join", !.gen = generation, !.joined = a]

\* start_connection_control leaves a running watcher alone.
WatcherOn ==
    IF frame[Watcher].pc = "idle" THEN [IdleFrame EXCEPT !.pc = "sleep"]
                                  ELSE frame[Watcher]

\* connect() up to its first suspension; holder has the reconnect lock then.
EnterConnect(p, holder) ==
    /\ closed' = FALSE
    /\ shuttingDown' = FALSE
    /\ \/ /\ Redis
          /\ frame' = [frame EXCEPT
                ![p] = [IdleFrame EXCEPT !.pc = "control1",
                            !.gen = generation, !.controlGen = generation,
                            !.control = AtControl(p, {})],
                ![Watcher] = WatcherOn]
          /\ reconnectLock' = holder
          /\ UNCHANGED attemptVars
       \/ /\ ~Redis /\ Connected
          /\ frame' = [frame EXCEPT ![p] = IdleFrame]
          /\ reconnectLock' = Released(p)
          /\ UNCHANGED attemptVars
       \/ /\ ~Redis /\ ~Connected
          /\ \E a \in JoinableAttempts :
                /\ Join(a)
                /\ frame' = [frame EXCEPT ![p] = Awaiting(a)]
          /\ reconnectLock' = holder
    /\ UNCHANGED <<enabled, sessionVars, reconnectTask, redisVars>>

\* The coroutine ends without touching the manager.
Leave(p) ==
    /\ frame' = [frame EXCEPT ![p] = IdleFrame]
    /\ reconnectLock' = Released(p)
    /\ UNCHANGED <<switchVars, sessionVars, attemptVars, reconnectTask>>

Quit(p) == Leave(p) /\ UNCHANGED redisVars

\* Await _reconnect_lock with generation g in hand; on a free lock go straight
\* into connect().
LockThenConnect(p, g) ==
    IF ReconnectLockFree
    THEN EnterConnect(p, p)
    ELSE /\ frame' = [frame EXCEPT ![p] = [IdleFrame EXCEPT !.pc = "lock",
                                                            !.gen = g]]
         /\ UNCHANGED <<switchVars, sessionVars, attemptVars, reconnectVars,
                        redisVars>>

-----------------------------------------------------------------------------
\* The host program.

\* connect() called directly, at startup or by __aenter__
UserConnects(u) == frame[u].pc = "idle" /\ EnterConnect(u, reconnectLock)

\* ensure_connected() on an enabled manager without a live socket; only with
\* the lock in hand does it ask whether the manager is open.
UserEnsures(u) ==
    /\ frame[u].pc = "idle"
    /\ enabled /\ ~Connected
    /\ ReconnectLockFree => GenerationValid(generation)
    /\ LockThenConnect(u, generation)

\* ensure_connected() resumes with the reconnect lock
UserLocks(u) ==
    /\ frame[u].pc = "lock" /\ reconnectLock = NoProc
    /\ IF GenerationValid(frame[u].gen) /\ ~Connected
       THEN EnterConnect(u, u)
       ELSE Quit(u)

\* The awaited attempt is over and its caller resumes.
UserReturns(u) == frame[u].pc \in {"joined", "refused"} /\ Quit(u)

\* The request that awaits the manager is cancelled; the attempt is shielded.
UserCancelled(u) ==
    /\ frame[u].pc # "idle" /\ Spend
    /\ Leave(u)
    /\ UNCHANGED <<want, key>>

\* disconnect(): stop everything, the watcher included
UserDisconnects(u) ==
    /\ frame[u].pc = "idle" /\ Spend
    /\ closed' = TRUE
    /\ Stop(u, frame, {Watcher})
    /\ UNCHANGED <<enabled, attempt, want, key>>

-----------------------------------------------------------------------------
\* The reconnect loop.

\* The head of the while loop in _reconnect, for the loop's generation g
LoopHead(r, g) ==
    IF GenerationValid(g) /\ ~Connected
    THEN LockThenConnect(r, g)
    ELSE Quit(r)

ReconnectorStarts(r) == frame[r].pc = "created" /\ LoopHead(r, generation)

ReconnectorWakes(r) == frame[r].pc = "sleep" /\ LoopHead(r, frame[r].gen)

ReconnectorLocks(r) ==
    /\ frame[r].pc = "lock" /\ reconnectLock = NoProc
    /\ IF GenerationValid(frame[r].gen) THEN EnterConnect(r, r) ELSE Quit(r)

\* connect() returned: the loop is over.
ReconnectorReturns(r) == frame[r].pc = "joined" /\ Quit(r)

\* connect() raised: back off, unless the session or the manager has ended.
ReconnectorFails(r) ==
    /\ frame[r].pc = "refused"
    /\ IF frame[r].gen # generation \/ closed
       THEN Quit(r)
       ELSE /\ frame' = [frame EXCEPT ![r].pc = "sleep"]
            /\ reconnectLock' = Released(r)
            /\ UNCHANGED <<switchVars, sessionVars, attemptVars, reconnectTask,
                           redisVars>>

-----------------------------------------------------------------------------
\* The control switch: refresh_connection_control and its callers.

\* The watcher's next iteration
WatcherWakes ==
    /\ frame[Watcher].pc = "sleep" /\ ~closed
    /\ frame' = [frame EXCEPT ![Watcher] =
                    [IdleFrame EXCEPT !.pc = "poll", !.controlGen = generation,
                                      !.control = AtControl(Watcher, {})]]
    /\ UNCHANGED <<switchVars, sessionVars, attemptVars, reconnectVars, redisVars>>

\* Mutant: nothing is looked at again after the wait.
NeverMoot(p) == FALSE

\* Has a refresh or a write of p become moot?  (closed, or a newer session)
Moot(p) == closed \/ frame[p].controlGen # generation

\* p gets the control lock it waited for; a refresh looks at the generation
\* again before it asks Redis, a write does not.
ControlGranted(p) ==
    /\ frame[p].control = "wait" /\ ~ControlHeld
    /\ p \in Writers \/ ~Moot(p)
    /\ frame' = [frame EXCEPT ![p].control = "io"]
    /\ UNCHANGED <<switchVars, sessionVars, attemptVars, reconnectVars, redisVars>>

\* Where a refresh leaves a caller that does not go on to an attempt: the
\* watcher sleeps, connect() refreshes a second time (under generation g) and
\* then raises or returns.
AfterRefresh(p, g, gone) ==
    IF p = Watcher
    THEN [IdleFrame EXCEPT !.pc = "sleep"]
    ELSE IF frame[p].pc = "control1"
    THEN [frame[p] EXCEPT !.pc = "control2", !.controlGen = g,
                          !.control = AtControl(p, gone)]
    ELSE IdleFrame

Refreshing(p) == frame[p].control = "io" /\ p \notin Writers

\* connect() has passed both refreshes and _require_generation.
Admitted(p) == frame[p].pc = "control2" /\ frame[p].gen = generation

\* The key reads {"enabled":true}: switch on, and let connect() go on.
RefreshEnables(p) ==
    /\ Refreshing(p) /\ ~Moot(p)
    /\ key = "true"
    /\ \/ /\ Admitted(p) /\ ~Connected
          /\ \E a \in JoinableAttempts :
                /\ Join(a)
                /\ SwitchOn([frame EXCEPT ![p] = Awaiting(a)])
          /\ UNCHANGED reconnectLock
       \/ /\ ~(Admitted(p) /\ ~Connected)
          /\ SwitchOn([frame EXCEPT ![p] = AfterRefresh(p, generation, {})])
          /\ reconnectLock' = IF frame[p].pc = "control2" THEN Released(p)
                                                          ELSE reconnectLock
          /\ UNCHANGED attemptVars
    /\ UNCHANGED <<closed, sessionVars, redisVars>>

\* Anything else (false, absent, invalid, an error or the timeout): switch off.
RefreshDisables(p) ==
    LET stops == enabled \/ ib # NoAttempt \/ ConnectBusy
        g     == IF stops THEN generation + 1 ELSE generation
    IN  /\ Refreshing(p) /\ ~Moot(p)
        /\ \/ key # "true" /\ UNCHANGED redisVars
           \/ key = "true" /\ Spend /\ UNCHANGED <<want, key>>
        /\ SwitchOff(p, [frame EXCEPT ![p] = AfterRefresh(p, g, {reconnectTask})])
        /\ UNCHANGED <<closed, attempt>>

\* The session ended or the manager closed while p waited or read: the refresh
\* has no effect.  Only a first refresh of an open manager is followed by
\* another one; otherwise connect() raises.
RefreshDropped(p) ==
    LET raises == frame[p].pc = "control2" \/ (closed /\ p # Watcher) IN
    /\ p \notin Writers
    /\ frame[p].control = "io" \/ (frame[p].control = "wait" /\ ~ControlHeld)
    /\ Moot(p)
    /\ frame' = [frame EXCEPT ![p] = IF raises THEN IdleFrame
                                     ELSE AfterRefresh(p, generation, {})]
    /\ reconnectLock' = IF raises THEN Released(p) ELSE reconnectLock
    /\ UNCHANGED <<switchVars, sessionVars, attemptVars, reconnectTask, redisVars>>

\* write_connection_control
WriteStarts(w, on) ==
    /\ Redis /\ frame[w].pc = "idle" /\ Spend
    /\ frame' = [frame EXCEPT ![w] =
                    [IdleFrame EXCEPT !.pc = "write", !.controlGen = generation,
                                      !.control = AtControl(w, {})]]
    /\ want' = [want EXCEPT ![w] = on]
    /\ UNCHANGED <<switchVars, sessionVars, attemptVars, reconnectVars, key>>

Writing(w) == frame[w].pc = "write" /\ frame[w].control = "io"

Stored(w) == IF want[w] THEN "true" ELSE "false"

\* The write succeeded; it is applied unless it became moot meanwhile.
WriteStored(w) ==
    LET fs == [frame EXCEPT ![w] = IdleFrame] IN
    /\ Writing(w)
    /\ key' = Stored(w)
    /\ want' = [want EXCEPT ![w] = FALSE]
    /\ \/ /\ Moot(w)
          /\ frame' = fs
          /\ UNCHANGED <<enabled, shuttingDown, sessionVars, connectTask,
                         reconnectVars>>
       \/ /\ ~Moot(w) /\ want[w]
          /\ SwitchOn(fs)
          /\ UNCHANGED <<sessionVars, connectTask, reconnectLock>>
       \/ /\ ~Moot(w) /\ ~want[w]
          /\ SwitchOff(w, fs)
    /\ UNCHANGED <<closed, attempt, events>>

\* The write raised or timed out, perhaps after Redis had stored it.
WriteFails(w) ==
    /\ Writing(w) /\ Spend
    /\ key' \in {key, Stored(w)}
    /\ want' = [want EXCEPT ![w] = FALSE]
    /\ SwitchOff(w, [frame EXCEPT ![w] = IdleFrame])
    /\ UNCHANGED <<closed, attempt>>

\* A stop gives the tasks it finds five seconds and then cancels them, a write
\* that still queues for the lock or for Redis included (_drain_cleanup).
WriteCancelled(w) ==
    /\ frame[w].pc = "write" /\ frame[w].controlGen # generation
    /\ key' \in IF Writing(w) THEN {key, Stored(w)} ELSE {key}
    /\ want' = [want EXCEPT ![w] = FALSE]
    /\ frame' = [frame EXCEPT ![w] = IdleFrame]
    /\ UNCHANGED <<switchVars, sessionVars, attemptVars, reconnectVars, events>>

\* Another process, or an operator with redis-cli, changes the key.
KeyChanges ==
    /\ Redis /\ Spend
    /\ key' \in KeyValues \ {key}
    /\ UNCHANGED <<switchVars, sessionVars, attemptVars, reconnectVars, frame,
                   want>>

-----------------------------------------------------------------------------
\* The connection attempt.

\* Attempt a is over: every coroutine that awaits it will resume.
Resolve(a, outcome) ==
    /\ attempt' = [attempt EXCEPT ![a] = IdleAttempt]
    /\ connectTask' = IF connectTask = a THEN NoAttempt ELSE connectTask
    /\ frame' = [p \in Procs |->
                    IF frame[p].joined = a
                    THEN [frame[p] EXCEPT !.pc = outcome, !.joined = NoAttempt]
                    ELSE frame[p]]

\* _connect passes its first checks and installs a client of its own.
AttemptDials(a) ==
    /\ attempt[a].pc = "created" /\ GenerationValid(attempt[a].gen)
    /\ ~Connected
    /\ attempt' = [attempt EXCEPT ![a].pc = "dialing"]
    /\ ib' = a /\ ibGen' = attempt[a].gen
    /\ open' = open \ {ib}
    /\ UNCHANGED <<switchVars, generation, connectTask, reconnectVars, frame,
                   redisVars>>

\* The session ended before the task ran.
AttemptRefused(a) ==
    /\ attempt[a].pc = "created" /\ ~GenerationValid(attempt[a].gen)
    /\ Resolve(a, "refused")
    /\ UNCHANGED <<switchVars, sessionVars, reconnectVars, redisVars>>

\* connectAsync opens the socket; an attempt slow to notice its cancellation
\* can still get here.
DialOpens(a) ==
    /\ attempt[a].pc = "dialing"
    /\ attempt' = [attempt EXCEPT ![a].pc = "dialed"]
    /\ open' = open \cup {a}
    /\ UNCHANGED <<switchVars, generation, ib, ibGen, connectTask,
                   reconnectVars, frame, redisVars>>

\* Mutant: the socket is not asked whether it is still open.
SetupUnchallenged(a) == GenerationValid(attempt[a].gen) /\ ib = a

\* What _connect and with_retry ask once connectAsync returned
SetupComplete(a) == GenerationValid(attempt[a].gen) /\ ib = a /\ a \in open

AttemptConnects(a) ==
    /\ attempt[a].pc = "dialed" /\ SetupComplete(a)
    /\ Resolve(a, "joined")
    /\ UNCHANGED <<switchVars, sessionVars, reconnectVars, redisVars>>

\* Can a's setup fail by itself?  Otherwise a failure is an event.
Doomed(a) ==
    \/ ~GenerationValid(attempt[a].gen) \/ ib # a
    \/ attempt[a].pc = "dialed" /\ a \notin open

\* Mutant: whoever fails disposes of the manager's client.
DisposeManaged(a) ==
    /\ ib' = NoAttempt /\ ibGen' = 0
    /\ open' = open \ {ib}

\* Dispose of a's client if it is the manager's, else close only its socket.
Dispose(a) ==
    /\ ib' = IF ib = a THEN NoAttempt ELSE ib
    /\ ibGen' = IF ib = a THEN 0 ELSE ibGen
    /\ open' = open \ {a}

\* A dial error, a cancellation or a failed check
AttemptFails(a) ==
    /\ attempt[a].pc \in {"dialing", "dialed"}
    /\ IF Doomed(a) THEN UNCHANGED events ELSE Spend
    /\ Resolve(a, "refused")
    /\ Dispose(a)
    /\ UNCHANGED <<switchVars, generation, reconnectVars, want, key>>

\* The peer or the network closes a socket.  The handler is attached to the
\* manager's client only, and leaves a failing setup to the attempt.
SocketDrops(a) ==
    /\ a \in open /\ Spend
    /\ open' = open \ {a}
    /\ IF a = ib /\ ~shuttingDown /\ enabled /\ ~ConnectBusy
       THEN /\ generation' = generation + 1
            /\ StartReconnector(frame)
       ELSE UNCHANGED <<generation, frame, reconnectTask>>
    /\ UNCHANGED <<switchVars, ib, ibGen, attemptVars, reconnectLock, want, key>>

-----------------------------------------------------------------------------
Next ==
    \/ \E u \in Users :
          \/ UserConnects(u) \/ UserEnsures(u) \/ UserLocks(u)
          \/ UserReturns(u) \/ UserCancelled(u) \/ UserDisconnects(u)
    \/ \E r \in Reconnectors :
          \/ ReconnectorStarts(r) \/ ReconnectorWakes(r) \/ ReconnectorLocks(r)
          \/ ReconnectorReturns(r) \/ ReconnectorFails(r)
    \/ WatcherWakes
    \/ \E p \in Procs :
          \/ ControlGranted(p) \/ RefreshEnables(p)
          \/ RefreshDisables(p) \/ RefreshDropped(p)
    \/ \E w \in Writers :
          \/ \E on \in BOOLEAN : WriteStarts(w, on)
          \/ WriteStored(w) \/ WriteFails(w) \/ WriteCancelled(w)
    \/ KeyChanges
    \/ \E a \in Attempts :
          \/ AttemptDials(a) \/ AttemptRefused(a) \/ DialOpens(a)
          \/ AttemptConnects(a) \/ AttemptFails(a) \/ SocketDrops(a)

Spec == Init /\ [][Next]_vars

\* What a coroutine can do next at the control lock, unless it is a writer
ControlStep(p) ==
    ControlGranted(p) \/ RefreshEnables(p) \/ RefreshDisables(p) \/ RefreshDropped(p)

\* asyncio runs every ready callback and its locks are FIFO, so a coroutine that
\* can run again and again does run: SF.  A Redis round trip ends by its
\* two-second timeout, a sleep by its delay and connectAsync by its own timeout.
\* Nothing obliges a user to call, a socket to drop or the key to change.
Fairness ==
    /\ \A u \in Users : SF_vars(UserReturns(u) \/ UserLocks(u) \/ ControlStep(u))
    /\ \A r \in Reconnectors :
        SF_vars(\/ ReconnectorStarts(r) \/ ReconnectorWakes(r) \/ ReconnectorLocks(r)
                \/ ReconnectorReturns(r) \/ ReconnectorFails(r) \/ ControlStep(r))
    /\ SF_vars(WatcherWakes \/ ControlStep(Watcher))
    /\ \A w \in Writers : SF_vars(ControlGranted(w) \/ WriteStored(w) \/ WriteFails(w))
    /\ \A a \in Attempts :
        WF_vars(\/ AttemptDials(a) \/ AttemptRefused(a) \/ DialOpens(a)
                \/ AttemptConnects(a) \/ AttemptFails(a))

FairSpec == Spec /\ Fairness

-----------------------------------------------------------------------------
\* A disabled, stopping or closed manager has no client: whoever was still
\* reading the switch, writing it or connecting cannot give it one
\* (_require_generation, _stop_connection).
StoppedHasNoClient == ~enabled \/ shuttingDown \/ closed => ib = NoAttempt

\* disconnect() lasts until a later connect(): a refresh or a write that began
\* before it restarts nothing, and neither the watcher nor a reconnect loop
\* survives it (_stop_connection, refresh_connection_control).
ClosedIsQuiescent ==
    closed => /\ shuttingDown
              /\ reconnectTask = NoProc
              /\ frame[Watcher] = IdleFrame

\* Every open socket belongs to the manager's client or to an attempt that is
\* still running and will close it: an obsolete attempt that gets through after
\* its cancellation leaks nothing (the except branch of _connect).
NoOrphanSocket ==
    \A a \in open : a = ib \/ attempt[a].pc = "dialed"

\* A session is set up by one attempt, the one in _connect_task, however many
\* callers of connect() and reconnect loops ask for it.
OneAttemptPerSession ==
    \A a \in Attempts :
        attempt[a].pc # "idle" /\ attempt[a].gen = generation => connectTask = a

\* When the client's socket is dead its generation is over, unless an attempt is
\* still responsible for it: no captured session (generation, ib) outlives its
\* socket, even when the disconnect event came during setup and was ignored
\* (_on_ibkr_disconnected against _connect).
DeadSocketEndsSession ==
    ib # NoAttempt /\ ib \notin open
        => ibGen # generation \/ attempt[ib].pc # "idle"

\* At most one reconnect loop works for a session, although loops of earlier
\* sessions may still be winding down (_schedule_reconnect).
OneLoopPerSession ==
    \A r, s \in Reconnectors :
        /\ frame[r].pc \notin {"idle", "created"} /\ frame[r].gen = generation
        /\ frame[s].pc \notin {"idle", "created"} /\ frame[s].gen = generation
        => r = s

\* The client that capture_session hands out: a live socket is all it asks for.
SessionClient ==
    IF enabled /\ ~shuttingDown /\ Connected THEN ib ELSE NoAttempt

\* Its attempt is over.
Settled == SessionClient # NoAttempt /\ attempt[SessionClient].pc = "idle"

Session == INSTANCE IBKRSession
              WITH Clients <- Attempts, NoClient <- NoAttempt,
                   generation <- generation, client <- SessionClient,
                   settled <- Settled

\* What capture_session hands out once the setup is complete stays true until
\* the generation moves: the client is never replaced, disposed of or lost under
\* an unchanged generation, so require_session notices whatever happened during
\* an await.  A client captured during its setup can be lost before the
\* generation moves (the except branch of _connect, _on_ibkr_disconnected).
SessionsKeepTheirClient == Session!Spec

\* While the key keeps saying true and the watcher runs, the manager ends up
\* connected, whatever failed before (_watch_connection_control, _reconnect).
Recovers ==
    <>[](key = "true" /\ frame[Watcher].pc # "idle") => <>[]Connected

\* While the key keeps saying anything else and the watcher runs, every socket
\* ends up closed (refresh_connection_control, _stop_connection).
SwitchDisconnects ==
    <>[](key # "true" /\ frame[Watcher].pc # "idle") => <>[](open = {})

-----------------------------------------------------------------------------
\* What the documentation says and the code does not do.

\* An enabled manager that lost its socket, with nothing under way to get it
\* back and nobody using it
Abandoned ==
    /\ enabled /\ ~closed /\ ~shuttingDown
    /\ ib # NoAttempt /\ ~Connected
    /\ ~ConnectBusy /\ ~ReconnectBusy
    /\ \A p \in Procs : frame[p].pc = "idle"

\* "Handle IB disconnection events with automatic reconnection"
\* (_on_ibkr_disconnected), "Keep trying while enabled" (_reconnect)
NeverAbandoned == ~Abandoned

\* "An absent key initially preserves normal enabled behavior" (README.md): with
\* the key absent and the watcher running the manager connects.
AbsentKeyPreservesEnabled ==
    [](key = "missing") /\ <>[](frame[Watcher].pc # "idle") => <>Connected

=============================================================================
