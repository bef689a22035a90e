------------------------ MODULE IBKRConnectionProofs ------------------------
(***************************************************************************)
(* Proofs about IBKRConnection, for any number of users, reconnect loops,  *)
(* writers and attempts and any bound on events: types, sessions and       *)
(* sockets, the reconnect loops, and what is left of a closed manager.     *)
(***************************************************************************)
EXTENDS IBKRConnection, TLAPS

-----------------------------------------------------------------------------
\* Typing of the pieces that the actions are made of.

LEMMA FrameTypes ==
    /\ IdleFrame \in Frames
    /\ IdleAttempt \in AttemptStates
    /\ NoProc \notin Reconnectors /\ NoProc \notin Users
    /\ Users \subseteq Procs /\ Reconnectors \subseteq Procs
    /\ Writers \subseteq Procs /\ Watcher \in Procs
    /\ Watcher \notin Reconnectors
BY ProcsAssumption DEF IdleFrame, Frames, PCs, IdleAttempt, AttemptStates, Procs

LEMMA StartReconnectorTypes ==
    ASSUME TypeOK, NEW fs \in [Procs -> Frames], StartReconnector(fs)
    PROVE  /\ frame' \in [Procs -> Frames]
           /\ reconnectTask' \in Reconnectors \cup {NoProc}
<1>1. CASE ReconnectBusy
  BY <1>1 DEF StartReconnector, TypeOK
<1>2. CASE ~ReconnectBusy
  <2>1. PICK r \in Reconnectors :
            /\ frame' = [fs EXCEPT ![r] = [IdleFrame EXCEPT !.pc = "created"]]
            /\ reconnectTask' = r
    BY <1>2 DEF StartReconnector
  <2>2. [IdleFrame EXCEPT !.pc = "created"] \in Frames
    BY DEF IdleFrame, Frames, PCs
  <2>3. QED  BY <2>1, <2>2, FrameTypes
<1>3. QED  BY <1>1, <1>2

LEMMA StopTypes ==
    ASSUME TypeOK, NEW p \in Procs, NEW fs \in [Procs -> Frames],
           NEW closing \in SUBSET Procs, Stop(p, fs, closing)
    PROVE  /\ frame' \in [Procs -> Frames]
           /\ shuttingDown' = TRUE
           /\ generation' \in Nat
           /\ ib' = NoAttempt /\ ibGen' = 0
           /\ open' \subseteq Attempts
           /\ connectTask' = NoAttempt
           /\ reconnectTask' = NoProc
           /\ reconnectLock' \in Users \cup Reconnectors \cup {NoProc}
BY FrameTypes DEF Stop, TypeOK

LEMMA SwitchOffTypes ==
    ASSUME TypeOK, NEW p \in Procs, NEW fs \in [Procs -> Frames], SwitchOff(p, fs)
    PROVE  /\ frame' \in [Procs -> Frames]
           /\ enabled' \in BOOLEAN /\ shuttingDown' \in BOOLEAN
           /\ generation' \in Nat /\ ibGen' \in Nat
           /\ ib' \in Attempts \cup {NoAttempt}
           /\ open' \subseteq Attempts
           /\ connectTask' \in Attempts \cup {NoAttempt}
           /\ reconnectTask' \in Reconnectors \cup {NoProc}
           /\ reconnectLock' \in Users \cup Reconnectors \cup {NoProc}
<1>1. CASE enabled \/ ib # NoAttempt \/ ConnectBusy
  <2>1. Stop(p, fs, {}) /\ enabled' = FALSE
    BY <1>1 DEF SwitchOff
  <2>2. /\ frame' \in [Procs -> Frames] /\ shuttingDown' = TRUE
        /\ generation' \in Nat /\ ib' = NoAttempt /\ ibGen' = 0
        /\ open' \subseteq Attempts
        /\ connectTask' = NoAttempt /\ reconnectTask' = NoProc
        /\ reconnectLock' \in Users \cup Reconnectors \cup {NoProc}
    BY <2>1, StopTypes
  <2>3. QED  BY <2>1, <2>2
<1>2. CASE ~(enabled \/ ib # NoAttempt \/ ConnectBusy)
  BY <1>2 DEF SwitchOff, KeepSession, Released, TypeOK, sessionVars
<1>3. QED  BY <1>1, <1>2

LEMMA SwitchOnTypes ==
    ASSUME TypeOK, NEW fs \in [Procs -> Frames], SwitchOn(fs)
    PROVE  /\ frame' \in [Procs -> Frames]
           /\ reconnectTask' \in Reconnectors \cup {NoProc}
           /\ enabled' = TRUE /\ shuttingDown' = FALSE
BY StartReconnectorTypes DEF SwitchOn, TypeOK

LEMMA JoinTypes ==
    ASSUME TypeOK, NEW a \in JoinableAttempts, Join(a)
    PROVE  /\ a \in Attempts
           /\ Awaiting(a) \in Frames
           /\ connectTask' \in Attempts
           /\ attempt' \in [Attempts -> AttemptStates]
<1>1. a \in Attempts
  BY DEF JoinableAttempts, ConnectBusy, TypeOK
<1>2. QED
  BY <1>1 DEF Join, Awaiting, IdleFrame, Frames, PCs, AttemptStates, TypeOK

LEMMA AtControlTypes ==
    ASSUME NEW p, NEW gone PROVE AtControl(p, gone) \in {"wait", "io"}
BY DEF AtControl

LEMMA AfterRefreshTypes ==
    ASSUME TypeOK, NEW p \in Procs, NEW g \in Nat, NEW gone
    PROVE  AfterRefresh(p, g, gone) \in Frames
BY AtControlTypes DEF AfterRefresh, TypeOK, IdleFrame, Frames, PCs

LEMMA EnterConnectTypes ==
    ASSUME TypeOK, NEW p \in Users \cup Reconnectors,
           NEW h \in Users \cup Reconnectors \cup {NoProc}, EnterConnect(p, h)
    PROVE  TypeOK'
<1> DEFINE f == [IdleFrame EXCEPT !.pc = "control1", !.gen = generation,
                    !.controlGen = generation, !.control = AtControl(p, {})]
<1>1. p \in Procs
  BY FrameTypes
<1>2. /\ closed' = FALSE /\ shuttingDown' = FALSE
      /\ UNCHANGED <<enabled, sessionVars, reconnectTask, redisVars>>
  BY DEF EnterConnect
<1>3. Released(p) \in Users \cup Reconnectors \cup {NoProc}
  BY DEF Released, TypeOK
<1>4. CASE Redis /\ frame' = [frame EXCEPT ![p] = f, ![Watcher] = WatcherOn]
           /\ reconnectLock' = h /\ UNCHANGED attemptVars
  <2>1. f \in Frames
    BY AtControlTypes DEF IdleFrame, Frames, PCs, TypeOK
  <2>2. WatcherOn \in Frames
    BY FrameTypes DEF WatcherOn, IdleFrame, Frames, PCs, TypeOK
  <2>3. frame' \in [Procs -> Frames]
    BY <1>4, <2>1, <2>2 DEF TypeOK
  <2>4. QED
    BY <1>2, <1>4, <2>3 DEF TypeOK, sessionVars, attemptVars, redisVars
<1>5. CASE /\ frame' = [frame EXCEPT ![p] = IdleFrame]
           /\ reconnectLock' = Released(p)
           /\ UNCHANGED attemptVars
  BY <1>1, <1>2, <1>3, <1>5, FrameTypes
     DEF TypeOK, sessionVars, attemptVars, redisVars
<1>6. CASE /\ \E a \in JoinableAttempts :
                Join(a) /\ frame' = [frame EXCEPT ![p] = Awaiting(a)]
           /\ reconnectLock' = h
  <2>1. PICK a \in JoinableAttempts :
                Join(a) /\ frame' = [frame EXCEPT ![p] = Awaiting(a)]
    BY <1>6
  <2>2. QED
    BY <1>1, <1>2, <1>6, <2>1, JoinTypes DEF TypeOK, sessionVars, redisVars
<1>7. QED  BY <1>4, <1>5, <1>6 DEF EnterConnect

LEMMA LeaveTypes ==
    ASSUME TypeOK, NEW p \in Procs, Leave(p)
    PROVE  /\ frame' \in [Procs -> Frames]
           /\ reconnectLock' \in Users \cup Reconnectors \cup {NoProc}
           /\ UNCHANGED <<switchVars, sessionVars, attemptVars, reconnectTask>>
BY FrameTypes DEF Leave, Released, TypeOK

LEMMA QuitTypes ==
    ASSUME TypeOK, NEW p \in Procs, Quit(p)
    PROVE  TypeOK'
BY LeaveTypes DEF Quit, TypeOK, switchVars, sessionVars, attemptVars, redisVars

LEMMA LockThenConnectTypes ==
    ASSUME TypeOK, NEW p \in Users \cup Reconnectors, NEW g \in Nat,
           LockThenConnect(p, g)
    PROVE  TypeOK'
<1>1. CASE ReconnectLockFree
  BY <1>1, EnterConnectTypes DEF LockThenConnect
<1>2. CASE ~ReconnectLockFree
  <2>1. [IdleFrame EXCEPT !.pc = "lock", !.gen = g] \in Frames
    BY DEF IdleFrame, Frames, PCs
  <2>2. frame' \in [Procs -> Frames]
    BY <1>2, <2>1, FrameTypes DEF LockThenConnect, TypeOK
  <2>3. QED
    BY <1>2, <2>2 DEF LockThenConnect, TypeOK, switchVars, sessionVars,
                      attemptVars, reconnectVars, redisVars
<1>3. QED  BY <1>1, <1>2

LEMMA ResolveTypes ==
    ASSUME TypeOK, NEW a \in Attempts, NEW o \in {"joined", "refused"},
           Resolve(a, o)
    PROVE  /\ frame' \in [Procs -> Frames]
           /\ attempt' \in [Attempts -> AttemptStates]
           /\ connectTask' \in Attempts \cup {NoAttempt}
<1>1. ASSUME NEW p \in Procs
      PROVE  (IF frame[p].joined = a
              THEN [frame[p] EXCEPT !.pc = o, !.joined = NoAttempt]
              ELSE frame[p]) \in Frames
  <2>1. frame[p] \in Frames
    BY DEF TypeOK
  <2>2. [frame[p] EXCEPT !.pc = o, !.joined = NoAttempt] \in Frames
    BY <2>1 DEF Frames, PCs
  <2>3. QED  BY <2>1, <2>2
<1>2. QED
  BY <1>1, FrameTypes DEF Resolve, TypeOK

LEMMA InitTypes == Init => TypeOK
<1> SUFFICES ASSUME Init PROVE TypeOK
  OBVIOUS
<1>1. enabled \in BOOLEAN /\ closed \in BOOLEAN /\ shuttingDown \in BOOLEAN
  BY Zenon DEF Init
<1>2. QED
  BY <1>1, FrameTypes, ValuesAssumption DEF Init, TypeOK

LEMMA SpendTypes == TypeOK /\ Spend => events' \in 0..MaxEvents
BY ValuesAssumption DEF TypeOK, Spend

LEMMA UserTypes ==
    ASSUME TypeOK, NEW u \in Users,
           \/ UserConnects(u) \/ UserEnsures(u) \/ UserLocks(u)
           \/ UserReturns(u) \/ UserCancelled(u) \/ UserDisconnects(u)
    PROVE  TypeOK'
<1>0. u \in Procs /\ u \in Users \cup Reconnectors
  BY FrameTypes
<1>1. CASE UserConnects(u)
  BY <1>0, <1>1, EnterConnectTypes DEF UserConnects, TypeOK
<1>2. CASE UserEnsures(u)
  BY <1>0, <1>2, LockThenConnectTypes DEF UserEnsures, TypeOK
<1>3. CASE UserLocks(u)
  BY <1>0, <1>3, EnterConnectTypes, QuitTypes DEF UserLocks
<1>4. CASE UserReturns(u)
  BY <1>0, <1>4, QuitTypes DEF UserReturns
<1>5. CASE UserCancelled(u)
  BY <1>0, <1>5, LeaveTypes, SpendTypes
     DEF UserCancelled, TypeOK, switchVars, sessionVars, attemptVars
<1>6. CASE UserDisconnects(u)
  <2>1. Stop(u, frame, {Watcher}) /\ {Watcher} \in SUBSET Procs
    BY <1>6, FrameTypes DEF UserDisconnects
  <2>2. frame \in [Procs -> Frames]
    BY DEF TypeOK
  <2>3. /\ frame' \in [Procs -> Frames] /\ shuttingDown' = TRUE
        /\ generation' \in Nat /\ ib' = NoAttempt /\ ibGen' = 0
        /\ open' \subseteq Attempts
        /\ connectTask' = NoAttempt /\ reconnectTask' = NoProc
        /\ reconnectLock' \in Users \cup Reconnectors \cup {NoProc}
    BY <1>0, <2>1, <2>2, StopTypes
  <2>4. QED
    BY <1>6, <2>3, SpendTypes DEF UserDisconnects, TypeOK
<1>7. QED  BY <1>1, <1>2, <1>3, <1>4, <1>5, <1>6

LEMMA ReconnectorTypes ==
    ASSUME TypeOK, NEW r \in Reconnectors,
           \/ ReconnectorStarts(r) \/ ReconnectorWakes(r) \/ ReconnectorLocks(r)
           \/ ReconnectorReturns(r) \/ ReconnectorFails(r)
    PROVE  TypeOK'
<1>0. /\ r \in Procs /\ r \in Users \cup Reconnectors
      /\ frame[r].gen \in Nat /\ generation \in Nat
  BY FrameTypes DEF TypeOK, Frames
<1>1. ASSUME NEW g \in Nat, LoopHead(r, g) PROVE TypeOK'
  BY <1>0, <1>1, LockThenConnectTypes, QuitTypes DEF LoopHead
<1>2. CASE ReconnectorStarts(r) \/ ReconnectorWakes(r)
  BY <1>0, <1>1, <1>2 DEF ReconnectorStarts, ReconnectorWakes
<1>3. CASE ReconnectorLocks(r) \/ ReconnectorReturns(r)
  BY <1>0, <1>3, EnterConnectTypes, QuitTypes
     DEF ReconnectorLocks, ReconnectorReturns
<1>4. CASE ReconnectorFails(r)
  <2>1. CASE frame[r].gen # generation \/ closed
    BY <1>0, <1>4, <2>1, QuitTypes DEF ReconnectorFails
  <2>2. CASE ~(frame[r].gen # generation \/ closed)
    <3>1. [frame[r] EXCEPT !.pc = "sleep"] \in Frames
      BY <1>0 DEF TypeOK, Frames, PCs
    <3>2. frame' \in [Procs -> Frames]
      BY <1>0, <1>4, <2>2, <3>1 DEF ReconnectorFails, TypeOK
    <3>3. QED
      BY <1>4, <2>2, <3>2 DEF ReconnectorFails, Released, TypeOK, switchVars,
                              sessionVars, attemptVars, redisVars
  <2>3. QED  BY <2>1, <2>2
<1>5. QED  BY <1>2, <1>3, <1>4

LEMMA ControlTypes ==
    ASSUME TypeOK, NEW p \in Procs,
           \/ ControlGranted(p) \/ RefreshEnables(p)
           \/ RefreshDisables(p) \/ RefreshDropped(p)
    PROVE  TypeOK'
<1>0. /\ frame \in [Procs -> Frames] /\ generation \in Nat
      /\ Released(p) \in Users \cup Reconnectors \cup {NoProc}
  BY DEF TypeOK, Released
<1>1. CASE ControlGranted(p)
  <2>1. [frame[p] EXCEPT !.control = "io"] \in Frames
    BY <1>0 DEF Frames
  <2>2. frame' \in [Procs -> Frames]
    BY <1>0, <1>1, <2>1 DEF ControlGranted
  <2>3. QED
    BY <1>1, <2>2 DEF ControlGranted, TypeOK, switchVars, sessionVars,
                      attemptVars, reconnectVars, redisVars
<1>2. CASE RefreshEnables(p)
  <2>0. UNCHANGED <<closed, sessionVars, redisVars>>
    BY <1>2 DEF RefreshEnables
  <2>1. CASE /\ Admitted(p) /\ ~Connected
             /\ \E a \in JoinableAttempts :
                   Join(a) /\ SwitchOn([frame EXCEPT ![p] = Awaiting(a)])
             /\ UNCHANGED reconnectLock
    <3>1. PICK a \in JoinableAttempts :
                   Join(a) /\ SwitchOn([frame EXCEPT ![p] = Awaiting(a)])
      BY <2>1
    <3>2. /\ connectTask' \in Attempts
          /\ attempt' \in [Attempts -> AttemptStates]
          /\ [frame EXCEPT ![p] = Awaiting(a)] \in [Procs -> Frames]
      BY <1>0, <3>1, JoinTypes
    <3>3. /\ frame' \in [Procs -> Frames]
          /\ reconnectTask' \in Reconnectors \cup {NoProc}
          /\ enabled' = TRUE /\ shuttingDown' = FALSE
      BY <3>1, <3>2, SwitchOnTypes
    <3>4. QED
      BY <2>0, <2>1, <3>2, <3>3 DEF TypeOK, sessionVars, redisVars
  <2>2. CASE /\ SwitchOn([frame EXCEPT ![p] = AfterRefresh(p, generation, {})])
             /\ reconnectLock' = IF frame[p].pc = "control2" THEN Released(p)
                                                             ELSE reconnectLock
             /\ UNCHANGED attemptVars
    <3>1. [frame EXCEPT ![p] = AfterRefresh(p, generation, {})]
            \in [Procs -> Frames]
      BY <1>0, AfterRefreshTypes
    <3>2. /\ frame' \in [Procs -> Frames]
          /\ reconnectTask' \in Reconnectors \cup {NoProc}
          /\ enabled' = TRUE /\ shuttingDown' = FALSE
      BY <2>2, <3>1, SwitchOnTypes
    <3>3. QED
      BY <1>0, <2>0, <2>2, <3>2 DEF TypeOK, sessionVars, attemptVars, redisVars
  <2>3. QED  BY <1>2, <2>1, <2>2 DEF RefreshEnables
<1>3. CASE RefreshDisables(p)
  <2> DEFINE g == IF enabled \/ ib # NoAttempt \/ ConnectBusy
                  THEN generation + 1 ELSE generation
  <2>0. g \in Nat
    BY <1>0
  <2>1. SwitchOff(p, [frame EXCEPT ![p] = AfterRefresh(p, g, {reconnectTask})])
    BY <1>3 DEF RefreshDisables
  <2> HIDE DEF g
  <2>2. [frame EXCEPT ![p] = AfterRefresh(p, g, {reconnectTask})]
            \in [Procs -> Frames]
    BY <1>0, <2>0, AfterRefreshTypes
  <2>3. /\ frame' \in [Procs -> Frames]
        /\ enabled' \in BOOLEAN /\ shuttingDown' \in BOOLEAN
        /\ generation' \in Nat /\ ibGen' \in Nat
        /\ ib' \in Attempts \cup {NoAttempt}
        /\ open' \subseteq Attempts
        /\ connectTask' \in Attempts \cup {NoAttempt}
        /\ reconnectTask' \in Reconnectors \cup {NoProc}
        /\ reconnectLock' \in Users \cup Reconnectors \cup {NoProc}
    BY <2>1, <2>2, SwitchOffTypes
  <2>4. /\ UNCHANGED <<closed, attempt, want, key>>
        /\ events' \in 0..MaxEvents
    BY <1>3, SpendTypes DEF RefreshDisables, redisVars, TypeOK
  <2>5. QED  BY <2>3, <2>4 DEF TypeOK
<1>4. CASE RefreshDropped(p)
  <2>1. \/ frame' = [frame EXCEPT ![p] = IdleFrame]
        \/ frame' = [frame EXCEPT ![p] = AfterRefresh(p, generation, {})]
    BY <1>4 DEF RefreshDropped
  <2>2. frame' \in [Procs -> Frames]
    BY <1>0, <2>1, AfterRefreshTypes, FrameTypes
  <2>3. /\ reconnectLock' \in Users \cup Reconnectors \cup {NoProc}
        /\ UNCHANGED <<switchVars, sessionVars, attemptVars, reconnectTask,
                       redisVars>>
    BY <1>0, <1>4 DEF RefreshDropped, TypeOK
  <2>4. QED
    BY <2>2, <2>3 DEF TypeOK, switchVars, sessionVars, attemptVars, redisVars
<1>5. QED  BY <1>1, <1>2, <1>3, <1>4

LEMMA WriterTypes ==
    ASSUME TypeOK, NEW w \in Writers,
           \/ \E on \in BOOLEAN : WriteStarts(w, on)
           \/ WriteStored(w) \/ WriteFails(w) \/ WriteCancelled(w)
    PROVE  TypeOK'
<1> DEFINE fs == [frame EXCEPT ![w] = IdleFrame]
<1>0. /\ w \in Procs /\ fs \in [Procs -> Frames]
      /\ Stored(w) \in KeyValues
      /\ [want EXCEPT ![w] = FALSE] \in [Writers -> BOOLEAN]
  BY FrameTypes DEF TypeOK, Stored, KeyValues
<1>1. ASSUME NEW on \in BOOLEAN, WriteStarts(w, on) PROVE TypeOK'
  <2>1. [IdleFrame EXCEPT !.pc = "write", !.controlGen = generation,
                          !.control = AtControl(w, {})] \in Frames
    BY AtControlTypes DEF IdleFrame, Frames, PCs, TypeOK
  <2>2. frame' \in [Procs -> Frames]
    BY <1>0, <1>1, <2>1 DEF WriteStarts, TypeOK
  <2>3. events' \in 0..MaxEvents /\ want' \in [Writers -> BOOLEAN]
    BY <1>1, SpendTypes DEF WriteStarts, TypeOK
  <2>4. QED
    BY <1>1, <2>2, <2>3 DEF WriteStarts, TypeOK, switchVars, sessionVars,
                            attemptVars, reconnectVars
<1>2. ASSUME SwitchOff(w, fs), UNCHANGED <<closed, attempt>>,
             events' \in 0..MaxEvents, key' \in KeyValues,
             want' \in [Writers -> BOOLEAN]
      PROVE  TypeOK'
  <2>1. /\ frame' \in [Procs -> Frames]
        /\ enabled' \in BOOLEAN /\ shuttingDown' \in BOOLEAN
        /\ generation' \in Nat /\ ibGen' \in Nat
        /\ ib' \in Attempts \cup {NoAttempt}
        /\ open' \subseteq Attempts
        /\ connectTask' \in Attempts \cup {NoAttempt}
        /\ reconnectTask' \in Reconnectors \cup {NoProc}
        /\ reconnectLock' \in Users \cup Reconnectors \cup {NoProc}
    BY <1>0, <1>2, SwitchOffTypes
  <2>2. QED  BY <1>2, <2>1 DEF TypeOK
<1>3. CASE WriteStored(w)
  <2>1. /\ UNCHANGED <<closed, attempt, events>>
        /\ key' \in KeyValues /\ want' \in [Writers -> BOOLEAN]
    BY <1>0, <1>3 DEF WriteStored
  <2>2. CASE /\ frame' = fs
             /\ UNCHANGED <<enabled, shuttingDown, sessionVars, connectTask,
                            reconnectVars>>
    BY <1>0, <2>1, <2>2 DEF TypeOK, sessionVars, reconnectVars
  <2>3. CASE SwitchOn(fs) /\ UNCHANGED <<sessionVars, connectTask, reconnectLock>>
    <3>1. /\ frame' \in [Procs -> Frames]
          /\ reconnectTask' \in Reconnectors \cup {NoProc}
          /\ enabled' = TRUE /\ shuttingDown' = FALSE
      BY <1>0, <2>3, SwitchOnTypes
    <3>2. QED  BY <2>1, <2>3, <3>1 DEF TypeOK, sessionVars
  <2>4. CASE SwitchOff(w, fs)
    <3>1. events' \in 0..MaxEvents
      BY <2>1 DEF TypeOK
    <3>2. QED  BY <1>2, <2>1, <2>4, <3>1
  <2>5. QED  BY <1>3, <2>2, <2>3, <2>4 DEF WriteStored
<1>4. CASE WriteFails(w)
  <2>1. /\ UNCHANGED <<closed, attempt>> /\ SwitchOff(w, fs)
        /\ events' \in 0..MaxEvents /\ key' \in KeyValues
        /\ want' \in [Writers -> BOOLEAN]
    BY <1>0, <1>4, SpendTypes DEF WriteFails, TypeOK
  <2>2. QED  BY <1>2, <2>1
<1>5. CASE WriteCancelled(w)
  <2>1. key' \in KeyValues /\ want' \in [Writers -> BOOLEAN]
    BY <1>0, <1>5 DEF WriteCancelled, TypeOK
  <2>2. QED
    BY <1>0, <1>5, <2>1 DEF WriteCancelled, TypeOK, switchVars, sessionVars,
                            attemptVars, reconnectVars
<1>6. QED  BY <1>1, <1>3, <1>4, <1>5

LEMMA AttemptTypes ==
    ASSUME TypeOK, NEW a \in Attempts,
           \/ AttemptDials(a) \/ AttemptRefused(a) \/ DialOpens(a)
           \/ AttemptConnects(a) \/ AttemptFails(a) \/ SocketDrops(a)
    PROVE  TypeOK'
<1>0. attempt[a] \in AttemptStates
  BY DEF TypeOK
<1>1. CASE AttemptDials(a)
  BY <1>0, <1>1 DEF AttemptDials, AttemptStates, TypeOK, switchVars,
                    reconnectVars, redisVars
<1>2. CASE AttemptRefused(a)
  BY <1>2, ResolveTypes DEF AttemptRefused, TypeOK, switchVars, sessionVars,
                            reconnectVars, redisVars
<1>3. CASE DialOpens(a)
  BY <1>0, <1>3 DEF DialOpens, AttemptStates, TypeOK, switchVars,
                    reconnectVars, redisVars
<1>4. CASE AttemptConnects(a)
  BY <1>4, ResolveTypes DEF AttemptConnects, TypeOK, switchVars, sessionVars,
                            reconnectVars, redisVars
<1>5. CASE AttemptFails(a)
  <2>1. /\ frame' \in [Procs -> Frames]
        /\ attempt' \in [Attempts -> AttemptStates]
        /\ connectTask' \in Attempts \cup {NoAttempt}
    BY <1>5, ResolveTypes DEF AttemptFails
  <2>2. events' \in 0..MaxEvents
    BY <1>5, SpendTypes DEF AttemptFails, TypeOK
  <2>3. QED
    BY <1>5, <2>1, <2>2 DEF AttemptFails, Dispose, TypeOK, switchVars,
                            reconnectVars
<1>6. CASE SocketDrops(a)
  <2>1. events' \in 0..MaxEvents
    BY <1>6, SpendTypes DEF SocketDrops
  <2>2. /\ frame' \in [Procs -> Frames] /\ generation' \in Nat
        /\ reconnectTask' \in Reconnectors \cup {NoProc}
    <3>1. CASE StartReconnector(frame) /\ generation' = generation + 1
      BY <3>1, StartReconnectorTypes DEF TypeOK
    <3>2. CASE UNCHANGED <<generation, frame, reconnectTask>>
      BY <3>2 DEF TypeOK
    <3>3. QED  BY <1>6, <3>1, <3>2 DEF SocketDrops
  <2>3. QED
    BY <1>6, <2>1, <2>2 DEF SocketDrops, TypeOK, switchVars, attemptVars
<1>7. QED  BY <1>1, <1>2, <1>3, <1>4, <1>5, <1>6

LEMMA NextTypes == TypeOK /\ [Next]_vars => TypeOK'
<1> SUFFICES ASSUME TypeOK, [Next]_vars PROVE TypeOK'
  OBVIOUS
<1>1. CASE WatcherWakes
  <2>1. [IdleFrame EXCEPT !.pc = "poll", !.controlGen = generation,
                          !.control = AtControl(Watcher, {})] \in Frames
    BY AtControlTypes DEF IdleFrame, Frames, PCs, TypeOK
  <2>2. frame' \in [Procs -> Frames]
    BY <1>1, <2>1 DEF WatcherWakes, TypeOK
  <2>3. QED
    BY <1>1, <2>2 DEF WatcherWakes, TypeOK, switchVars, sessionVars,
                      attemptVars, reconnectVars, redisVars
<1>2. CASE KeyChanges
  BY <1>2, SpendTypes
     DEF KeyChanges, TypeOK, switchVars, sessionVars, attemptVars,
         reconnectVars
<1>3. CASE UNCHANGED vars
  BY <1>3 DEF vars, TypeOK, switchVars, sessionVars, attemptVars,
              reconnectVars, redisVars
<1>4. QED
  BY <1>1, <1>2, <1>3, UserTypes, ReconnectorTypes, ControlTypes, WriterTypes,
     AttemptTypes DEF Next

\* Every variable of the manager keeps its type: no step leaves a session, an
\* attempt or a coroutine in a shape that the code has no name for.
THEOREM TypeCorrect == Spec => []TypeOK
<1>1. QED  BY InitTypes, NextTypes, PTL DEF Spec

-----------------------------------------------------------------------------
(***************************************************************************)
(* The inductive invariant of the session.  The properties alone are not   *)
(* inductive: a step that ends a generation is harmless only because no    *)
(* attempt and no client can be of a generation still to come, a dropped   *)
(* socket ends its session only because no attempt is under way once the   *)
(* session is settled.                                                     *)
(***************************************************************************)

GensBounded ==
    /\ \A a \in Attempts : attempt[a].gen <= generation
    /\ ibGen <= generation

ClientSetUp == ib # NoAttempt => attempt[ib].pc # "created"

SettledSession ==
    ib # NoAttempt /\ ibGen = generation /\ attempt[ib].pc = "idle"
        => ib \in open /\ connectTask = NoAttempt

CurrentClient ==
    ib # NoAttempt
        => /\ ib \in open => ibGen = generation
           /\ attempt[ib].pc # "idle" => /\ ibGen = generation
                                         /\ attempt[ib].gen = generation

SessionInv ==
    /\ TypeOK
    /\ GensBounded
    /\ ClientSetUp
    /\ SettledSession
    /\ CurrentClient
    /\ OneAttemptPerSession
    /\ StoppedHasNoClient
    /\ NoOrphanSocket

\* What a step of any coroutine amounts to for the session

SwitchesFit == ib # NoAttempt => enabled' /\ ~closed' /\ ~shuttingDown'

Keeps == UNCHANGED <<sessionVars, attemptVars>> /\ SwitchesFit

Stops ==
    /\ generation' = generation + 1
    /\ ib' = NoAttempt /\ ibGen' = 0
    /\ open' = open \ {ib}
    /\ connectTask' = NoAttempt
    /\ UNCHANGED attempt

Joins(a) ==
    /\ Reusable(a) /\ ~ConnectBusy /\ ~Connected
    /\ connectTask' = a
    /\ attempt' = [attempt EXCEPT ![a] = [pc |-> "created", gen |-> generation]]
    /\ UNCHANGED sessionVars
    /\ SwitchesFit

Attempting(a) ==
    \/ AttemptDials(a) \/ AttemptRefused(a) \/ DialOpens(a)
    \/ AttemptConnects(a) \/ AttemptFails(a) \/ SocketDrops(a)

SessionStep ==
    Keeps \/ Stops \/ \E a \in Attempts : Joins(a) \/ Attempting(a)

LEMMA KeptSwitches ==
    StoppedHasNoClient /\ UNCHANGED switchVars => SwitchesFit
BY DEF StoppedHasNoClient, SwitchesFit, switchVars

LEMMA JoinSteps ==
    ASSUME NEW a \in JoinableAttempts, Join(a), ~Connected, SwitchesFit,
           UNCHANGED sessionVars, connectTask \in Attempts \cup {NoAttempt}
    PROVE  SessionStep
<1>1. CASE ConnectBusy
  <2>1. Keeps
    BY <1>1 DEF Keeps, Join, JoinableAttempts, attemptVars
  <2>2. QED  BY <2>1 DEF SessionStep
<1>2. CASE ~ConnectBusy
  <2>1. a \in Attempts /\ Joins(a)
    BY <1>2 DEF Joins, Join, JoinableAttempts
  <2>2. QED  BY <2>1 DEF SessionStep
<1>3. QED  BY <1>1, <1>2

LEMMA EnterConnectSteps ==
    ASSUME SessionInv, NEW p, NEW h, EnterConnect(p, h)
    PROVE  SessionStep
<1>0. UNCHANGED sessionVars /\ connectTask \in Attempts \cup {NoAttempt}
  BY DEF EnterConnect, SessionInv, TypeOK
<1>1. SwitchesFit
  BY DEF EnterConnect, SessionInv, StoppedHasNoClient, SwitchesFit
<1>2. CASE UNCHANGED attemptVars
  BY <1>0, <1>1, <1>2 DEF SessionStep, Keeps
<1>3. CASE ~Connected /\ \E a \in JoinableAttempts : Join(a)
  BY <1>0, <1>1, <1>3, JoinSteps
<1>4. QED  BY <1>2, <1>3 DEF EnterConnect

LEMMA LeaveSteps ==
    ASSUME SessionInv, NEW p, Leave(p)
    PROVE  SessionStep
BY KeptSwitches DEF SessionInv, Leave, SessionStep, Keeps

LEMMA LockThenConnectSteps ==
    ASSUME SessionInv, NEW p, NEW g, LockThenConnect(p, g)
    PROVE  SessionStep
BY EnterConnectSteps, KeptSwitches
   DEF SessionInv, LockThenConnect, SessionStep, Keeps

LEMMA SwitchOffSteps ==
    ASSUME SessionInv, NEW p, NEW fs, SwitchOff(p, fs), UNCHANGED attempt
    PROVE  SessionStep
<1>1. CASE enabled \/ ib # NoAttempt \/ ConnectBusy
  BY <1>1 DEF SwitchOff, Stop, Stops, SessionStep
<1>2. CASE ~(enabled \/ ib # NoAttempt \/ ConnectBusy)
  BY <1>2 DEF SwitchOff, KeepSession, SessionStep, Keeps, SwitchesFit,
              attemptVars
<1>3. QED  BY <1>1, <1>2

LEMMA SwitchOnFits ==
    ASSUME NEW fs, SwitchOn(fs), ~closed, UNCHANGED closed
    PROVE  SwitchesFit
BY DEF SwitchOn, SwitchesFit

LEMMA NextSteps ==
    ASSUME SessionInv, [Next]_vars
    PROVE  SessionStep
<1>1. ASSUME UNCHANGED <<switchVars, sessionVars, attemptVars>>
      PROVE  SessionStep
  BY <1>1, KeptSwitches DEF SessionInv, SessionStep, Keeps
<1>2. ASSUME NEW u \in Users,
             \/ UserConnects(u) \/ UserEnsures(u) \/ UserLocks(u)
             \/ UserReturns(u) \/ UserCancelled(u)
      PROVE  SessionStep
  BY <1>2, EnterConnectSteps, LockThenConnectSteps, LeaveSteps
     DEF UserConnects, UserEnsures, UserLocks, UserReturns, UserCancelled, Quit
<1>3. ASSUME NEW u \in Users, UserDisconnects(u)
      PROVE  SessionStep
  BY <1>3 DEF UserDisconnects, Stop, Stops, SessionStep
<1>4. ASSUME NEW r \in Reconnectors,
             \/ ReconnectorStarts(r) \/ ReconnectorWakes(r)
             \/ ReconnectorLocks(r) \/ ReconnectorReturns(r)
             \/ ReconnectorFails(r)
      PROVE  SessionStep
  BY <1>1, <1>4, EnterConnectSteps, LockThenConnectSteps, LeaveSteps
     DEF ReconnectorStarts, ReconnectorWakes, ReconnectorLocks,
         ReconnectorReturns, ReconnectorFails, LoopHead, Quit
<1>5. ASSUME NEW p \in Procs, RefreshEnables(p)
      PROVE  SessionStep
  <2>0. /\ UNCHANGED sessionVars /\ ~closed /\ UNCHANGED closed
        /\ connectTask \in Attempts \cup {NoAttempt}
    BY <1>5 DEF RefreshEnables, Moot, SessionInv, TypeOK
  <2>1. CASE ~Connected /\ \E a \in JoinableAttempts :
                 Join(a) /\ SwitchOn([frame EXCEPT ![p] = Awaiting(a)])
    BY <2>0, <2>1, JoinSteps, SwitchOnFits
  <2>2. CASE /\ SwitchOn([frame EXCEPT ![p] = AfterRefresh(p, generation, {})])
             /\ UNCHANGED attemptVars
    BY <2>0, <2>2, SwitchOnFits DEF SessionStep, Keeps
  <2>3. QED  BY <1>5, <2>1, <2>2 DEF RefreshEnables
<1>6. ASSUME NEW p \in Procs,
             ControlGranted(p) \/ RefreshDisables(p) \/ RefreshDropped(p)
      PROVE  SessionStep
  BY <1>1, <1>6, SwitchOffSteps
     DEF ControlGranted, RefreshDisables, RefreshDropped
<1>7. ASSUME NEW w \in Writers,
             \/ \E on \in BOOLEAN : WriteStarts(w, on)
             \/ WriteStored(w) \/ WriteFails(w) \/ WriteCancelled(w)
      PROVE  SessionStep
  <2>1. CASE (\E on \in BOOLEAN : WriteStarts(w, on)) \/ WriteFails(w)
    BY <1>1, <2>1, SwitchOffSteps DEF WriteStarts, WriteFails
  <2>2. CASE WriteStored(w)
    <3>1. CASE ~Moot(w) /\ SwitchOn([frame EXCEPT ![w] = IdleFrame])
               /\ UNCHANGED <<sessionVars, connectTask>>
      BY <2>2, <3>1, SwitchOnFits
         DEF WriteStored, Moot, SessionStep, Keeps, attemptVars
    <3>2. CASE UNCHANGED <<enabled, shuttingDown, sessionVars, connectTask>>
      BY <1>1, <2>2, <3>2 DEF WriteStored, switchVars, attemptVars
    <3>3. CASE SwitchOff(w, [frame EXCEPT ![w] = IdleFrame])
      BY <2>2, <3>3, SwitchOffSteps DEF WriteStored
    <3>4. QED  BY <2>2, <3>1, <3>2, <3>3 DEF WriteStored
  <2>3. CASE WriteCancelled(w)
    BY <1>1, <2>3 DEF WriteCancelled
  <2>4. QED  BY <1>7, <2>1, <2>2, <2>3
<1>8. ASSUME WatcherWakes \/ KeyChanges \/ UNCHANGED vars
      PROVE  SessionStep
  BY <1>1, <1>8 DEF WatcherWakes, KeyChanges, vars
<1>9. ASSUME NEW a \in Attempts, Attempting(a)
      PROVE  SessionStep
  BY <1>9 DEF SessionStep
<1>10. QED
  BY <1>2, <1>3, <1>4, <1>5, <1>6, <1>7, <1>8, <1>9 DEF Next, Attempting

LEMMA InitSession == Init => SessionInv
BY InitTypes
   DEF Init, SessionInv, GensBounded, ClientSetUp, SettledSession,
       CurrentClient, IdleAttempt, OneAttemptPerSession, StoppedHasNoClient, NoOrphanSocket

LEMMA KeepsSession == SessionInv /\ TypeOK' /\ Keeps => SessionInv'
BY DEF Keeps, SwitchesFit, sessionVars, attemptVars, SessionInv, GensBounded,
       ClientSetUp, SettledSession, CurrentClient, OneAttemptPerSession,
       StoppedHasNoClient, NoOrphanSocket

LEMMA StopsSession == SessionInv /\ TypeOK' /\ Stops => SessionInv'
<1> SUFFICES ASSUME SessionInv, TypeOK', Stops PROVE SessionInv'
  OBVIOUS
<1>1. /\ generation \in Nat /\ generation' = generation + 1
      /\ \A a \in Attempts : attempt[a].gen \in Nat
      /\ \A a \in Attempts : attempt[a].gen <= generation
      /\ UNCHANGED attempt
  BY DEF SessionInv, TypeOK, GensBounded, Stops, AttemptStates
<1>2. GensBounded'
  BY <1>1 DEF GensBounded, Stops
<1>3. OneAttemptPerSession'
  BY <1>1 DEF OneAttemptPerSession
<1>4. NoOrphanSocket'
  BY DEF NoOrphanSocket, Stops, SessionInv
<1>5. QED
  BY <1>2, <1>3, <1>4
     DEF Stops, SessionInv, ClientSetUp, SettledSession, CurrentClient,
         StoppedHasNoClient

LEMMA JoinsSession ==
    ASSUME SessionInv, TypeOK', NEW a \in Attempts, Joins(a)
    PROVE  SessionInv'
<1> USE DEF Joins
<1>0. /\ generation \in Nat /\ UNCHANGED sessionVars
      /\ attempt \in [Attempts -> AttemptStates]
      /\ attempt' = [attempt EXCEPT ![a] = [pc |-> "created", gen |-> generation]]
      /\ attempt[a].pc = "idle" /\ a # ib
      /\ ib \in Attempts \cup {NoAttempt}
  BY DEF SessionInv, TypeOK, Reusable
<1>1. GensBounded'
  BY <1>0 DEF SessionInv, GensBounded, sessionVars
<1>2. ClientSetUp'
  BY <1>0 DEF SessionInv, ClientSetUp, sessionVars
<1>3. SettledSession'
  BY <1>0 DEF SessionInv, SettledSession, Connected, sessionVars
<1>4. OneAttemptPerSession'
  <2>1. ASSUME NEW b \in Attempts, b # a,
               attempt[b].pc # "idle", attempt[b].gen = generation
        PROVE  FALSE
    BY <2>1, ValuesAssumption DEF SessionInv, OneAttemptPerSession, ConnectBusy
  <2>2. QED
    BY <1>0, <2>1 DEF OneAttemptPerSession, sessionVars
<1>5. StoppedHasNoClient'
  BY DEF SwitchesFit, StoppedHasNoClient, sessionVars
<1>6. NoOrphanSocket'
  BY <1>0 DEF SessionInv, NoOrphanSocket, sessionVars, TypeOK
<1>7. CurrentClient'
  BY <1>0 DEF SessionInv, CurrentClient, sessionVars
<1>8. QED
  BY <1>1, <1>2, <1>3, <1>4, <1>5, <1>6, <1>7 DEF SessionInv

LEMMA AttemptingSession ==
    ASSUME SessionInv, TypeOK', NEW a \in Attempts, Attempting(a)
    PROVE  SessionInv'
<1>0. /\ generation \in Nat /\ ibGen \in Nat
      /\ attempt \in [Attempts -> AttemptStates]
      /\ attempt[a] \in AttemptStates
      /\ ib \in Attempts \cup {NoAttempt} /\ open \subseteq Attempts
      /\ connectTask \in Attempts \cup {NoAttempt}
      /\ NoAttempt \notin Attempts
  BY ValuesAssumption DEF SessionInv, TypeOK
<1>1. CASE AttemptDials(a)
  <2>0. CurrentClient'
    BY <1>0, <1>1 DEF AttemptDials, CurrentClient, GenerationValid, AttemptStates
  <2>1. GensBounded' /\ ClientSetUp' /\ SettledSession'
    BY <1>0, <1>1 DEF AttemptDials, SessionInv, GensBounded, ClientSetUp,
                      SettledSession, AttemptStates
  <2>2. OneAttemptPerSession' /\ NoOrphanSocket'
    BY <1>0, <1>1 DEF AttemptDials, SessionInv, OneAttemptPerSession,
                      NoOrphanSocket, AttemptStates
  <2>3. StoppedHasNoClient'
    BY <1>1 DEF AttemptDials, GenerationValid, StoppedHasNoClient, switchVars
  <2>4. QED  BY <2>0, <2>1, <2>2, <2>3 DEF SessionInv
<1>2. CASE AttemptRefused(a)
  <2>0. /\ attempt' = [attempt EXCEPT ![a] = IdleAttempt]
        /\ connectTask' = IF connectTask = a THEN NoAttempt ELSE connectTask
        /\ attempt[a].pc = "created"
        /\ UNCHANGED <<switchVars, sessionVars>>
    BY <1>2 DEF AttemptRefused, Resolve
  <2>1. GensBounded' /\ ClientSetUp' /\ OneAttemptPerSession'
    BY <1>0, <2>0 DEF SessionInv, GensBounded, ClientSetUp, IdleAttempt,
                      OneAttemptPerSession, sessionVars
  <2>2. SettledSession' /\ NoOrphanSocket'
    BY <1>0, <2>0 DEF SessionInv, ClientSetUp, SettledSession, NoOrphanSocket,
                      sessionVars
  <2>3. StoppedHasNoClient'
    BY <2>0 DEF SessionInv, StoppedHasNoClient, switchVars, sessionVars
  <2>4. CurrentClient'
    BY <1>0, <2>0 DEF SessionInv, ClientSetUp, CurrentClient, sessionVars
  <2>5. QED  BY <2>1, <2>2, <2>3, <2>4 DEF SessionInv
<1>3. CASE DialOpens(a)
  <2>1. GensBounded' /\ ClientSetUp' /\ OneAttemptPerSession'
    BY <1>0, <1>3 DEF DialOpens, SessionInv, GensBounded, ClientSetUp,
                      OneAttemptPerSession, AttemptStates
  <2>2. SettledSession' /\ NoOrphanSocket'
    BY <1>0, <1>3 DEF DialOpens, SessionInv, SettledSession, NoOrphanSocket,
                      AttemptStates
  <2>3. StoppedHasNoClient'
    BY <1>3 DEF DialOpens, SessionInv, StoppedHasNoClient, switchVars
  <2>4. CurrentClient'
    BY <1>0, <1>3 DEF DialOpens, SessionInv, CurrentClient, AttemptStates
  <2>5. QED  BY <2>1, <2>2, <2>3, <2>4 DEF SessionInv
<1>4. CASE AttemptConnects(a)
  <2>0. /\ attempt' = [attempt EXCEPT ![a] = IdleAttempt]
        /\ connectTask' = IF connectTask = a THEN NoAttempt ELSE connectTask
        /\ attempt[a].pc = "dialed" /\ attempt[a].gen = generation
        /\ ib = a /\ a \in open
        /\ UNCHANGED <<switchVars, sessionVars>>
    BY <1>4 DEF AttemptConnects, Resolve, SetupComplete, GenerationValid
  <2>1. GensBounded' /\ ClientSetUp' /\ OneAttemptPerSession'
    BY <1>0, <2>0 DEF SessionInv, GensBounded, ClientSetUp, IdleAttempt,
                      OneAttemptPerSession, sessionVars
  <2>2. SettledSession' /\ NoOrphanSocket'
    BY <1>0, <2>0 DEF SessionInv, OneAttemptPerSession, SettledSession,
                      NoOrphanSocket, sessionVars
  <2>3. StoppedHasNoClient'
    BY <2>0 DEF SessionInv, StoppedHasNoClient, switchVars, sessionVars
  <2>4. CurrentClient'
    BY <1>0, <2>0 DEF SessionInv, CurrentClient, IdleAttempt, sessionVars
  <2>5. QED  BY <2>1, <2>2, <2>3, <2>4 DEF SessionInv
<1>5. CASE AttemptFails(a)
  <2>0. /\ attempt' = [attempt EXCEPT ![a] = IdleAttempt]
        /\ connectTask' = IF connectTask = a THEN NoAttempt ELSE connectTask
        /\ ib' = IF ib = a THEN NoAttempt ELSE ib
        /\ ibGen' = IF ib = a THEN 0 ELSE ibGen
        /\ open' = open \ {a}
        /\ UNCHANGED <<switchVars, generation>>
    BY <1>5 DEF AttemptFails, Resolve, Dispose
  <2>1. GensBounded' /\ ClientSetUp' /\ OneAttemptPerSession'
    BY <1>0, <2>0 DEF SessionInv, GensBounded, ClientSetUp, IdleAttempt,
                      OneAttemptPerSession
  <2>2. SettledSession' /\ NoOrphanSocket'
    BY <1>0, <2>0 DEF SessionInv, SettledSession, NoOrphanSocket
  <2>3. StoppedHasNoClient'
    BY <2>0 DEF SessionInv, StoppedHasNoClient, switchVars
  <2>4. CurrentClient'
    BY <1>0, <2>0 DEF SessionInv, CurrentClient
  <2>5. QED  BY <2>1, <2>2, <2>3, <2>4 DEF SessionInv
<1>6. CASE SocketDrops(a)
  <2>0. /\ open' = open \ {a}
        /\ UNCHANGED <<switchVars, ib, ibGen, attemptVars>>
        /\ \/ UNCHANGED generation /\ (a # ib \/ shuttingDown \/ ~enabled \/ ConnectBusy)
           \/ generation' = generation + 1 /\ a = ib /\ ~ConnectBusy
    BY <1>6 DEF SocketDrops
  <2>1. ClientSetUp' /\ StoppedHasNoClient' /\ NoOrphanSocket'
    BY <1>0, <2>0 DEF SessionInv, ClientSetUp, StoppedHasNoClient,
                      NoOrphanSocket, switchVars, attemptVars
  <2>2. CASE UNCHANGED generation /\ (a # ib \/ shuttingDown \/ ~enabled \/ ConnectBusy)
    <3>1. GensBounded' /\ OneAttemptPerSession'
      BY <2>0, <2>2 DEF SessionInv, GensBounded, OneAttemptPerSession, attemptVars
    <3>2. SettledSession'
      BY <1>0, <2>0, <2>2 DEF SessionInv, SettledSession, StoppedHasNoClient,
                              ConnectBusy, attemptVars
    <3>3. CurrentClient'
      BY <1>0, <2>0, <2>2 DEF SessionInv, CurrentClient, attemptVars
    <3>4. QED  BY <2>1, <3>1, <3>2, <3>3 DEF SessionInv
  <2>3. CASE generation' = generation + 1 /\ a = ib /\ ~ConnectBusy
    <3>1. \A b \in Attempts : attempt[b].gen \in Nat
      BY <1>0 DEF AttemptStates
    <3>2. GensBounded' /\ OneAttemptPerSession' /\ SettledSession'
      BY <1>0, <2>0, <2>3, <3>1
         DEF SessionInv, GensBounded, OneAttemptPerSession, SettledSession,
             attemptVars
    <3>3. CurrentClient'
      BY <1>0, <2>0, <2>3
         DEF SessionInv, CurrentClient, OneAttemptPerSession, ConnectBusy,
             attemptVars
    <3>4. QED  BY <2>1, <3>2, <3>3 DEF SessionInv
  <2>4. QED  BY <2>0, <2>2, <2>3
<1>7. QED
  BY <1>1, <1>2, <1>3, <1>4, <1>5, <1>6 DEF Attempting

LEMMA NextSession == SessionInv /\ [Next]_vars => SessionInv'
<1> SUFFICES ASSUME SessionInv, [Next]_vars PROVE SessionInv'
  OBVIOUS
<1>1. TypeOK'
  BY NextTypes DEF SessionInv
<1>2. SessionStep
  BY NextSteps
<1>3. QED
  BY <1>1, <1>2, KeepsSession, StopsSession, JoinsSession, AttemptingSession
     DEF SessionStep

\* The inductive invariant: which attempt a generation and the manager's client
\* belong to, and who has yet to close each open socket.
THEOREM SessionInvariant == Spec => []SessionInv
<1>1. QED  BY InitSession, NextSession, PTL DEF Spec

\* A disabled, stopping or closed manager has no client.
THEOREM StoppedManagerHasNoClient == Spec => []StoppedHasNoClient
<1>1. SessionInv => StoppedHasNoClient
  BY DEF SessionInv
<1>2. QED  BY <1>1, SessionInvariant, PTL

\* No cancelled or obsolete attempt leaks a socket.
THEOREM SocketsAreOwned == Spec => []NoOrphanSocket
<1>1. SessionInv => NoOrphanSocket
  BY DEF SessionInv
<1>2. QED  BY <1>1, SessionInvariant, PTL

\* However many callers connect, one attempt works for a session.
THEOREM AttemptsAreShared == Spec => []OneAttemptPerSession
<1>1. SessionInv => OneAttemptPerSession
  BY DEF SessionInv
<1>2. QED  BY <1>1, SessionInvariant, PTL

\* A dead socket ends its session, or an attempt is there to notice.
THEOREM DeadSocketsAreNoticed == Spec => []DeadSocketEndsSession
<1>1. SessionInv => DeadSocketEndsSession
  BY DEF SessionInv, SettledSession, DeadSocketEndsSession
<1>2. QED  BY <1>1, SessionInvariant, PTL

-----------------------------------------------------------------------------
\* The connection implements IBKRSession.

LEMMA InitRefines == Init => Session!Init
BY ValuesAssumption DEF Init, Session!Init, SessionClient, Settled, Connected

\* In the invariant's states a live socket is all there is to a session.
LiveSession ==
    /\ SessionClient = IF ib \in open THEN ib ELSE NoAttempt
    /\ Settled = (ib \in open /\ attempt[ib].pc = "idle")

LEMMA SessionIsLive == SessionInv => LiveSession
<1> SUFFICES ASSUME SessionInv PROVE LiveSession
  OBVIOUS
<1>1. open \subseteq Attempts /\ NoAttempt \notin Attempts
  BY ValuesAssumption DEF SessionInv, TypeOK
<1>2. ib \in open => enabled /\ ~shuttingDown
  BY <1>1 DEF SessionInv, StoppedHasNoClient
<1>3. SessionClient = IF ib \in open THEN ib ELSE NoAttempt
  BY <1>2 DEF SessionClient, Connected
<1>4. QED
  BY <1>1, <1>3 DEF Settled, LiveSession

LEMMA SessionStaysLive == SessionInv' => LiveSession'
BY SessionIsLive, PTL

LEMMA StepRefines ==
    ASSUME SessionInv, SessionInv', [Next]_vars
    PROVE  [Session!Next]_<<generation, SessionClient, Settled>>
<1>0. /\ attempt \in [Attempts -> AttemptStates]
      /\ open \subseteq Attempts /\ open' \subseteq Attempts
      /\ ib \in Attempts \cup {NoAttempt}
      /\ NoAttempt \notin Attempts
  BY ValuesAssumption DEF SessionInv, TypeOK
<1> DEFINE Client == IF ib \in open THEN ib ELSE NoAttempt
           Over == ib \in open /\ attempt[ib].pc = "idle"
           Same == UNCHANGED <<generation, Client, Over>>
           Offer == /\ Client = NoAttempt /\ Client' # NoAttempt
                    /\ UNCHANGED <<generation, Over>>
           Settle == /\ Client # NoAttempt /\ ~Over /\ Over'
                     /\ UNCHANGED <<generation, Client>>
           Withdraw == /\ Client # NoAttempt /\ ~Over /\ Client' = NoAttempt
                       /\ UNCHANGED <<generation, Over>>
           End == generation' = generation + 1 /\ Client' = NoAttempt /\ ~Over'
<1>1. /\ SessionClient = Client /\ Settled = Over
      /\ SessionClient' = Client' /\ Settled' = Over'
  BY SessionIsLive, SessionStaysLive DEF LiveSession
<1>2. SUFFICES Same \/ Offer \/ Settle \/ Withdraw \/ End
  <2>1. Client' \in Attempts \cup {NoAttempt}
    BY <1>0
  <2>2. QED
    BY <1>0, <1>1, <2>1 DEF Session!Next, Session!Offers, Session!Settles,
                       Session!Withdraws, Session!Ends
<1>3. CASE Keeps
  BY <1>3 DEF Keeps, sessionVars, attemptVars
<1>4. CASE Stops
  BY <1>0, <1>4 DEF Stops
<1>5. ASSUME NEW a \in Attempts, Joins(a) PROVE Same
  BY <1>0, <1>5 DEF Joins, Reusable, sessionVars
<1>6. ASSUME NEW a \in Attempts, AttemptDials(a) PROVE Same
  <2>1. /\ attempt'[a].pc = "dialing" /\ ib' = a /\ UNCHANGED generation
        /\ ib \notin open /\ open' = open \ {ib}
        /\ attempt[a].pc = "created" /\ a # ib
    BY <1>0, <1>6 DEF AttemptDials, Connected, AttemptStates, SessionInv, ClientSetUp
  <2>2. a \notin open
    BY <2>1 DEF SessionInv, NoOrphanSocket
  <2>3. QED  BY <2>1, <2>2
<1>7. ASSUME NEW a \in Attempts, AttemptRefused(a) PROVE Same
  <2>1. /\ attempt' = [attempt EXCEPT ![a] = IdleAttempt]
        /\ attempt[a].pc = "created"
        /\ UNCHANGED sessionVars
    BY <1>7 DEF AttemptRefused, Resolve
  <2>2. a # ib
    BY <1>0, <2>1 DEF SessionInv, ClientSetUp
  <2>3. QED  BY <1>0, <2>1, <2>2 DEF sessionVars
<1>8. ASSUME NEW a \in Attempts, DialOpens(a) PROVE Same \/ Offer
  <2>1. /\ attempt[a].pc = "dialing"
        /\ attempt' = [attempt EXCEPT ![a].pc = "dialed"]
        /\ open' = open \cup {a}
        /\ UNCHANGED <<generation, ib>>
    BY <1>8 DEF DialOpens
  <2>2. attempt'[a].pc = "dialed"
    BY <1>0, <2>1 DEF AttemptStates
  <2>3. QED  BY <1>0, <2>1, <2>2
<1>9. ASSUME NEW a \in Attempts, AttemptConnects(a) PROVE Settle
  <2>1. /\ attempt' = [attempt EXCEPT ![a] = IdleAttempt]
        /\ attempt[a].pc = "dialed" /\ ib = a /\ a \in open
        /\ UNCHANGED sessionVars
    BY <1>9 DEF AttemptConnects, SetupComplete, Resolve
  <2>2. QED  BY <1>0, <2>1 DEF sessionVars, IdleAttempt
<1>10. ASSUME NEW a \in Attempts, AttemptFails(a) PROVE Same \/ Withdraw
  <2>1. /\ attempt' = [attempt EXCEPT ![a] = IdleAttempt]
        /\ ib' = IF ib = a THEN NoAttempt ELSE ib
        /\ open' = open \ {a}
        /\ attempt[a].pc # "idle"
        /\ UNCHANGED generation
    BY <1>10 DEF AttemptFails, Resolve, Dispose
  <2>2. CASE ib = a
    BY <1>0, <2>1, <2>2
  <2>3. CASE ib # a
    BY <1>0, <2>1, <2>3
  <2>4. QED  BY <2>2, <2>3
<1>11. ASSUME NEW a \in Attempts, SocketDrops(a) PROVE Same \/ Withdraw \/ End
  <2>1. /\ a \in open /\ open' = open \ {a} /\ UNCHANGED <<ib, attempt>>
        /\ \/ UNCHANGED generation /\ (a # ib \/ shuttingDown \/ ~enabled \/ ConnectBusy)
           \/ generation' = generation + 1 /\ a = ib
    BY <1>11 DEF SocketDrops, attemptVars
  <2>2. CASE UNCHANGED generation /\ a # ib
    BY <1>0, <2>1, <2>2
  <2>3. CASE UNCHANGED generation /\ a = ib /\ (shuttingDown \/ ~enabled \/ ConnectBusy)
    <3>1. ~Over
      BY <1>0, <2>1, <2>3 DEF SessionInv, StoppedHasNoClient, SettledSession,
                              CurrentClient, ConnectBusy
    <3>2. QED  BY <1>0, <2>1, <2>3, <3>1
  <2>4. CASE generation' = generation + 1 /\ a = ib
    BY <2>1, <2>4
  <2>5. QED  BY <2>1, <2>2, <2>3, <2>4
<1>12. SessionStep
  BY NextSteps
<1>13. QED
  BY <1>3, <1>4, <1>5, <1>6, <1>7, <1>8, <1>9, <1>10, <1>11, <1>12
     DEF SessionStep, Attempting

\* capture_session and require_session can be relied upon: once its setup is
\* complete, a client is never replaced, disposed of or lost under an unchanged
\* generation.
THEOREM ImplementsSession == Spec => SessionsKeepTheirClient
<1>1. SessionInv /\ SessionInv' /\ [Next]_vars
          => [Session!Next]_<<generation, SessionClient, Settled>>
  BY StepRefines
<1>2. QED
  BY <1>1, InitRefines, SessionInvariant, PTL
     DEF Spec, SessionsKeepTheirClient, Session!Spec

-----------------------------------------------------------------------------
(***************************************************************************)
(* The inductive invariant of the reconnect loops: a loop that was created *)
(* and has not started, or that works for the present generation, is the   *)
(* one in _reconnect_task.                                                 *)
(***************************************************************************)

FreshFrames ==
    \A q \in Procs : frame[q].pc \in {"idle", "created"}
                        => frame[q] = [IdleFrame EXCEPT !.pc = frame[q].pc]

LoopGens == \A r \in Reconnectors : frame[r].gen <= generation

LoopOwned ==
    \A r \in Reconnectors :
        \/ frame[r].pc = "created"
        \/ frame[r].pc # "idle" /\ frame[r].gen = generation
        => reconnectTask = r

LoopInv == TypeOK /\ FreshFrames /\ LoopGens /\ LoopOwned

\* What a step of any coroutine does to the frame of q, f being the new one:
\* a loop takes up a generation only while it is the one in _reconnect_task.
MovesTo(q, f) ==
    \/ f = frame[q]
    \/ f = IdleFrame
    \/ /\ f.pc \notin {"idle", "created"}
       /\ q \in Reconnectors =>
            /\ frame[q].pc # "idle"
            /\ f.gen = frame[q].gen \/ (f.gen = generation /\ reconnectTask = q)

Moves(fs) == \A q \in Procs : MovesTo(q, fs[q])

LoopsMove == UNCHANGED <<generation, reconnectTask>> /\ Moves(frame')

LoopsStop ==
    /\ generation' = generation + 1
    /\ reconnectTask' = NoProc
    /\ Moves(frame')
    /\ \A r \in Reconnectors : frame'[r].pc # "created"

LoopStarts(r) ==
    /\ UNCHANGED generation /\ reconnectTask' = r /\ ~ReconnectBusy
    /\ frame'[r] = [IdleFrame EXCEPT !.pc = "created"]
    /\ \A q \in Procs \ {r} : MovesTo(q, frame'[q])

SocketLost(r) ==
    /\ generation' = generation + 1 /\ reconnectTask' = r /\ ~ReconnectBusy
    /\ frame' = [frame EXCEPT ![r] = [IdleFrame EXCEPT !.pc = "created"]]

LoopStep ==
    \/ LoopsMove \/ LoopsStop
    \/ \E r \in Reconnectors : LoopStarts(r) \/ SocketLost(r)
    \/ generation' = generation + 1 /\ UNCHANGED <<reconnectTask, frame>>

LEMMA OneMoves ==
    ASSUME LoopInv, NEW p \in Procs, NEW f, MovesTo(p, f)
    PROVE  Moves([frame EXCEPT ![p] = f])
BY DEF LoopInv, TypeOK, Moves, MovesTo

LEMMA EnterConnectMoves ==
    ASSUME LoopInv, NEW p \in Users \cup Reconnectors, NEW h, EnterConnect(p, h),
           p \in Reconnectors => reconnectTask = p /\ frame[p].pc # "idle"
    PROVE  LoopsMove
<1>0. /\ UNCHANGED <<generation, reconnectTask>>
      /\ frame \in [Procs -> Frames] /\ p \in Procs
      /\ Watcher \in Procs /\ Watcher \notin Reconnectors
  BY FrameTypes DEF EnterConnect, sessionVars, LoopInv, TypeOK
<1>1. CASE \E c \in {"wait", "io"} :
             frame' = [frame EXCEPT
                ![p] = [IdleFrame EXCEPT !.pc = "control1",
                            !.gen = generation, !.controlGen = generation,
                            !.control = c],
                ![Watcher] = WatcherOn]
  <2>1. PICK c \in {"wait", "io"} :
             frame' = [frame EXCEPT
                ![p] = [IdleFrame EXCEPT !.pc = "control1",
                            !.gen = generation, !.controlGen = generation,
                            !.control = c],
                ![Watcher] = WatcherOn]
    BY <1>1
  <2> DEFINE f == [IdleFrame EXCEPT !.pc = "control1", !.gen = generation,
                       !.controlGen = generation, !.control = c]
  <2>2. MovesTo(p, f)
    BY DEF MovesTo, IdleFrame
  <2>3. MovesTo(Watcher, WatcherOn)
    BY <1>0 DEF MovesTo, WatcherOn, IdleFrame
  <2> HIDE DEF f
  <2>4. frame' = [frame EXCEPT ![p] = f, ![Watcher] = WatcherOn]
    BY <2>1 DEF f
  <2>5. Moves(frame')
    BY <1>0, <2>2, <2>3, <2>4 DEF Moves, MovesTo
  <2>6. QED  BY <1>0, <2>5 DEF LoopsMove
<1>2. CASE frame' = [frame EXCEPT ![p] = IdleFrame]
  BY <1>0, <1>2, OneMoves DEF LoopsMove, MovesTo
<1>3. CASE \E a \in JoinableAttempts : frame' = [frame EXCEPT ![p] = Awaiting(a)]
  <2>1. PICK a \in JoinableAttempts : frame' = [frame EXCEPT ![p] = Awaiting(a)]
    BY <1>3
  <2>2. MovesTo(p, Awaiting(a))
    BY DEF MovesTo, Awaiting, IdleFrame
  <2>3. QED  BY <1>0, <2>1, <2>2, OneMoves DEF LoopsMove
<1>4. QED  BY <1>1, <1>2, <1>3, AtControlTypes DEF EnterConnect

LEMMA LeaveMoves ==
    ASSUME LoopInv, NEW p \in Procs, Leave(p)
    PROVE  LoopsMove
BY OneMoves DEF Leave, LoopsMove, MovesTo, sessionVars

LEMMA LockThenConnectMoves ==
    ASSUME LoopInv, NEW p \in Users \cup Reconnectors, NEW g,
           LockThenConnect(p, g),
           p \in Reconnectors => /\ reconnectTask = p /\ frame[p].pc # "idle"
                                 /\ g = generation
    PROVE  LoopsMove
<1>1. CASE ReconnectLockFree
  BY <1>1, EnterConnectMoves DEF LockThenConnect
<1>2. CASE ~ReconnectLockFree
  <2>1. MovesTo(p, [IdleFrame EXCEPT !.pc = "lock", !.gen = g])
    BY DEF MovesTo, IdleFrame
  <2>2. QED
    BY <1>2, <2>1, OneMoves, FrameTypes
       DEF LockThenConnect, LoopsMove, sessionVars, reconnectVars
<1>3. QED  BY <1>1, <1>2

LEMMA StopMoves ==
    ASSUME LoopInv, NEW p \in Procs, NEW fs \in [Procs -> Frames],
           NEW closing \in SUBSET Procs, Stop(p, fs, closing),
           Moves(fs), fs[p].pc # "created"
    PROVE  LoopsStop
<1>1. /\ generation' = generation + 1 /\ reconnectTask' = NoProc
      /\ frame' = [q \in Procs |-> IF q \in ({reconnectTask} \cup closing) \ {p}
                                   THEN IdleFrame ELSE fs[q]]
  BY DEF Stop
<1>2. Moves(frame')
  BY <1>1 DEF Moves, MovesTo
<1>3. ASSUME NEW r \in Reconnectors PROVE frame'[r].pc # "created"
  <2>1. r \in Procs /\ IdleFrame.pc # "created"
    BY FrameTypes DEF IdleFrame
  <2>2. fs[r].pc = "created" => frame[r].pc = "created"
    BY <2>1 DEF Moves, MovesTo
  <2>3. QED  BY <1>1, <2>1, <2>2 DEF LoopInv, LoopOwned
<1>4. QED  BY <1>1, <1>2, <1>3 DEF LoopsStop

LEMMA SwitchOffMoves ==
    ASSUME LoopInv, NEW p \in Procs, NEW fs \in [Procs -> Frames],
           SwitchOff(p, fs), Moves(fs), fs[p].pc # "created"
    PROVE  LoopsStop \/ LoopsMove
<1>1. CASE Stop(p, fs, {})
  <2>1. {} \in SUBSET Procs
    OBVIOUS
  <2>2. LoopsStop
    BY <1>1, <2>1, StopMoves
  <2>3. QED  BY <2>2
<1>2. CASE KeepSession(p, fs)
  BY <1>2 DEF KeepSession, LoopsMove, sessionVars
<1>3. QED  BY <1>1, <1>2 DEF SwitchOff

LEMMA SwitchOnMoves ==
    ASSUME LoopInv, NEW fs \in [Procs -> Frames], SwitchOn(fs), Moves(fs),
           UNCHANGED generation
    PROVE  LoopStep
<1>1. CASE frame' = fs /\ UNCHANGED reconnectTask
  BY <1>1 DEF LoopStep, LoopsMove
<1>2. CASE ~ReconnectBusy /\ StartReconnector(fs)
  <2>1. PICK r \in Reconnectors :
            /\ frame' = [fs EXCEPT ![r] = [IdleFrame EXCEPT !.pc = "created"]]
            /\ reconnectTask' = r
    BY <1>2 DEF StartReconnector
  <2>2. LoopStarts(r)
    BY <1>2, <2>1, FrameTypes DEF LoopStarts, Moves
  <2>3. QED  BY <2>2 DEF LoopStep
<1>3. QED  BY <1>1, <1>2 DEF SwitchOn, StartReconnector

LEMMA AfterRefreshMoves ==
    ASSUME LoopInv, NEW p \in Procs, NEW g, NEW gone
    PROVE  /\ MovesTo(p, AfterRefresh(p, g, gone))
           /\ AfterRefresh(p, g, gone).pc # "created"
<1>1. CASE p = Watcher
  BY <1>1, FrameTypes DEF AfterRefresh, MovesTo, IdleFrame
<1>2. CASE p # Watcher /\ frame[p].pc = "control1"
  <2>1. frame[p] \in Frames
    BY DEF LoopInv, TypeOK
  <2>2. AfterRefresh(p, g, gone).pc = "control2"
        /\ AfterRefresh(p, g, gone).gen = frame[p].gen
    BY <1>2, <2>1 DEF AfterRefresh, Frames
  <2>3. QED  BY <1>2, <2>2 DEF MovesTo
<1>3. CASE p # Watcher /\ frame[p].pc # "control1"
  BY <1>3 DEF AfterRefresh, MovesTo, IdleFrame
<1>4. QED  BY <1>1, <1>2, <1>3

LEMMA ResolveMoves ==
    ASSUME LoopInv, NEW a \in Attempts, NEW o \in {"joined", "refused"},
           Resolve(a, o), UNCHANGED <<generation, reconnectTask>>
    PROVE  LoopsMove
<1>1. ASSUME NEW q \in Procs PROVE MovesTo(q, frame'[q])
  <2>1. frame[q] \in Frames
    BY DEF LoopInv, TypeOK
  <2>2. CASE frame[q].joined = a
    <3>1. frame[q].pc \notin {"idle", "created"}
      BY <2>2, ValuesAssumption DEF LoopInv, FreshFrames, IdleFrame
    <3>2. frame'[q].pc = o /\ frame'[q].gen = frame[q].gen
      BY <2>1, <2>2 DEF Resolve, Frames
    <3>3. QED  BY <3>1, <3>2 DEF MovesTo
  <2>3. CASE frame[q].joined # a
    BY <2>3 DEF Resolve, MovesTo
  <2>4. QED  BY <2>2, <2>3
<1>2. QED  BY <1>1 DEF LoopsMove, Moves

LEMMA UserLoops ==
    ASSUME LoopInv, NEW u \in Users,
           \/ UserConnects(u) \/ UserEnsures(u) \/ UserLocks(u)
           \/ UserReturns(u) \/ UserCancelled(u) \/ UserDisconnects(u)
    PROVE  LoopStep
<1>0. u \in Procs /\ u \in Users \cup Reconnectors /\ u \notin Reconnectors
  BY FrameTypes, ProcsAssumption
<1>1. CASE UserConnects(u) \/ UserEnsures(u) \/ UserLocks(u)
  BY <1>0, <1>1, EnterConnectMoves, LockThenConnectMoves, LeaveMoves
     DEF UserConnects, UserEnsures, UserLocks, Quit, LoopStep
<1>2. CASE UserReturns(u) \/ UserCancelled(u)
  BY <1>0, <1>2, LeaveMoves DEF UserReturns, UserCancelled, Quit, LoopStep
<1>3. CASE UserDisconnects(u)
  <2>1. /\ Stop(u, frame, {Watcher}) /\ {Watcher} \in SUBSET Procs
        /\ frame[u].pc # "created"
    BY <1>3, FrameTypes DEF UserDisconnects
  <2>2. Moves(frame) /\ frame \in [Procs -> Frames]
    BY DEF Moves, MovesTo, LoopInv, TypeOK
  <2>3. LoopsStop
    BY <1>0, <2>1, <2>2, StopMoves
  <2>4. QED  BY <2>3 DEF LoopStep
<1>4. QED  BY <1>1, <1>2, <1>3

LEMMA ReconnectorLoops ==
    ASSUME LoopInv, NEW r \in Reconnectors,
           \/ ReconnectorStarts(r) \/ ReconnectorWakes(r) \/ ReconnectorLocks(r)
           \/ ReconnectorReturns(r) \/ ReconnectorFails(r)
    PROVE  LoopStep
<1>0. r \in Procs /\ r \in Users \cup Reconnectors
  BY FrameTypes
<1>1. ASSUME Quit(r) PROVE LoopStep
  BY <1>0, <1>1, LeaveMoves DEF Quit, LoopStep
<1>2. CASE ReconnectorStarts(r) \/ ReconnectorWakes(r)
  <2>1. PICK g : /\ LoopHead(r, g)
                 /\ \/ frame[r].pc = "created" /\ g = generation
                    \/ frame[r].pc = "sleep" /\ g = frame[r].gen
    BY <1>2 DEF ReconnectorStarts, ReconnectorWakes
  <2>2. CASE GenerationValid(g) /\ LockThenConnect(r, g)
    <3>1. g = generation /\ reconnectTask = r /\ frame[r].pc # "idle"
      BY <2>1, <2>2 DEF GenerationValid, LoopInv, LoopOwned
    <3>2. QED  BY <1>0, <2>2, <3>1, LockThenConnectMoves DEF LoopStep
  <2>3. QED  BY <1>1, <2>1, <2>2 DEF LoopHead
<1>3. CASE ReconnectorLocks(r)
  <2>1. CASE GenerationValid(frame[r].gen) /\ EnterConnect(r, r)
    <3>1. reconnectTask = r /\ frame[r].pc # "idle"
      BY <1>3, <2>1 DEF ReconnectorLocks, GenerationValid, LoopInv, LoopOwned
    <3>2. QED  BY <1>0, <2>1, <3>1, EnterConnectMoves DEF LoopStep
  <2>2. QED  BY <1>1, <1>3, <2>1 DEF ReconnectorLocks
<1>4. CASE ReconnectorReturns(r)
  BY <1>1, <1>4 DEF ReconnectorReturns
<1>5. CASE ReconnectorFails(r)
  <2>1. CASE /\ frame' = [frame EXCEPT ![r].pc = "sleep"]
             /\ UNCHANGED <<sessionVars, reconnectTask>>
    <3>1. frame[r] \in Frames /\ frame[r].pc = "refused"
      BY <1>0, <1>5 DEF ReconnectorFails, LoopInv, TypeOK
    <3>2. MovesTo(r, [frame[r] EXCEPT !.pc = "sleep"])
      BY <3>1 DEF MovesTo, Frames
    <3>3. frame' = [frame EXCEPT ![r] = [frame[r] EXCEPT !.pc = "sleep"]]
      BY <2>1
    <3>4. LoopsMove
      BY <1>0, <2>1, <3>2, <3>3, OneMoves DEF LoopsMove, sessionVars
    <3>5. QED  BY <3>4 DEF LoopStep
  <2>2. QED  BY <1>1, <1>5, <2>1 DEF ReconnectorFails
<1>6. QED  BY <1>2, <1>3, <1>4, <1>5

LEMMA ControlLoops ==
    ASSUME LoopInv, NEW p \in Procs,
           \/ ControlGranted(p) \/ RefreshEnables(p)
           \/ RefreshDisables(p) \/ RefreshDropped(p)
    PROVE  LoopStep
<1>0. frame \in [Procs -> Frames] /\ frame[p] \in Frames /\ generation \in Nat
  BY DEF LoopInv, TypeOK
<1>1. CASE ControlGranted(p)
  <2>1. frame[p].pc \notin {"idle", "created"}
    BY <1>1 DEF ControlGranted, LoopInv, FreshFrames, IdleFrame
  <2>2. MovesTo(p, [frame[p] EXCEPT !.control = "io"])
    BY <1>0, <2>1 DEF MovesTo, Frames
  <2>3. frame' = [frame EXCEPT ![p] = [frame[p] EXCEPT !.control = "io"]]
    BY <1>1 DEF ControlGranted
  <2>4. Moves(frame')
    BY <2>2, <2>3, OneMoves
  <2>5. QED
    BY <1>1, <2>4 DEF ControlGranted, LoopStep, LoopsMove, sessionVars,
                      reconnectVars
<1>2. CASE RefreshEnables(p)
  <2>0. UNCHANGED generation
    BY <1>2 DEF RefreshEnables, sessionVars
  <2>1. ASSUME NEW a \in JoinableAttempts, Admitted(p), Join(a),
               SwitchOn([frame EXCEPT ![p] = Awaiting(a)])
        PROVE  LoopStep
    <3>1. MovesTo(p, Awaiting(a))
      BY <2>1 DEF Admitted, Awaiting, MovesTo, IdleFrame
    <3>2. Awaiting(a) \in Frames
      BY <2>1, JoinTypes DEF LoopInv
    <3>3. /\ Moves([frame EXCEPT ![p] = Awaiting(a)])
          /\ [frame EXCEPT ![p] = Awaiting(a)] \in [Procs -> Frames]
      BY <1>0, <3>1, <3>2, OneMoves
    <3>4. QED  BY <2>0, <2>1, <3>3, SwitchOnMoves
  <2>2. ASSUME SwitchOn([frame EXCEPT ![p] = AfterRefresh(p, generation, {})])
        PROVE  LoopStep
    <3>1. AfterRefresh(p, generation, {}) \in Frames
      BY <1>0, AfterRefreshTypes DEF LoopInv
    <3>2. /\ Moves([frame EXCEPT ![p] = AfterRefresh(p, generation, {})])
          /\ [frame EXCEPT ![p] = AfterRefresh(p, generation, {})]
                \in [Procs -> Frames]
      BY <1>0, <3>1, AfterRefreshMoves, OneMoves
    <3>3. QED  BY <2>0, <2>2, <3>2, SwitchOnMoves
  <2>3. QED  BY <1>2, <2>1, <2>2 DEF RefreshEnables
<1>3. CASE RefreshDisables(p)
  <2> DEFINE g == IF enabled \/ ib # NoAttempt \/ ConnectBusy
                  THEN generation + 1 ELSE generation
             f == AfterRefresh(p, g, {reconnectTask})
  <2>1. SwitchOff(p, [frame EXCEPT ![p] = f])
    BY <1>3 DEF RefreshDisables
  <2>2. g \in Nat
    BY <1>0
  <2> HIDE DEF g
  <2>3. f \in Frames /\ MovesTo(p, f) /\ f.pc # "created"
    BY <2>2, AfterRefreshTypes, AfterRefreshMoves DEF LoopInv
  <2> HIDE DEF f
  <2>4. /\ Moves([frame EXCEPT ![p] = f])
        /\ [frame EXCEPT ![p] = f] \in [Procs -> Frames]
        /\ [frame EXCEPT ![p] = f][p].pc # "created"
    BY <1>0, <2>3, OneMoves
  <2>5. QED  BY <2>1, <2>4, SwitchOffMoves DEF LoopStep
<1>4. CASE RefreshDropped(p)
  <2>1. \/ frame' = [frame EXCEPT ![p] = IdleFrame]
        \/ frame' = [frame EXCEPT ![p] = AfterRefresh(p, generation, {})]
    BY <1>4 DEF RefreshDropped
  <2>2. MovesTo(p, IdleFrame)
    BY DEF MovesTo
  <2>3. Moves(frame')
    BY <2>1, <2>2, AfterRefreshMoves, OneMoves
  <2>4. QED
    BY <1>4, <2>3 DEF RefreshDropped, LoopStep, LoopsMove, sessionVars
<1>5. QED  BY <1>1, <1>2, <1>3, <1>4

LEMMA WriterLoops ==
    ASSUME LoopInv, NEW w \in Writers,
           \/ \E on \in BOOLEAN : WriteStarts(w, on)
           \/ WriteStored(w) \/ WriteFails(w) \/ WriteCancelled(w)
    PROVE  LoopStep
<1> DEFINE fs == [frame EXCEPT ![w] = IdleFrame]
<1>0. /\ w \in Procs /\ w \notin Reconnectors
      /\ fs \in [Procs -> Frames] /\ Moves(fs)
      /\ fs[w].pc # "created"
  <2>1. w \in Procs /\ w \notin Reconnectors /\ IdleFrame \in Frames
    BY FrameTypes, ProcsAssumption
  <2>2. MovesTo(w, IdleFrame) /\ IdleFrame.pc # "created"
    BY DEF MovesTo, IdleFrame
  <2>3. QED  BY <2>1, <2>2, OneMoves DEF LoopInv, TypeOK
<1>1. ASSUME NEW on \in BOOLEAN, WriteStarts(w, on) PROVE LoopStep
  <2>1. MovesTo(w, [IdleFrame EXCEPT !.pc = "write", !.controlGen = generation,
                        !.control = AtControl(w, {})])
    BY <1>0 DEF MovesTo, IdleFrame
  <2>2. LoopsMove
    BY <1>0, <1>1, <2>1, OneMoves
       DEF WriteStarts, LoopsMove, sessionVars, reconnectVars
  <2>3. QED  BY <2>2 DEF LoopStep
<1>2. CASE WriteStored(w)
  <2>1. CASE frame' = fs /\ UNCHANGED <<sessionVars, reconnectVars>>
    BY <1>0, <2>1 DEF LoopStep, LoopsMove, sessionVars, reconnectVars
  <2>2. CASE SwitchOn(fs) /\ UNCHANGED sessionVars
    BY <1>0, <2>2, SwitchOnMoves DEF sessionVars
  <2>3. CASE SwitchOff(w, fs)
    BY <1>0, <2>3, SwitchOffMoves DEF LoopStep
  <2>4. QED  BY <1>2, <2>1, <2>2, <2>3 DEF WriteStored
<1>3. CASE WriteFails(w)
  BY <1>0, <1>3, SwitchOffMoves DEF WriteFails, LoopStep
<1>4. CASE WriteCancelled(w)
  BY <1>0, <1>4 DEF WriteCancelled, LoopStep, LoopsMove, sessionVars,
                    reconnectVars
<1>5. QED  BY <1>1, <1>2, <1>3, <1>4

LEMMA AttemptLoops ==
    ASSUME LoopInv, NEW a \in Attempts, Attempting(a)
    PROVE  LoopStep
<1>1. CASE AttemptDials(a) \/ DialOpens(a)
  BY <1>1 DEF AttemptDials, DialOpens, LoopStep, LoopsMove, Moves, MovesTo,
              reconnectVars
<1>2. CASE AttemptRefused(a) \/ AttemptConnects(a) \/ AttemptFails(a)
  BY <1>2, ResolveMoves
     DEF AttemptRefused, AttemptConnects, AttemptFails, LoopStep, sessionVars,
         reconnectVars
<1>3. CASE SocketDrops(a)
  <2>1. CASE UNCHANGED <<generation, frame, reconnectTask>>
    BY <2>1 DEF LoopStep, LoopsMove, Moves, MovesTo
  <2>2. CASE generation' = generation + 1 /\ StartReconnector(frame)
    BY <2>2 DEF StartReconnector, LoopStep, SocketLost
  <2>3. QED  BY <1>3, <2>1, <2>2 DEF SocketDrops
<1>4. QED  BY <1>1, <1>2, <1>3 DEF Attempting

LEMMA NextLoops == LoopInv /\ [Next]_vars => LoopStep
<1> SUFFICES ASSUME LoopInv, [Next]_vars PROVE LoopStep
  OBVIOUS
<1>1. CASE WatcherWakes
  <2>1. MovesTo(Watcher, [IdleFrame EXCEPT !.pc = "poll",
                              !.controlGen = generation,
                              !.control = AtControl(Watcher, {})])
    BY FrameTypes DEF MovesTo, IdleFrame
  <2>2. LoopsMove
    BY <1>1, <2>1, OneMoves, FrameTypes
       DEF WatcherWakes, LoopsMove, sessionVars, reconnectVars
  <2>3. QED  BY <2>2 DEF LoopStep
<1>2. CASE KeyChanges \/ UNCHANGED vars
  BY <1>2 DEF KeyChanges, vars, LoopStep, LoopsMove, Moves, MovesTo,
              sessionVars, reconnectVars
<1>3. QED
  BY <1>1, <1>2, UserLoops, ReconnectorLoops, ControlLoops, WriterLoops,
     AttemptLoops DEF Next, Attempting

LEMMA LoopStepKeeps ==
    ASSUME LoopInv, TypeOK', LoopStep
    PROVE  LoopInv'
<1>0. /\ generation \in Nat /\ frame \in [Procs -> Frames]
      /\ \A r \in Reconnectors : r \in Procs /\ frame[r].gen \in Nat
      /\ \A r \in Reconnectors : frame[r].gen <= generation
      /\ IdleFrame.gen = 0 /\ IdleFrame.pc = "idle"
      /\ NoProc \notin Reconnectors
  BY FrameTypes DEF LoopInv, TypeOK, LoopGens, Frames, IdleFrame
<1>1. ASSUME NEW q \in Procs, MovesTo(q, frame'[q]) PROVE
        /\ frame'[q].pc \in {"idle", "created"}
              => frame'[q] = [IdleFrame EXCEPT !.pc = frame'[q].pc]
        /\ q \in Reconnectors => frame'[q].gen <= generation
        /\ q \in Reconnectors /\ (\/ frame'[q].pc = "created"
                                  \/ frame'[q].pc # "idle"
                                        /\ frame'[q].gen = generation)
              => reconnectTask = q /\ frame[q].pc # "idle"
  <2>1. CASE frame'[q] = frame[q]
    BY <1>0, <2>1 DEF LoopInv, FreshFrames, LoopOwned
  <2>2. CASE frame'[q] = IdleFrame
    BY <1>0, <2>2 DEF IdleFrame
  <2>3. CASE /\ frame'[q].pc \notin {"idle", "created"}
             /\ q \in Reconnectors =>
                  /\ frame[q].pc # "idle"
                  /\ \/ frame'[q].gen = frame[q].gen
                     \/ frame'[q].gen = generation /\ reconnectTask = q
    BY <1>0, <2>3 DEF LoopInv, LoopOwned
  <2>4. QED  BY <1>1, <2>1, <2>2, <2>3 DEF MovesTo
<1>2. ASSUME NEW r \in Reconnectors,
             frame'[r] = [IdleFrame EXCEPT !.pc = "created"]
      PROVE  frame'[r].pc = "created" /\ frame'[r].gen = 0
  BY <1>2 DEF IdleFrame
<1>3. CASE LoopsMove
  BY <1>0, <1>1, <1>3
     DEF LoopsMove, Moves, LoopInv, FreshFrames, LoopGens, LoopOwned
<1>4. CASE LoopsStop
  <2>1. \A q \in Procs : MovesTo(q, frame'[q])
    BY <1>4 DEF LoopsStop, Moves
  <2>2. FreshFrames'
    BY <1>1, <2>1 DEF FreshFrames
  <2>3. ASSUME NEW r \in Reconnectors
        PROVE  frame'[r].gen <= generation /\ frame'[r].gen \in Nat
    <3>1. frame'[r] \in Frames
      BY <1>0 DEF TypeOK
    <3>2. QED  BY <1>0, <1>1, <2>1, <3>1 DEF Frames
  <2>4. LoopGens' /\ LoopOwned'
    BY <1>0, <1>4, <2>3 DEF LoopsStop, LoopGens, LoopOwned
  <2>5. QED  BY <2>2, <2>4 DEF LoopInv
<1>5. ASSUME NEW r \in Reconnectors, LoopStarts(r) PROVE LoopInv'
  <2>1. FreshFrames'
    BY <1>1, <1>2, <1>5 DEF LoopStarts, FreshFrames
  <2>2. LoopGens' /\ LoopOwned'
    <3>1. UNCHANGED generation /\ reconnectTask' = r
          /\ frame'[r].pc = "created" /\ frame'[r].gen = 0
      BY <1>2, <1>5 DEF LoopStarts
    <3>2. ASSUME NEW q \in Reconnectors, q # r
          PROVE  /\ frame'[q].gen <= generation
                 /\ frame'[q].pc # "created"
                 /\ frame'[q].pc = "idle" \/ frame'[q].gen # generation
      <4>1. q \in Procs /\ MovesTo(q, frame'[q])
        BY <1>0, <1>5, <3>2 DEF LoopStarts
      <4>2. ~(reconnectTask = q /\ frame[q].pc # "idle")
        BY <1>0, <1>5 DEF LoopStarts, ReconnectBusy
      <4>3. QED  BY <1>1, <4>1, <4>2
    <3>3. QED  BY <1>0, <3>1, <3>2 DEF LoopGens, LoopOwned
  <2>3. QED  BY <2>1, <2>2 DEF LoopInv
<1>6. ASSUME NEW r \in Reconnectors, SocketLost(r) PROVE LoopInv'
  <2>0. frame' = [frame EXCEPT ![r] = [IdleFrame EXCEPT !.pc = "created"]]
    BY <1>6 DEF SocketLost
  <2>1. frame'[r] = [IdleFrame EXCEPT !.pc = "created"]
    BY <1>0, <2>0
  <2>2. FreshFrames'
    BY <1>2, <2>0, <2>1 DEF LoopInv, FreshFrames
  <2>3. LoopGens' /\ LoopOwned'
    BY <1>0, <1>2, <1>6, <2>0, <2>1
       DEF SocketLost, LoopInv, LoopGens, LoopOwned, ReconnectBusy
  <2>4. QED  BY <2>2, <2>3 DEF LoopInv
<1>7. CASE generation' = generation + 1 /\ UNCHANGED <<reconnectTask, frame>>
  BY <1>0, <1>7 DEF LoopInv, FreshFrames, LoopGens, LoopOwned
<1>8. QED  BY <1>3, <1>4, <1>5, <1>6, <1>7 DEF LoopStep

LEMMA InitLoops == Init => LoopInv
BY InitTypes, FrameTypes
   DEF Init, LoopInv, FreshFrames, LoopGens, LoopOwned, IdleFrame

\* Loops of earlier sessions may still be winding down, but at most one works
\* for the present session.
THEOREM LoopsAreUnique == Spec => []OneLoopPerSession
<1>1. LoopInv /\ [Next]_vars => LoopInv'
  BY NextTypes, NextLoops, LoopStepKeeps DEF LoopInv
<1>2. LoopInv => OneLoopPerSession
  BY DEF LoopInv, LoopOwned, OneLoopPerSession
<1>3. QED  BY <1>1, <1>2, InitLoops, PTL DEF Spec

-----------------------------------------------------------------------------
\* A closed manager stays quiet until somebody connects it again.

QuietSame ==
    /\ UNCHANGED <<closed, shuttingDown, reconnectTask>>
    /\ frame'[Watcher] = frame[Watcher]

QuietAgain ==
    /\ shuttingDown' = TRUE /\ reconnectTask' = NoProc
    /\ frame'[Watcher] = IdleFrame

LEMMA SwitchOffQuiet ==
    ASSUME TypeOK, ClosedIsQuiescent, closed, NEW p \in Procs,
           NEW fs, fs[Watcher] = frame[Watcher],
           SwitchOff(p, fs), UNCHANGED closed
    PROVE  ClosedIsQuiescent'
<1>0. frame[Watcher] = IdleFrame /\ Watcher \in Procs
  BY FrameTypes DEF ClosedIsQuiescent
<1>1. CASE Stop(p, fs, {})
  <2>1. QuietAgain
    BY <1>0, <1>1 DEF Stop, QuietAgain
  <2>2. QED  BY <2>1 DEF QuietAgain, ClosedIsQuiescent
<1>2. CASE KeepSession(p, fs)
  BY <1>0, <1>2 DEF KeepSession, ClosedIsQuiescent
<1>3. QED  BY <1>1, <1>2 DEF SwitchOff

LEMMA ResolveQuiet ==
    ASSUME ClosedIsQuiescent, closed, NEW a \in Attempts, NEW o, Resolve(a, o)
    PROVE  frame'[Watcher] = frame[Watcher]
<1>1. /\ Watcher \in Procs /\ a # NoAttempt
      /\ frame[Watcher].joined = NoAttempt
  BY FrameTypes, ValuesAssumption DEF ClosedIsQuiescent, IdleFrame
<1>2. QED  BY <1>1 DEF Resolve

LEMMA NextQuiet == TypeOK /\ ClosedIsQuiescent /\ [Next]_vars => ClosedIsQuiescent'
<1> SUFFICES ASSUME TypeOK, ClosedIsQuiescent, [Next]_vars, closed, closed'
             PROVE  ClosedIsQuiescent'
  <2>1. ~closed' => ClosedIsQuiescent'
    BY DEF ClosedIsQuiescent
  <2>2. [Next]_vars /\ ~closed /\ closed'
            => \E u \in Users : UserDisconnects(u)
    BY DEF Next, vars, switchVars, UserConnects, UserEnsures, UserLocks,
           UserReturns, UserCancelled, LockThenConnect, EnterConnect, Quit,
           Leave, ReconnectorStarts, ReconnectorWakes, ReconnectorLocks,
           ReconnectorReturns, ReconnectorFails, LoopHead, WatcherWakes,
           ControlGranted, RefreshEnables, RefreshDisables, RefreshDropped,
           WriteStarts, WriteStored, WriteFails, WriteCancelled, KeyChanges, AttemptDials,
           AttemptRefused, DialOpens, AttemptConnects, AttemptFails, SocketDrops
  <2>3. ASSUME NEW u \in Users, UserDisconnects(u)
        PROVE  ClosedIsQuiescent'
    <3>1. Watcher \in Procs /\ Watcher # u
      BY FrameTypes, ProcsAssumption
    <3>2. QuietAgain
      BY <2>3, <3>1 DEF UserDisconnects, Stop, QuietAgain
    <3>3. QED  BY <3>2 DEF QuietAgain, ClosedIsQuiescent
  <2>4. QED  BY <2>1, <2>2, <2>3
<1>0. /\ frame \in [Procs -> Frames] /\ Watcher \in Procs
      /\ frame[Watcher] = IdleFrame /\ shuttingDown /\ reconnectTask = NoProc
      /\ \A p \in Users \cup Reconnectors \cup Writers : p # Watcher /\ p \in Procs
      /\ IdleFrame.control = "none" /\ IdleFrame.pc = "idle"
  BY FrameTypes, ProcsAssumption DEF TypeOK, ClosedIsQuiescent, IdleFrame
<1>1. ASSUME QuietSame PROVE ClosedIsQuiescent'
  BY <1>0, <1>1 DEF QuietSame, ClosedIsQuiescent
<1>2. ASSUME NEW p, NEW h, EnterConnect(p, h) PROVE FALSE
  BY <1>2 DEF EnterConnect
<1>3. ASSUME NEW p \in Users \cup Reconnectors, Leave(p) PROVE QuietSame
  BY <1>0, <1>3 DEF Leave, QuietSame, switchVars
<1>4. ASSUME NEW p \in Users \cup Reconnectors, NEW g, LockThenConnect(p, g)
      PROVE  QuietSame
  BY <1>0, <1>2, <1>4 DEF LockThenConnect, QuietSame, switchVars, reconnectVars
<1>5. ASSUME NEW u \in Users,
             \/ UserConnects(u) \/ UserEnsures(u) \/ UserLocks(u)
             \/ UserReturns(u) \/ UserCancelled(u)
      PROVE  QuietSame
  BY <1>2, <1>3, <1>4, <1>5
     DEF UserConnects, UserEnsures, UserLocks, UserReturns, UserCancelled, Quit
<1>6. ASSUME NEW u \in Users, UserDisconnects(u)
      PROVE  ClosedIsQuiescent'
  <2>1. QuietAgain
    BY <1>0, <1>6 DEF UserDisconnects, Stop, QuietAgain
  <2>2. QED  BY <2>1 DEF QuietAgain, ClosedIsQuiescent
<1>7. ASSUME NEW r \in Reconnectors,
             \/ ReconnectorStarts(r) \/ ReconnectorWakes(r)
             \/ ReconnectorLocks(r) \/ ReconnectorReturns(r)
             \/ ReconnectorFails(r)
      PROVE  QuietSame
  <2>1. CASE ReconnectorStarts(r) \/ ReconnectorWakes(r)
    BY <1>3, <1>4, <2>1 DEF ReconnectorStarts, ReconnectorWakes, LoopHead, Quit
  <2>2. CASE ReconnectorLocks(r) \/ ReconnectorReturns(r) \/ ReconnectorFails(r)
    BY <1>2, <1>3, <2>2
       DEF ReconnectorLocks, ReconnectorReturns, ReconnectorFails, Quit
  <2>3. QED  BY <1>7, <2>1, <2>2
<1>8. ASSUME NEW p \in Procs,
             \/ ControlGranted(p) \/ RefreshEnables(p)
             \/ RefreshDisables(p) \/ RefreshDropped(p)
      PROVE  QuietSame
  <2>1. p # Watcher
    BY <1>0, <1>8
       DEF ControlGranted, RefreshEnables, RefreshDisables, RefreshDropped,
           Refreshing
  <2>2. ControlGranted(p) \/ RefreshDropped(p)
    BY <1>8 DEF RefreshEnables, RefreshDisables, Moot
  <2>3. QED
    BY <1>0, <2>1, <2>2 DEF ControlGranted, RefreshDropped, QuietSame,
                            switchVars, reconnectVars
<1>9. ASSUME NEW w \in Writers,
             \/ \E on \in BOOLEAN : WriteStarts(w, on)
             \/ WriteStored(w) \/ WriteFails(w) \/ WriteCancelled(w)
      PROVE  ClosedIsQuiescent'
  <2>1. CASE \E on \in BOOLEAN : WriteStarts(w, on)
    BY <1>0, <1>1, <2>1 DEF WriteStarts, QuietSame, switchVars, reconnectVars
  <2>2. CASE WriteStored(w)
    BY <1>0, <1>1, <2>2 DEF WriteStored, Moot, QuietSame, reconnectVars
  <2>3. CASE WriteFails(w)
    BY <1>0, <2>3, SwitchOffQuiet DEF WriteFails
  <2>4. CASE WriteCancelled(w)
    BY <1>0, <1>1, <2>4 DEF WriteCancelled, QuietSame, switchVars, reconnectVars
  <2>5. QED  BY <1>9, <2>1, <2>2, <2>3, <2>4
<1>10. ASSUME WatcherWakes \/ KeyChanges \/ UNCHANGED vars
       PROVE  QuietSame
  BY <1>0, <1>10 DEF WatcherWakes, KeyChanges, vars, QuietSame, switchVars,
                     reconnectVars
<1>11. ASSUME NEW a \in Attempts, Attempting(a)
       PROVE  QuietSame
  <2>1. CASE AttemptDials(a) \/ DialOpens(a) \/ SocketDrops(a)
    BY <1>0, <2>1 DEF AttemptDials, DialOpens, SocketDrops, QuietSame,
                      switchVars, reconnectVars
  <2>2. CASE AttemptRefused(a) \/ AttemptConnects(a) \/ AttemptFails(a)
    BY <2>2, ResolveQuiet DEF AttemptRefused, AttemptConnects, AttemptFails,
                              QuietSame, switchVars, reconnectVars
  <2>3. QED  BY <1>11, <2>1, <2>2 DEF Attempting
<1>12. QED
  BY <1>1, <1>5, <1>6, <1>7, <1>8, <1>9, <1>10, <1>11 DEF Next, Attempting

\* After disconnect() no refresh, write, watcher or reconnect loop revives the
\* manager.
THEOREM ClosedStaysQuiet == Spec => []ClosedIsQuiescent
<1>1. Init => ClosedIsQuiescent
  BY DEF Init, ClosedIsQuiescent
<1>2. QED
  BY <1>1, InitTypes, NextTypes, NextQuiet, PTL DEF Spec
=============================================================================
