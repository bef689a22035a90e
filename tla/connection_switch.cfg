SPECIFICATION Spec
CONSTANTS
    Users = {u1}
    Reconnectors = {r1, r2, r3}
    Writers = {w1}
    Attempts = {a1, a2, a3}
    Redis = TRUE
    MaxEvents = 3
    Watcher = watcher
    NoAttempt = NoAttempt
    NoProc = NoProc
SYMMETRY Symmetry
INVARIANTS
    TypeOK
    StoppedHasNoClient
    ClosedIsQuiescent
    NoOrphanSocket
    OneLoopPerSession
    OneAttemptPerSession
    DeadSocketEndsSession
PROPERTY SessionsKeepTheirClient
CHECK_DEADLOCK FALSE
