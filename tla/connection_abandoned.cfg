SPECIFICATION Spec
CONSTANTS
    Users = {u1}
    Reconnectors = {r1, r2}
    Writers = {}
    Attempts = {a1, a2}
    Redis = FALSE
    MaxEvents = 2
    Watcher = watcher
    NoAttempt = NoAttempt
    NoProc = NoProc
INVARIANT NeverAbandoned
CHECK_DEADLOCK FALSE
