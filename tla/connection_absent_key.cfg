SPECIFICATION FairSpec
CONSTANTS
    Users = {u1}
    Reconnectors = {r1}
    Writers = {}
    Attempts = {a1, a2}
    Redis = TRUE
    MaxEvents = 0
    Watcher = watcher
    NoAttempt = NoAttempt
    NoProc = NoProc
PROPERTY AbsentKeyPreservesEnabled
CHECK_DEADLOCK FALSE
