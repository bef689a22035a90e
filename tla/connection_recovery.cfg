SPECIFICATION FairSpec
CONSTANTS
    Users = {u1}
    Reconnectors = {r1, r2}
    Writers = {}
    Attempts = {a1, a2}
    Redis = TRUE
    MaxEvents = 2
    Watcher = watcher
    NoAttempt = NoAttempt
    NoProc = NoProc
PROPERTIES
    Recovers
    SwitchDisconnects
CHECK_DEADLOCK FALSE
