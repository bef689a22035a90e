SPECIFICATION SuiteSpec
CONSTANTS
    Workers = {w1, w2}
    Tokens = {t1, t2, t3, t4}
    NoToken = NoToken
    Attempts = 2
    Timeout = 1
    Backoff = 1
    LeaseTtl = 2
    MaxFaults = 1
    Names = {"a"}
    Defs = {d1, d2}
    Barren = {d2}
    Tasks = {k1, k2}
    NoTask = NoTask
PROPERTY
    SchedulerKeepsOn
CHECK_DEADLOCK FALSE
