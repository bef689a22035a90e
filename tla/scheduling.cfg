SPECIFICATION SuiteSpec
CONSTANTS
    Workers = {w1, w2}
    Tokens = {t1, t2, t3, t4}
    NoToken = NoToken
    Attempts = 2
    Timeout = 2
    Backoff = 1
    LeaseTtl = 6
    MaxFaults = 2
    Names = {"a", "b"}
    Defs = {d1, d2}
    Barren = {d2}
    Tasks = {k1, k2, k3, k4}
    NoTask = NoTask
    JobEdits = 1
    JobFaults = 1
    MinutesPerHour = 2
    HoursPerDay = 3
    WeekLength = 3
    MonthLengths <- TwoMonths
    LongestMonth = 3
    Expressions <- CronExpressions
    Horizon = 31
    ShiftAt = 0
    ShiftBy = 0
    MaxRun = 2
    MaxUtc = 40
    Symbols = {s1, s2}
    KeyOf <- OwnKeys
    Kinds = {"ohlcv_snapshot", "market_snapshot", "equity_snapshot"}
    ApiMode = TRUE
    OpenAt = {0, 1, 3}
    Duration = 2
    MaxConcurrency = 1
    RetryCount = 1
    SnapshotFaults = 2
    SnapshotTime = 3
INVARIANTS
    TypesOK
    CoveredRunsAreExclusive
    LedgerTellsTheEnd
    OneTaskPerJob
    StoppedMeansQuiet
    RunsAtItsTimes
    NoMinuteSleptThrough
    CacheFollowsStore
PROPERTIES
    BookmarksPassFinalBars
CHECK_DEADLOCK FALSE
