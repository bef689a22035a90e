SPECIFICATION SuiteSpec
CONSTANTS
    q1 = q1
    q2 = q2
    p1 = p1
    p2 = p2
    c1 = c1
    c2 = c2
    c3 = c3
    r1 = r1
    r2 = r2
    Requests = {q1, q2}
    Processes = {p1, p2}
    ProcessOf <- LineOwners
    MaxActive = 1
    Ttl = 2
    MaxMessages = 1
    Window = 2
    MaxSent = 2
    MaxErrors = 2
    MaxTime = 3
    Calls = {c1, c2, c3}
    Series = {"trades", "bidask"}
    ContractOf <- OneContract
    Weight <- TwiceBidAsk
    SeriesOf <- AskedSeries
    First = "redis"
    PacingWindow = 4
    WindowMax = 3
    Cooldown = 3
    Burst = 1
    BurstMax = 1
    LimitsPermits = 2
    LimitsCancelledAt = {"permit", "slot", "limiter", "flight"}
    LimitsTime = 5
    PoolPermits = 1
    PoolAttempts = 2
    PoolOutages = 1
    PoolTime = 2
    Tasks = {r1, r2}
    MethodsOf <- OptionMethods
    MaxLines = 2
    Rounds = 2
    FeedSessions = 2
    LastTime = 6
    Chunk = 2
    MaxChunks = 3
    Slack = 1
INVARIANT LeasesAreReleased
CHECK_DEADLOCK FALSE
