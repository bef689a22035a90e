SPECIFICATION SuiteSpec
CONSTANTS
    r1 = r1
    r2 = r2
    r3 = r3
    o1 = o1
    o2 = o2
    OrderCalls = {o1, o2}
    Asked <- OfferedOrders
    Legs = 2
    NoCall = NoCall
    OrderSessions = 2
    MaxOutages = 1
    Streams = {"s1", "s2"}
    QueueSize = 2
    MaxUpdates <- UpdatesOf
    StreamSessions = 2
    Clients = {"s1", "s2", "s3"}
    ToolsOf <- ClientTools
    MaxStates = 2
    MaxCancels = 2
    Requests = {r1, r2, r3}
    RoutesOf <- OfferedRoutes
    MaxSessions = 2
    MaxClears = 1
INVARIANTS
    TypesOK
    OneOrderPerKey
    OrdersAreAccounted
    StreamsEnd
    StatesAreShared
    OneLoadPerKey
    KeptAnswersAreSound
CHECK_DEADLOCK FALSE
