------------------------------ MODULE MCServing ------------------------------
(***************************************************************************)
(* What serves the clients, one TLC run for its parts: `part` names the    *)
(* one that runs, the others stay in their initial state.  The REST        *)
(* requests run once over every route, in one session, and once over the   *)
(* routes that guard what they cache, over two.                            *)
(***************************************************************************)
EXTENDS RestRequests

CONSTANTS
    r1, r2, r3, o1, o2,
    OrderCalls, Asked, Legs, NoCall, OrderSessions, MaxOutages,  \* of Orders
    Streams, QueueSize, MaxUpdates, StreamSessions,             \* of StreamingTickers
    Clients, ToolsOf, MaxStates, MaxCancels                     \* of McpServer

VARIABLES
    part,
    oUp, oSession, oRedis, oOutages, oKey, oEnvelope, oBroker, oCall,
    tUp, tSession, tSubscriptions, tActive, tStream,
    mDelayed, mCurrent, mState, mSess, mCancels

-----------------------------------------------------------------------------
\* RestRequests: any route beside the cache's control and the news, which
\* nest two loads; then what a cache_if guards, over two sessions.

AnyRoute ==
    r1 :> DOMAIN Routes
        @@ r2 :> {"clear_market_data_cache", "get_symbol_news", "get_news_providers"}
        @@ r3 :> {}
GuardedRoutes ==
    r1 :> {"get_equity_overview", "get_returns"}
        @@ r2 :> {"get_equity_overview", "get_market_panel"}
        @@ r3 :> {"clear_market_data_cache"}

OfferedRoutes == [r \in {r1, r2, r3} |-> AnyRoute[r] \cup GuardedRoutes[r]]

\* The requests are for these routes, and there are so many sessions.
Offered(routesOf, sessions) ==
    /\ session <= sessions
    /\ \A r \in Requests :
          req[r].pc = "idle" \/ (routesOf[r] # {} /\ req[r].of \in routesOf[r] \cup {""})

-----------------------------------------------------------------------------
\* Orders: two placements under one idempotency key, or any operation beside
\* a look at the open orders.

Order == INSTANCE Orders WITH
    Calls <- OrderCalls, MaxSessions <- OrderSessions,
    up <- oUp, session <- oSession, redis <- oRedis, outages <- oOutages, key <- oKey,
    envelope <- oEnvelope, broker <- oBroker, call <- oCall

Operations == INSTANCE Orders WITH
    Calls <- {}, Asked <- {}, MaxSessions <- OrderSessions,
    up <- oUp, session <- oSession, redis <- oRedis, outages <- oOutages, key <- oKey,
    envelope <- oEnvelope, broker <- oBroker, call <- oCall

OfferedOrders ==
    {o1 :> "place" @@ o2 :> "place"}
        \cup {o1 :> op @@ o2 :> "open" : op \in DOMAIN Operations!Op \ {"place"}}

-----------------------------------------------------------------------------
\* StreamingTickers: two streams, one of them ends sooner.

Ticker == INSTANCE StreamingTickers WITH
    MaxSessions <- StreamSessions,
    up <- tUp, session <- tSession, subscriptions <- tSubscriptions, active <- tActive,
    stream <- tStream

UpdatesOf == "s1" :> 2 @@ "s2" :> 1

-----------------------------------------------------------------------------
\* McpServer: any tool, beside a client with one tool and one with none.

Server == INSTANCE McpServer WITH
    Sessions <- Clients, delayed <- mDelayed, current <- mCurrent, state <- mState,
    sess <- mSess, cancels <- mCancels

AllTools == INSTANCE McpTools

ClientTools == "s1" :> DOMAIN AllTools!Tool @@ "s2" :> {"get_server_time"} @@ "s3" :> {}

ASSUME PartsAssumption ==
    /\ RestAssumption
    /\ Order!OrdersAssumption /\ Ticker!StreamAssumption /\ Server!McpAssumption

-----------------------------------------------------------------------------

orderVars == <<oUp, oSession, oRedis, oOutages, oKey, oEnvelope, oBroker, oCall>>
streamVars == <<tUp, tSession, tSubscriptions, tActive, tStream>>
mcpVars == <<mDelayed, mCurrent, mState, mSess, mCancels>>

SuiteInit ==
    /\ part \in {"routes", "guarded", "orders", "streams", "mcp"}
    /\ Init
    /\ Order!Init
    /\ part # "orders" => \A c \in OrderCalls : oCall[c].op = "place"
    /\ Ticker!Init
    /\ Server!Init
    /\ part # "mcp" => mDelayed

RoutesSuite ==
    /\ part = "routes" /\ Next /\ Offered(AnyRoute, 1)'
    /\ UNCHANGED <<part, orderVars, streamVars, mcpVars>>
GuardedSuite ==
    /\ part = "guarded" /\ Next /\ Offered(GuardedRoutes, MaxSessions)'
    /\ UNCHANGED <<part, orderVars, streamVars, mcpVars>>
OrdersSuite ==
    part = "orders" /\ Order!Next /\ UNCHANGED <<part, vars, streamVars, mcpVars>>
StreamsSuite ==
    part = "streams" /\ Ticker!Next /\ UNCHANGED <<part, vars, orderVars, mcpVars>>
McpSuite ==
    part = "mcp" /\ Server!Next /\ UNCHANGED <<part, vars, orderVars, streamVars>>

SuiteNext ==
    RoutesSuite \/ GuardedSuite \/ OrdersSuite \/ StreamsSuite \/ McpSuite

SuiteSpec ==
    SuiteInit /\ [][SuiteNext]_<<part, vars, orderVars, streamVars, mcpVars>>

-----------------------------------------------------------------------------

(* Every part keeps its types. *)
TypesOK ==
    /\ TypeOK
    /\ part = "orders" => Order!TypeOK
    /\ part = "streams" => Ticker!TypeOK
    /\ part = "mcp" => Server!TypeOK

(* Of the calls with one idempotency key at most one sends an order
   (Orders). *)
OneOrderPerKey == part = "orders" => Order!OneOrderPerKey

(* An operation after which the broker may have what the caller does not
   know of leaves a mark to reconcile by, and a preview leaves no order
   (Orders). *)
OrdersAreAccounted ==
    part = "orders" => Order!UncertainOrdersAreMarked /\ Order!PreviewsLeaveNoOrder

(* A stream that is over has given back its line, its registration and its
   helpers, and stops soon after it is told to (StreamingTickers). *)
StreamsEnd == part = "streams" => Ticker!StreamsCleanUp /\ Ticker!StopIsPrompt

(* A session's state is open while the session has it, and no two states use
   the client id of the MCP server at a time, as long as the last session
   leaves it an idle delay (McpServer). *)
StatesAreShared == part = "mcp" => Server!HeldStatesAreOpen /\ Server!OneClientId
=============================================================================
