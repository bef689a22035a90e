------------------------------- MODULE McpTools -------------------------------
(***************************************************************************)
(* The tools of the MCP server (src/mcp_server.py), in its order, each as  *)
(* the sequence of what it does:                                           *)
(*   "redis?" "questdb?"  looks at a connection flag of the shared state   *)
(*   "client?"    looks whether the connection has a client                *)
(*   "refuse?"    may answer that the request is not permitted             *)
(*   "valid?"     builds or parses something, which may raise              *)
(*   "ask"        awaits the feed, Redis or the response cache             *)
(*   "store"      calls the QuestDB store, which a shared state has not    *)
(*   "resolve"    awaits a contract; without one the tool answers an error *)
(*   "leg"        the same for one leg; without one it skips to the next   *)
(*   "place"      placeOrder, no await                                     *)
(* caught says whether the tool answers an exception with an error, or     *)
(* lets it through to the client.  Fields and texts are left out.          *)
(***************************************************************************)
EXTENDS Sequences, SequencesExt, TLC

Caught(steps) == [steps |-> steps, caught |-> TRUE]
Uncaught(steps) == [steps |-> steps, caught |-> FALSE]

StoredBars ==
    [query_historical_ohlcv |-> Uncaught(<<"questdb?", "valid?", "store">>),
     query_latest_bars |-> Caught(<<"store">>)]
RawSql == [query_raw_sql |-> Caught(<<"refuse?", "store">>)]
RedisKeys ==
    [get_latest_bar_from_cache |-> Uncaught(<<"valid?", "ask">>),
     list_scheduler_jobs |-> Uncaught(<<"ask">>),
     get_redis_key |-> Uncaught(<<"refuse?", "ask">>)]
ChainsAndAccount ==
    [load_option_chains |-> Caught(<<"valid?", "ask">>),
     load_account_summary |-> Caught(<<"ask">>),
     load_live_positions |-> Caught(<<"ask">>)]
LiveHistory ==
    [load_historical_ohlcv_live |-> Uncaught(<<"valid?", "ask">>),
     search_contracts |-> Caught(<<"ask">>),
     load_fundamentals |-> Uncaught(<<"valid?", "ask">>)]
NewsAndSnapshots ==
    [load_news |-> Uncaught(<<"resolve", "valid?", "ask">>),
     query_equity_snapshots |-> Uncaught(<<"valid?", "store">>),
     query_fx_option_snapshots |-> Uncaught(<<"valid?", "store">>)]
Portfolio ==
    [load_portfolio_items |-> Caught(<<"ask">>),
     load_account_pnl |-> Caught(<<"ask">>),
     load_position_pnl |-> Caught(<<"ask">>),
     load_news_providers |-> Caught(<<"ask">>),
     load_news_article |-> Caught(<<"valid?", "ask">>)]
Calendars ==
    [load_wsh_metadata |-> Caught(<<"ask">>),
     load_wsh_event_data |-> Caught(<<"valid?", "ask">>),
     load_economic_calendar |-> Caught(<<"valid?", "ask">>)]
CachedSnapshots ==
    [get_latest_equity_snapshots |-> Caught(<<"redis?", "refuse?", "ask">>),
     get_latest_fx_option_snapshot |-> Caught(<<"redis?", "ask">>),
     get_all_latest_equity_snapshots |-> Caught(<<"questdb?", "store">>),
     list_snapshot_watchlists |-> Caught(<<"redis?", "ask">>),
     get_snapshot_watchlist |-> Caught(<<"redis?", "ask", "valid?">>)]
OptionsAndTicks ==
    [load_option_analytics |-> Caught(<<"valid?", "ask">>),
     load_option_skew_surface |-> Caught(<<"valid?", "ask">>),
     get_latest_ticks |-> Caught(<<"valid?">>)]
TicksAndVolatility ==
    [load_historical_ticks |-> Caught(<<"valid?", "ask">>),
     calculate_iv |-> Caught(<<"valid?", "ask", "ask">>)]
PriceAndHead ==
    [calculate_option_price |-> Caught(<<"valid?", "ask", "ask">>),
     get_head_timestamp |-> Caught(<<"valid?", "ask">>)]
Scans ==
    [scan_contracts |-> Caught(<<"valid?", "ask">>),
     get_index_composition |-> Caught(<<"valid?", "ask">>),
     load_bond_yield_history |-> Caught(<<"valid?", "ask">>)]
DepthAndHealth ==
    [get_market_depth |-> Caught(<<"valid?", "ask">>),
     get_ibkr_rate_limits |-> Caught(<<"ask">>),
     get_scheduler_health |-> Caught(<<>>),
     get_cache_stats |-> Caught(<<"ask">>)]
BarsAndGateway ==
    [request_histogram |-> Caught(<<"ask">>),
     subscribe_realtime_bars |-> Caught(<<"ask", "ask">>),
     get_depth_exchanges |-> Caught(<<"ask">>),
     set_market_data_type |-> Caught(<<"ask">>),
     get_gateway_capabilities |-> Uncaught(<<>>)]
EquityAndOrders ==
    [load_equity_shortability |-> Uncaught(<<"valid?", "ask">>),
     load_equity_dividends |-> Uncaught(<<"valid?", "ask">>),
     get_server_time |-> Caught(<<"ask">>),
     cancel_all_orders |-> Caught(<<"ask">>),
     get_all_open_orders |-> Caught(<<"ask">>),
     exercise_option |-> Caught(<<"ask">>)]
ChangedOrders ==
    [modify_order |-> Caught(<<"valid?", "ask">>),
     preview_order |-> Caught(<<"valid?", "ask">>)]
VolatilitySeries ==
    [get_historical_volatility |-> Caught(<<"valid?", "ask">>),
     get_option_implied_volatility_series |-> Caught(<<"valid?", "ask">>)]
YieldAndSchedule ==
    [get_yield_data |-> Caught(<<"valid?", "ask">>),
     get_trading_schedule |-> Caught(<<"valid?", "ask">>)]
BracketOrder ==
    [place_bracket_order |->
        Caught(<<"client?", "valid?", "resolve", "place", "place", "place">>)]
OcaGroup(legs) ==
    [place_oca_group |->
        Caught(<<"client?">>
               \o FlattenSeq([i \in 1..legs |-> <<"valid?", "leg", "place">>]))]
MarketScans ==
    [scan_market |-> Caught(<<"ask">>),
     get_scanner_parameters |-> Caught(<<"ask">>),
     get_news_bulletins |-> Caught(<<"ask">>)]

OcaLegs == 2                \* bound

Tool ==
    StoredBars @@ RawSql @@ RedisKeys @@ ChainsAndAccount @@ LiveHistory
    @@ NewsAndSnapshots @@ Portfolio @@ Calendars @@ CachedSnapshots
    @@ OptionsAndTicks @@ TicksAndVolatility @@ PriceAndHead @@ Scans
    @@ DepthAndHealth @@ BarsAndGateway @@ EquityAndOrders @@ ChangedOrders
    @@ VolatilitySeries @@ YieldAndSchedule @@ BracketOrder @@ OcaGroup(OcaLegs)
    @@ MarketScans
=============================================================================
