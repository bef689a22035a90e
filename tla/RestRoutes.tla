------------------------------ MODULE RestRoutes ------------------------------
(***************************************************************************)
(* The routes of the REST application (src/webapp/routers), each as the    *)
(* set of ways a request can take through its handler.  A way is the       *)
(* sequence of what the handler does:                                      *)
(*   "token"      compares the bearer token with the one Redis keeps       *)
(*   "enabled?"   refuses while the connection is switched off             *)
(*   "refuse?"    looks at the request or at an answer, and may refuse     *)
(*   "ask"        awaits the feed, Redis, the archive or the Web API       *)
(*   "each"       awaits several of them, and only notes those that fail   *)
(*   "get"        AsyncTTLCache.get_or_set; the steps up to                *)
(*   "put"        are its load, whose value is cached, or                  *)
(*   "keep"       is cached if the route's cache_if says so                *)
(*   "find" "store"  AsyncTTLCache.get and set, without the key's lock     *)
(*   "stats" "clear"  of the cache                                         *)
(* Fields, conversions, metrics and texts are left out.                    *)
(***************************************************************************)
EXTENDS Integers, Sequences, SequencesExt, TLC

One(steps) == {steps}
Cached(load) == {load, <<"get">> \o load \o <<"put">>}
Kept(load) == {load, <<"get">> \o load \o <<"keep">>}
After(first, ways) == {first \o way : way \in ways}

AskRoute == One(<<"ask">>)
CachedRoute == Cached(<<"ask">>)

-----------------------------------------------------------------------------
\* Orders and accounts.

Account ==
    [load_account_summary |-> AskRoute, load_live_positions |-> AskRoute,
     load_portfolio_items |-> AskRoute, load_account_pnl_snapshot |-> AskRoute,
     load_position_pnl_snapshot |-> AskRoute]
OrderRoutes ==
    [transaction_cost_analysis |-> One(<<"token", "refuse?", "ask">>),
     place_order |-> One(<<"token", "ask">>), cancel_order |-> One(<<"token", "ask">>),
     modify_order |-> One(<<"token", "ask">>), load_open_orders |-> One(<<"token", "ask">>),
     load_executions |-> One(<<"token", "ask">>), preview_order |-> One(<<"token", "ask">>),
     load_completed_orders |-> One(<<"token", "ask">>),
     get_cached_order |-> One(<<"token", "ask">>),
     list_cached_orders |-> One(<<"token", "ask">>)]
OrderGroups ==
    [place_bracket_order |-> One(<<"token", "ask">>),
     place_oca_group |-> One(<<"token", "ask">>),
     load_all_open_orders |-> One(<<"token", "ask">>)]
Research ==
    [capture |-> One(<<"refuse?", "ask">>), datasets |-> One(<<"refuse?", "ask">>),
     dataset |-> One(<<"refuse?", "ask", "refuse?">>),
     point_in_time |-> One(<<"refuse?", "ask">>), series_key |-> One(<<>>),
     append_reference |-> One(<<"token", "refuse?", "ask">>),
     references |-> One(<<"refuse?", "ask">>), repairs |-> One(<<"refuse?", "ask">>),
     repair |-> One(<<"token", "refuse?", "ask">>)]

-----------------------------------------------------------------------------
\* Bars, quotes and derivatives.

Ohlcv ==
    After(<<"refuse?">>,
          Cached(<<"ask">>) \cup {<<"ask", "ask">>, <<"find", "ask", "ask", "store">>})

EquityBars ==
    [load_ohlcv |-> Ohlcv, load_auto_ohlcv |-> Ohlcv, load_equity_ohlcv |-> Ohlcv,
     load_index_ohlcv |-> Ohlcv]
EquityReference ==
    [get_latest_bar |-> AskRoute, load_equity_shortability |-> AskRoute,
     load_equity_dividends |-> AskRoute]
FuturesBars ==
    [load_futures_ohlcv |-> Ohlcv, load_commodity_ohlcv |-> Ohlcv,
     load_commodity_option_ohlcv |-> Ohlcv]
Commodities ==
    [load_commodity_option_analytics |-> CachedRoute,
     load_commodity_metadata |-> Cached(<<"ask", "ask", "ask", "ask">>),
     load_commodity_historical_ticks |-> AskRoute]
CommodityNews ==
    [load_commodity_news |->
        Cached(<<"ask", "refuse?", "ask", "refuse?", "ask", "ask">>)]
ForeignExchange == [load_fx_ohlcv |-> Ohlcv, load_fx_option_ohlcv |-> Ohlcv]
Options == [load_option_analytics |-> CachedRoute, load_option_skew_surface |-> CachedRoute]
Depth == [load_auto_market_depth |-> CachedRoute]
Histogram == [request_histogram |-> AskRoute]
Bonds == [load_bond_ohlcv |-> Ohlcv, load_bond_yield_history |-> CachedRoute]
BondYields == [get_yield_data |-> After(<<"refuse?", "ask">>, {<<>>, <<"get", "put">>})]
Volatility ==
    [get_historical_volatility |-> One(<<"refuse?", "ask">>),
     get_option_iv_series |-> One(<<"refuse?", "ask">>)]
TradingSchedule == [get_trading_schedule |-> One(<<"refuse?", "ask">>)]
Ticks ==
    [subscribe_ticks |-> AskRoute, unsubscribe_ticks |-> AskRoute,
     get_latest_ticks |-> One(<<>>), load_historical_ticks |-> AskRoute,
     load_histogram_data |-> AskRoute, get_market_rule |-> AskRoute,
     get_smart_components |-> AskRoute, get_head_timestamp |-> AskRoute]
Calculations ==
    [calculate_iv |-> One(<<"ask", "ask">>), calculate_option_price |-> One(<<"ask", "ask">>),
     symbol_search |-> AskRoute]
Scanner ==
    [search_contracts |-> CachedRoute, scan_contracts |-> CachedRoute,
     get_index_composition |-> CachedRoute, get_scanner_parameters |-> AskRoute]
ReferenceData ==
    [load_option_chains |-> CachedRoute, load_fundamental_data |-> AskRoute,
     load_wsh_metadata |-> AskRoute, load_wsh_event_data |-> AskRoute,
     load_economic_calendar |-> CachedRoute, load_news_providers |-> AskRoute,
     load_historical_news |-> One(<<"ask", "refuse?", "ask">>),
     load_news_article |-> AskRoute]

-----------------------------------------------------------------------------
\* Snapshots and watchlists.

CaptureSnapshots == <<"refuse?", "ask", "each">>

Snapshots == [capture_snapshots |-> One(CaptureSnapshots)]
OptionSnapshots ==
    [capture_fx_option_snapshots |-> One(<<"refuse?", "ask", "ask">>)]
LatestSnapshots ==
    [get_latest_fx_option_snapshot |-> AskRoute,
     query_fx_option_snapshots |-> One(<<"refuse?">>),
     get_latest_snapshots |-> One(<<"refuse?", "ask">>),
     query_historical_snapshots |-> One(<<"refuse?">>),
     get_all_latest_snapshots |-> One(<<"refuse?">>)]
Watchlists ==
    [create_watchlist |-> AskRoute, list_watchlists |-> AskRoute,
     get_watchlist |-> One(<<"ask", "refuse?">>),
     capture_watchlist |-> One(<<"ask", "refuse?">> \o CaptureSnapshots),
     delete_watchlist |-> One(<<"ask", "refuse?", "ask", "ask">>)]

-----------------------------------------------------------------------------
\* The application itself.

ConnectionControl ==
    [get_ibkr_connection_control |-> One(<<"refuse?", "ask", "each", "refuse?">>),
     set_ibkr_connection_control |-> One(<<"refuse?", "ask", "each">>)]
Health ==
    [live |-> One(<<>>), version |-> One(<<>>), health |-> One(<<"each">>),
     readiness |-> One(<<"each", "each">>)]
CacheControl ==
    [market_data_cache_stats |-> One(<<"stats">>),
     clear_market_data_cache |-> One(<<"clear", "stats">>)]
Gateway ==
    [ibkr_rate_limits |-> AskRoute, scheduler_health |-> One(<<>>),
     set_market_data_type |-> AskRoute, get_server_time |-> AskRoute,
     get_depth_exchanges |-> AskRoute]
Capabilities == [get_capabilities |-> One(<<>>)]

-----------------------------------------------------------------------------
\* Business views.

EquityOverview ==
    [get_equity_overview |-> After(<<"enabled?">>, Kept(<<"ask", "refuse?", "each">>))]
Panels ==
    [get_market_panel |-> Kept(<<"each">>), get_market_panel_detailed |-> Kept(<<"each">>),
     get_universe_bars |-> Kept(<<"each">>) \cup Kept(<<"ask", "refuse?", "each">>),
     get_universe_bars_detailed |->
        Kept(<<"each">>) \cup Kept(<<"ask", "refuse?", "each">>),
     get_returns |-> Kept(<<"each">>)]
CommodityFutures == [get_commodity_futures |-> Cached(<<"each">>)]
OptionSkew == [get_option_skew |-> After(<<"refuse?">>, CachedRoute)]
BondCurve == [get_bond_curve |-> One(<<"refuse?">>)]
PortfolioRisk == [get_portfolio_risk_snapshot |-> Cached(<<"ask", "ask", "ask", "each">>)]
News ==
    [get_news_providers |-> CachedRoute, get_news_article |-> CachedRoute]

\* The providers come from get_news_providers, with its own cache entry.
NewsAfter(providers) ==
    providers \o <<"refuse?", "ask", "refuse?", "ask", "each">>
SymbolNews ==
    [get_symbol_news |->
        {NewsAfter(<<"ask">>),
         <<"get">> \o NewsAfter(<<"getProviders", "ask", "putProviders">>) \o <<"put">>}]

EventContracts ==
    [get_event_contract_categories |-> AskRoute, search_event_contracts |-> AskRoute,
     get_event_contract_strikes |-> AskRoute, get_event_contract_info |-> AskRoute,
     get_event_contract_snapshot |-> AskRoute, get_event_contract_history |-> AskRoute,
     build_event_contract_streaming_messages |-> One(<<>>),
     build_event_contract_order |-> One(<<"refuse?">>),
     place_event_contract_order |-> One(<<"token", "refuse?", "ask">>)]

-----------------------------------------------------------------------------
\* Fixed income.

FutureQuotes == <<"each", "refuse?">>
CheapestToDeliver == <<"ask", "refuse?", "ask", "refuse?">>
CurveFutures == 2                   \* bound: the futures of a curve
ImpliedCurve ==
    FlattenSeq([i \in 1..CurveFutures |-> CheapestToDeliver]) \o <<"refuse?">>

FixedIncomeQuotes ==
    [get_bond_future_quotes |-> Cached(FutureQuotes),
     get_ctd |-> After(<<"refuse?">>, Cached(CheapestToDeliver)),
     get_futures_implied_curve |-> After(<<"refuse?">>, Cached(ImpliedCurve))]
FixedIncomeCurves ==
    [get_bond_yield_curve |->
        Cached(<<"refuse?">>) \cup Cached(<<"refuse?">> \o ImpliedCurve),
     get_cash_bond_curve |-> One(<<"refuse?">>),
     get_curve_comparison |->
        After(<<"refuse?">>, Cached(<<"refuse?">> \o ImpliedCurve \o <<"refuse?">>)),
     get_fed_funds_futures_rate |-> Cached(<<"ask", "refuse?">>)]

-----------------------------------------------------------------------------

\* The answers of these are cached if their cache_if says so.
KeptRoutes ==
    [route \in DOMAIN EquityOverview \cup DOMAIN Panels |->
        IF route \in DOMAIN Panels THEN Panels[route] ELSE EquityOverview[route]]
OtherRoutes ==
    Account @@ OrderRoutes @@ OrderGroups @@ Research @@ EquityBars @@ EquityReference
    @@ FuturesBars @@ Commodities @@ CommodityNews @@ ForeignExchange @@ Options
    @@ Depth @@ Histogram @@ Bonds @@ BondYields @@ Volatility @@ TradingSchedule
    @@ Ticks @@ Calculations @@ Scanner @@ ReferenceData @@ Snapshots @@ OptionSnapshots
    @@ LatestSnapshots @@ Watchlists @@ ConnectionControl @@ Health @@ CacheControl
    @@ Gateway @@ Capabilities @@ CommodityFutures @@ OptionSkew @@ BondCurve
    @@ PortfolioRisk @@ News @@ SymbolNews @@ EventContracts @@ FixedIncomeQuotes
    @@ FixedIncomeCurves
Routes ==
    [route \in DOMAIN KeptRoutes \cup DOMAIN OtherRoutes |->
        IF route \in DOMAIN KeptRoutes THEN KeptRoutes[route] ELSE OtherRoutes[route]]

\* The namespace of a route's cache entries: its own, or that of the route it
\* calls.
Namespace(route) ==
    CASE route \in {"get_market_panel", "get_returns"} -> "get_market_panel_detailed"
      [] route = "get_universe_bars" -> "get_universe_bars_detailed"
      [] OTHER -> route
=============================================================================
