---------------------------- MODULE FeedMethods -----------------------------
(***************************************************************************)
(* The request methods of the feed clients (src/feeds/ibkr_*.py and        *)
(* equity_reference.py): what each awaits and in which order, and how it   *)
(* cleans up.  FeedRequests runs them.                                     *)
(***************************************************************************)
EXTENDS Naturals, Sequences

CONSTANT Rounds     \* contracts, symbols or pages of one request

\* The methods.  "session" is ensure_connected and capture_ibkr_session,
\* "check" is require_ibkr_session, "keep" the same before the ticker is
\* handed out; a step with a ? may be skipped.

Times(n, steps) == [i \in 1..(n * Len(steps)) |-> steps[1 + ((i - 1) % Len(steps))]]
Plain(steps) == [steps |-> steps, care |-> "none"]
OneCall == Plain(<<"connect", "call">>)
SessionCall == Plain(<<"session", "call", "check">>)

(* ibkr_historical.py and the facade: the second call asks for the details
   of a contract that could not be qualified *)
QualifyContract == Plain(<<"connect", "call", "call?">>)
LoadTradingSchedule == Plain(QualifyContract.steps \o <<"call">>)

(* ibkr_account_feed.py *)
LoadAccountSummary == SessionCall
LoadLivePositions == SessionCall
LoadPortfolioItems == Plain(<<"connect">>)
(* Mutant: the values are read without a look at the session. *)
LoadPnLSnapshotUnchecked ==
    [steps |-> <<"session", "slot", "check", "send", "wait">>, care |-> "bounded"]
LoadPnLSnapshot ==
    [steps |-> <<"session", "slot", "check", "send", "wait", "check">>,
     care |-> "bounded"]

(* ibkr_reference_feed.py *)
LoadBondYieldHistory ==
    Plain(QualifyContract.steps \o Times(Rounds, <<"permit", "call">>))
LoadWSHMetadata == SessionCall
LoadWSHEventData ==
    Plain(<<"session", "connect", "call?", "check", "call", "check">>)
LoadNewsProviders == OneCall
LoadHistoricalNews == OneCall
LoadNewsArticle == OneCall
SearchContracts == OneCall
ScanContracts == SearchContracts
RunMarketScanner == OneCall
SubscribeTicker ==
    [steps |-> <<"session", "line", "slot", "check", "send", "wait",
                 "keep">>,
     care |-> "ticker"]
CaptureEquitySnapshots ==
    [steps |-> <<"session">>
               \o Times(Rounds, <<"line", "slot", "check?", "send?">>)
               \o <<"wait", "keep">>,
     care |-> "retained"]

(* ibkr_marketdata_ext.py *)
LoadMarketDepthSnapshot ==
    [steps |-> QualifyContract.steps
               \o <<"session", "line", "slot", "check", "send", "wait",
                    "check">>,
     care |-> "depth"]
LoadHistoricalTicks ==
    Plain(<<"connect">> \o Times(Rounds, <<"permit", "call", "more">>))
LoadHistogramData == Plain(<<"connect", "permit", "call">>)
LoadMarketRule == OneCall
LoadSmartComponents == OneCall
LoadHeadTimestamp == Plain(<<"connect", "ask">>)
CalculateIV == OneCall
CalculateOptionPrice == OneCall
SearchMatchingSymbols == OneCall
RequestHistogram == OneCall
SubscribeRealtimeBars ==
    [steps |-> <<"session", "slot", "check", "send">>
               \o Times(Rounds, <<"check", "wait">>) \o <<"check">>,
     care |-> "sync"]
GetDepthExchanges == OneCall
SetMarketDataType == Plain(<<"session", "slot", "check">>)
GetScannerParameters == OneCall
ScanMarket == OneCall
GetNewsBulletins == Plain(<<"connect", "slot">>)

(* ibkr_options_feed.py *)
LoadOptionChains == Plain(<<"connect">> \o QualifyContract.steps \o <<"call">>)
OptionLine == <<"line", "slot", "send", "wait">>
LoadOptionAnalytics ==
    [steps |-> <<"connect", "call">> \o OptionLine, care |-> "late"]
CaptureFXOptionSnapshots ==
    [steps |-> <<"connect">> \o Times(Rounds, <<"call">> \o OptionLine \o <<"tidy">>),
     care |-> "late"]
LoadUnderlyingSnapshotPrice ==
    [steps |-> QualifyContract.steps \o OptionLine, care |-> "late"]
UnqualifiedOptionError ==
    Plain(<<"connect", "call">> \o Times(2, <<"ask", "more">>) \o <<"raise">>)

(* equity_reference.py *)
EquityReference ==
    [steps |-> <<"session">> \o QualifyContract.steps
               \o <<"check", "line", "slot", "check", "send", "wait", "tidy",
                    "check">>,
     care |-> "retained"]

(* ibkr_connection.py *)
GetServerTime == OneCall

Method ==
    [qualify_contract |-> QualifyContract,
     load_trading_schedule |-> LoadTradingSchedule,
     load_account_summary |-> LoadAccountSummary,
     load_live_positions |-> LoadLivePositions,
     load_portfolio_items |-> LoadPortfolioItems,
     load_pnl_snapshot |-> LoadPnLSnapshot,
     load_bond_yield_history |-> LoadBondYieldHistory,
     load_wsh_metadata |-> LoadWSHMetadata,
     load_wsh_event_data |-> LoadWSHEventData,
     load_news_providers |-> LoadNewsProviders,
     load_historical_news |-> LoadHistoricalNews,
     load_news_article |-> LoadNewsArticle,
     search_contracts |-> SearchContracts,
     scan_contracts |-> ScanContracts,
     run_market_scanner |-> RunMarketScanner,
     subscribe_ticker |-> SubscribeTicker,
     capture_equity_snapshots |-> CaptureEquitySnapshots,
     load_market_depth_snapshot |-> LoadMarketDepthSnapshot,
     load_historical_ticks |-> LoadHistoricalTicks,
     load_histogram_data |-> LoadHistogramData,
     load_market_rule |-> LoadMarketRule,
     load_smart_components |-> LoadSmartComponents,
     load_head_timestamp |-> LoadHeadTimestamp,
     calculate_iv |-> CalculateIV,
     calculate_option_price |-> CalculateOptionPrice,
     search_matching_symbols |-> SearchMatchingSymbols,
     request_histogram |-> RequestHistogram,
     subscribe_realtime_bars |-> SubscribeRealtimeBars,
     get_depth_exchanges |-> GetDepthExchanges,
     set_market_data_type |-> SetMarketDataType,
     get_scanner_parameters |-> GetScannerParameters,
     scan_market |-> ScanMarket,
     get_news_bulletins |-> GetNewsBulletins,
     load_option_chains |-> LoadOptionChains,
     load_option_analytics |-> LoadOptionAnalytics,
     capture_fx_option_snapshots |-> CaptureFXOptionSnapshots,
     load_underlying_snapshot_price |-> LoadUnderlyingSnapshotPrice,
     unqualified_option_error |-> UnqualifiedOptionError,
     equity_reference |-> EquityReference,
     get_server_time |-> GetServerTime]

=============================================================================
