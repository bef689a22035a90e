------------------------------ MODULE MCGateway ------------------------------
(***************************************************************************)
(* The traffic to the IBKR gateway, one TLC run for its parts: `part`      *)
(* names the one that runs, the others stay in an initial state of theirs. *)
(* The pacing guard runs with two sets of constants.                       *)
(***************************************************************************)
EXTENDS RateLimitController, FeedMethods, TLC

CONSTANTS
    q1, q2, p1, p2, c1, c2, c3, r1, r2,
    Calls, Series, ContractOf, Weight, SeriesOf, First,         \* of HistoricalPacing
    PacingWindow, WindowMax, Cooldown, Burst, BurstMax,
    LimitsPermits, LimitsCancelledAt, LimitsTime,
    PoolPermits, PoolAttempts, PoolOutages, PoolTime,
    Tasks, MethodsOf, MaxLines, FeedSessions,                   \* of FeedRequests
    LastTime, Chunk, MaxChunks, Slack                           \* of HistoricalRange

VARIABLES
    part,
    hNow, hPc, hGuard, hMode, hWake, hAttempt, hPermits, hTable, hSent, hOutages,
    fUp, fSession, fReq,
    gRequest, gTraded, gPhase, gChunkEnd, gChunks, gAllBars

-----------------------------------------------------------------------------
\* RateLimitController: two lines of one process; both processes send.

LineOwners == q1 :> p1 @@ q2 :> p1

-----------------------------------------------------------------------------
\* HistoricalPacing: two series of one contract, one of them BID_ASK.

OneContract == [s \in {"trades", "bidask"} |-> "contract"]
TwiceBidAsk == [s \in {"trades", "bidask"} |-> IF s = "bidask" THEN 2 ELSE 1]
AskedSeries == c1 :> "trades" @@ c2 :> "trades" @@ c3 :> "bidask"
AlikeCalls == Permutations({c1, c2})

\* The limits hold without a retry and with Redis up, wherever callers are
\* cancelled that do not return a permit of the local guard before they have
\* one; permits are conserved with retries and outages, if callers are
\* cancelled only once they have their slot.
Limits == INSTANCE HistoricalPacing WITH
    Permits <- LimitsPermits, Window <- PacingWindow, MaxAttempts <- 1,
    CancelledAt <- LimitsCancelledAt, MaxOutages <- 0, MaxTime <- LimitsTime,
    now <- hNow, pc <- hPc, guard <- hGuard, mode <- hMode, wake <- hWake,
    attempt <- hAttempt, permits <- hPermits, table <- hTable, sent <- hSent,
    outages <- hOutages

Pool == INSTANCE HistoricalPacing WITH
    Permits <- PoolPermits, Window <- PacingWindow, MaxAttempts <- PoolAttempts,
    CancelledAt <- {"limiter", "flight"}, MaxOutages <- PoolOutages, MaxTime <- PoolTime,
    now <- hNow, pc <- hPc, guard <- hGuard, mode <- hMode, wake <- hWake,
    attempt <- hAttempt, permits <- hPermits, table <- hTable, sent <- hSent,
    outages <- hOutages

-----------------------------------------------------------------------------
\* FeedRequests: any method against one that keeps its line and one that is
\* cancelled late.  HistoricalRange: six bars, three pages of two.

Feed == INSTANCE FeedRequests WITH
    Requests <- Tasks, MaxSessions <- FeedSessions,
    up <- fUp, session <- fSession, req <- fReq

AskedMethods ==
    r1 :> DOMAIN Method @@ r2 :> {"subscribe_ticker", "load_option_analytics"}

\* The option requests, of which one cancellation is enough
OptionMethods ==
    [r \in {r1, r2} |-> {m \in DOMAIN Method : Method[m].care = "late"}]

History == INSTANCE HistoricalRange WITH
    request <- gRequest, traded <- gTraded, phase <- gPhase,
    chunkEnd <- gChunkEnd, chunks <- gChunks, allBars <- gAllBars

ASSUME PartsAssumption ==
    /\ Limits!PacingAssumption /\ Pool!PacingAssumption
    /\ First = "redis" \/ "permit" \notin LimitsCancelledAt
    /\ Feed!FeedAssumption /\ History!RangeAssumption

-----------------------------------------------------------------------------

rateVars == <<now, lease, line, window, errors>>
pacingVars == <<hNow, hPc, hGuard, hMode, hWake, hAttempt, hPermits, hTable, hSent, hOutages>>
feedVars == <<fUp, fSession, fReq>>
rangeVars == <<gRequest, gTraded, gPhase, gChunkEnd, gChunks, gAllBars>>

SuiteInit ==
    /\ part \in {"rate", "limits", "pool", "feed", "range"}
    /\ Init
    /\ IF part = "limits" THEN Limits!Init ELSE Pool!Init
    /\ Feed!Init
    /\ part # "feed" => \A r \in Tasks : fReq[r].m = "subscribe_ticker"
    /\ part # "range" => gRequest = [start |-> 0, end |-> 0, paged |-> TRUE] /\ gTraded = {}
    /\ History!Init

RateSuite ==
    part = "rate" /\ Next /\ UNCHANGED <<part, pacingVars, feedVars, rangeVars>>
LimitsSuite ==
    /\ part = "limits" /\ Limits!Next
    /\ UNCHANGED <<part, rateVars, feedVars, rangeVars>>
PoolSuite ==
    /\ part = "pool" /\ Pool!Next
    /\ UNCHANGED <<part, rateVars, feedVars, rangeVars>>
FeedSuite ==
    /\ part = "feed" /\ Feed!Next
    /\ UNCHANGED <<part, rateVars, pacingVars, rangeVars>>
RangeSuite ==
    /\ part = "range" /\ History!Next
    /\ UNCHANGED <<part, rateVars, pacingVars, feedVars>>

SuiteNext ==
    RateSuite \/ LimitsSuite \/ PoolSuite \/ FeedSuite \/ RangeSuite

SuiteSpec ==
    SuiteInit /\ [][SuiteNext]_<<part, rateVars, pacingVars, feedVars, rangeVars>>

-----------------------------------------------------------------------------

(* Every part keeps its types. *)
TypesOK ==
    /\ TypeOK /\ History!TypeOK
    /\ part = "limits" => Limits!TypeOK
    /\ part = "pool" => Pool!TypeOK
    /\ part = "feed" => Feed!TypeOK

(* What IBKR counts stays within its three limits, but for the requests that
   the message limiter held back, one for each permit (HistoricalPacing). *)
PacingKept == part = "limits" => Limits!PacingKept

(* A permit is free or held, and goes back to its semaphore
   (HistoricalPacing). *)
PermitsConserved == part = "pool" => Pool!PermitsConserved

(* A request that is over holds no line and no subscription (FeedRequests). *)
CleanupIsComplete == part = "feed" => Feed!CleanupIsComplete

(* A ticker that is handed out belongs to the session that is up
   (FeedRequests). *)
TickersHaveASession == part = "feed" => Feed!TickersHaveASession

(* A request answers from the session it captured or not at all
   (FeedRequests). *)
AnswersAreOfOneSession == Feed!AnswersAreOfOneSession

(* What has been loaded of a range has no hole (HistoricalRange). *)
HistoryHasNoHoles == History!HistoryHasNoHoles

(* "Paginated historical OHLCV fetch across a date range.": every bar of the
   range is returned (HistoricalRange). *)
RangeIsComplete == History!RangeIsComplete

(* "Market-data leases are released after cancelMktData and also have a TTL
   safety net for process crashes": no request of a live process leaves its
   lease to the time to live (FeedRequests). *)
LeasesAreReleased == part = "feed" => Feed!LeasesAreReleased
=============================================================================
