---------------------------- MODULE GatewayProofs ----------------------------
(***************************************************************************)
(* Proofs about the traffic to the IBKR gateway: the pages of a range, the *)
(* three limits of the pacing guard and the permits of its semaphore, and  *)
(* the cleanup, the tickers and the answers of every method of the feeds,  *)
(* and the types of all parts.  They hold for any range and page length,   *)
(* any calls, series and weights, and any number of tasks, lines, rounds   *)
(* and sessions.                                                           *)
(***************************************************************************)
EXTENDS MCGateway, RateLimitControllerProofs, Integers

-----------------------------------------------------------------------------
\* HistoricalRange.

\* What is loaded is exactly what is wanted from chunkEnd on.
Loaded ==
    /\ \A t \in History!Wanted : gChunkEnd <= t => t \in gAllBars
    /\ \A bar \in gAllBars : gChunkEnd <= bar

RangeInv ==
    /\ gRequest.start \in Nat /\ gRequest.end \in 0..LastTime
    /\ gTraded \subseteq Nat /\ gAllBars \subseteq Nat
    /\ gChunkEnd \in 0..gRequest.end
    /\ gPhase \in {"asked", "direct"} => gAllBars = {} /\ gChunkEnd = gRequest.end
    /\ gPhase \in {"asked", "direct", "paging"} => Loaded
    /\ History!HistoryHasNoHoles

LEMMA RangeNumbers ==
    LastTime \in Nat /\ Chunk \in Nat /\ Chunk > 0 /\ MaxChunks \in Nat /\ Slack \in Nat
BY PartsAssumption DEF History!RangeAssumption

\* The earliest of some bars (Min).
LEMMA Earliest ==
    ASSUME NEW S, S \subseteq Nat, S # {}
    PROVE  History!Min(S) \in S /\ \A x \in S : History!Min(S) <= x
<1>1. PICK x \in S : \A y \in S : ~ (<<y, x>> \in OpToRel(<, Nat))
  BY WFMin, NatLessThanWellFounded
<1>2. \A y \in S : x <= y
  <2> SUFFICES ASSUME NEW y \in S, y < x PROVE FALSE  OBVIOUS
  <2>1. <<y, x>> \in {ss \in Nat \X Nat : ss[1] < ss[2]}  OBVIOUS
  <2>2. QED  BY <1>1, <2>1 DEF OpToRel
<1>3. QED  BY <1>2 DEF History!Min

LEMMA RangeStarts == History!Init => RangeInv
<1> SUFFICES ASSUME History!Init PROVE RangeInv  OBVIOUS
<1> USE DEF History!Init
<1>1. /\ gRequest.start \in Nat /\ gRequest.end \in 0..LastTime
      /\ gTraded \subseteq Nat
  BY RangeNumbers DEF History!Ranges, History!Time
<1>2. QED
  BY <1>1 DEF RangeInv, Loaded, History!Wanted, History!HistoryHasNoHoles

\* A reply is everything from some time on, early enough.
LEMMA RepliesAreWhole ==
    ASSUME NEW lo \in Nat, NEW hi \in Nat, NEW reply \in History!Replies(lo, hi),
           gTraded \subseteq Nat
    PROVE  /\ reply \subseteq gTraded /\ \A t \in reply : t < hi
           /\ \A t \in gTraded : lo <= t /\ t < hi => t \in reply
           /\ \A s \in reply, t \in gTraded : s <= t /\ t < hi => t \in reply
<1>1. PICK early \in 0..Slack : reply = {t \in gTraded : lo <= t + early /\ t < hi}
  BY DEF History!Replies
<1>2. early \in Nat  BY RangeNumbers
<1>3. QED  BY <1>1, <1>2

LEMMA LoadOnceKeeps == ASSUME RangeInv, History!LoadOnce PROVE RangeInv'
<1> USE DEF History!LoadOnce, RangeInv
<1>1. /\ gAllBars' \subseteq gTraded
      /\ \A t \in gTraded : gRequest.start <= t /\ t < gRequest.end => t \in gAllBars'
  BY RepliesAreWhole, RangeNumbers
<1>2. History!HistoryHasNoHoles'
  BY <1>1 DEF History!HistoryHasNoHoles, History!Wanted
<1>3. QED  BY <1>1, <1>2

LEMMA LoadChunkKeeps == ASSUME RangeInv, History!LoadChunk PROVE RangeInv'
<1> USE DEF RangeInv
<1> DEFINE lo == History!ChunkStart
<1>1. PICK reply \in History!Replies(lo, gChunkEnd) :
          LET bars == {t \in reply : t >= gRequest.start} IN
          /\ gAllBars' = bars \cup gAllBars
          /\ IF bars # {} /\ History!Min(bars) <= lo
             THEN gPhase' = "done" /\ UNCHANGED gChunkEnd
             ELSE gChunkEnd' = History!NextChunkEnd(bars) /\ UNCHANGED gPhase
  BY DEF History!LoadChunk
<1> DEFINE bars == {t \in reply : t >= gRequest.start}
<1>2. /\ gPhase = "paging" /\ UNCHANGED <<gRequest, gTraded>>
      /\ gChunkEnd > gRequest.start
  BY DEF History!LoadChunk, History!PagesLeft
<1>3. lo \in gRequest.start..gChunkEnd /\ gChunkEnd \in Nat
  BY <1>2, RangeNumbers DEF History!ChunkStart
<1>4. /\ bars \subseteq gTraded
      /\ \A t \in bars : gRequest.start <= t /\ t < gChunkEnd
      /\ \A t \in History!Wanted : lo <= t /\ t < gChunkEnd => t \in bars
      /\ \A s \in bars, t \in History!Wanted : s <= t /\ t < gChunkEnd => t \in bars
  BY <1>3, RepliesAreWhole DEF History!Wanted
<1>5. Loaded  BY <1>2
<1>6. gAllBars' \subseteq Nat  BY <1>1, <1>4
<1>7. History!HistoryHasNoHoles'
  <2> SUFFICES ASSUME NEW t \in History!Wanted, NEW bar \in gAllBars', bar <= t
               PROVE  t \in gAllBars'
    BY <1>2 DEF History!HistoryHasNoHoles, History!Wanted
  <2>1. t \in Nat /\ bar \in Nat  BY <1>6 DEF History!Wanted
  <2>2. CASE gChunkEnd <= t  BY <1>1, <1>5, <2>2 DEF Loaded
  <2>3. CASE t < gChunkEnd
    <3>1. bar \notin gAllBars  BY <1>3, <1>5, <2>1, <2>3 DEF Loaded
    <3>2. bar \in bars  BY <1>1, <3>1
    <3>3. QED  BY <1>1, <1>4, <2>3, <3>2
  <2>4. QED  BY <1>3, <2>1, <2>2, <2>3
<1>8. CASE bars # {} /\ History!Min(bars) <= lo
  BY <1>1, <1>2, <1>6, <1>7, <1>8
<1>9. CASE ~(bars # {} /\ History!Min(bars) <= lo)
  <2> DEFINE e == History!NextChunkEnd(bars)
  <2>1. gChunkEnd' = e /\ gPhase' = "paging"  BY <1>1, <1>2, <1>9
  <2>2. /\ e \in 0..gChunkEnd
        /\ \A t \in History!Wanted : e <= t /\ t < gChunkEnd => t \in bars
        /\ \A t \in bars : e <= t
    <3>1. CASE bars = {}
      BY <1>3, <1>4, <3>1 DEF History!NextChunkEnd
    <3>2. CASE bars # {}
      <4>1. History!Min(bars) \in bars /\ \A t \in bars : History!Min(bars) <= t
        BY <1>4, <3>2, Earliest
      <4>2. e = History!Min(bars)  BY <3>2 DEF History!NextChunkEnd
      <4>3. e \in bars /\ e \in Nat /\ \A t \in bars : e <= t
        BY <1>4, <4>1, <4>2
      <4> HIDE DEF bars, e
      <4>4. QED  BY <1>3, <1>4, <4>3
    <3>3. QED  BY <3>1, <3>2
  <2> HIDE DEF e
  <2>3. Loaded'
    <3>1. \A t \in History!Wanted : e <= t => t \in gAllBars'
      <4> TAKE t \in History!Wanted
      <4>1. t \in Nat  BY DEF History!Wanted
      <4>2. QED  BY <1>1, <1>3, <1>5, <2>2, <4>1 DEF Loaded
    <3>2. \A bar \in gAllBars' : e <= bar
      <4> TAKE bar \in gAllBars'
      <4>1. bar \in Nat  BY <1>6
      <4>2. QED  BY <1>1, <1>3, <1>5, <2>2, <4>1 DEF Loaded
    <3>3. QED  BY <1>2, <2>1, <3>1, <3>2 DEF Loaded, History!Wanted
  <2>4. QED  BY <1>2, <1>3, <1>6, <1>7, <2>1, <2>2, <2>3
<1>10. QED  BY <1>8, <1>9

LEMMA RangeKeeps == ASSUME RangeInv, [History!Next]_rangeVars PROVE RangeInv'
<1>1. CASE History!Reject
  BY <1>1 DEF History!Reject, RangeInv, Loaded, History!HistoryHasNoHoles, History!Wanted
<1>2. CASE History!EmptyRange
  BY <1>2 DEF History!EmptyRange, RangeInv, Loaded, History!HistoryHasNoHoles, History!Wanted
<1>3. CASE History!Plan
  BY <1>3 DEF History!Plan, RangeInv, Loaded, History!HistoryHasNoHoles, History!Wanted
<1>4. CASE History!LoadOnce  BY <1>4, LoadOnceKeeps
<1>5. CASE History!LoadChunk  BY <1>5, LoadChunkKeeps
<1>6. CASE History!LastChunk
  BY <1>6 DEF History!LastChunk, RangeInv, Loaded, History!HistoryHasNoHoles, History!Wanted
<1>7. CASE UNCHANGED rangeVars
  BY <1>7 DEF rangeVars, RangeInv, Loaded, History!HistoryHasNoHoles, History!Wanted
<1>8. QED  BY <1>1, <1>2, <1>3, <1>4, <1>5, <1>6, <1>7 DEF History!Next

(* Whatever the pages and their order of arrival: what has been loaded of a
   range has no hole (load_historical_ohlcv_range). *)
THEOREM LoadedRangesAreWhole == SuiteSpec => []HistoryHasNoHoles
<1>1. SuiteInit => RangeInv
  BY RangeStarts DEF SuiteInit
<1>2. RangeInv /\ [SuiteNext]_<<part, rateVars, pacingVars, feedVars, rangeVars>> => RangeInv'
  BY RangeKeeps DEF SuiteNext, RateSuite, LimitsSuite, PoolSuite, FeedSuite, RangeSuite
<1>3. RangeInv => HistoryHasNoHoles
  BY DEF RangeInv, HistoryHasNoHoles
<1>4. QED  BY <1>1, <1>2, <1>3, PTL DEF SuiteSpec

-----------------------------------------------------------------------------
\* HistoricalPacing: the three limits.

\* What was sent within the last `span` minutes of t, and what a limit counts of it
Fresh(events, t, span) == {e \in events : t - e.at < span}
Entries(events) == UNION {Limits!Places(e) : e \in events}
OfSeries(events, s) == {e \in events : SeriesOf[e.call] = s}
OfContract(events, k) == {e \in events : ContractOf[SeriesOf[e.call]] = k}

WithinLimits(events, t) ==
    /\ Cardinality(Entries(Fresh(events, t, PacingWindow))) <= WindowMax
    /\ \A c \in Calls :
          Cardinality(OfContract(Fresh(events, t, Burst), ContractOf[SeriesOf[c]])) <= BurstMax
    /\ \A c \in Calls :
          Cardinality(OfSeries(Fresh(events, t, Cooldown), SeriesOf[c])) <= 1

\* A request that finds room for itself under each limit
HasRoom(events, t, c) ==
    /\ Cardinality(Entries(Fresh(events, t, PacingWindow))) + Weight[SeriesOf[c]] <= WindowMax
    /\ Cardinality(OfContract(Fresh(events, t, Burst), ContractOf[SeriesOf[c]])) < BurstMax
    /\ OfSeries(Fresh(events, t, Cooldown), SeriesOf[c]) = {}

Events(events, t) ==
    /\ IsFiniteSet(events) /\ IsFiniteSet(Entries(events))
    /\ \A e \in events : e.call \in Calls /\ e.at \in Nat /\ e.at <= t

Stages == {"idle", "permit", "slot", "limiter", "flight", "done"}

Grants == hTable[First]

GrantsInv ==
    /\ hNow \in Nat /\ hOutages = 0 /\ hPc \in [Calls -> Stages]
    /\ hGuard = [c \in Calls |-> First] /\ hAttempt = [c \in Calls |-> 1]
    /\ hTable \in [Limits!Both -> SUBSET Grants]
    /\ Events(Grants, hNow) /\ WithinLimits(Grants, hNow)

\* A call that holds a permit of its guard
Holding == {c \in Calls : hPc[c] \in {"slot", "limiter", "flight"}}

PermitsHeld ==
    /\ hPermits \in [Limits!Both -> Nat] /\ hMode \in [Calls -> {"none", First}]
    /\ \A c \in Calls : hPc[c] \in {"limiter", "flight"} => hMode[c] = First
    /\ \A c \in Calls : hPc[c] \in {"idle", "permit", "slot"} => hMode[c] = "none"
    /\ hPermits[First] + Cardinality(Holding) <= LimitsPermits

\* A call sends once, and only after it was granted its slot.
SendsFollow ==
    /\ \A e \in hSent : /\ e.call \in Calls /\ e.at \in Nat /\ e.at <= hNow
                        /\ hPc[e.call] \in {"flight", "done"}
                        /\ \E r \in Grants : r.call = e.call
    /\ \A d, e \in hSent : d.call = e.call => d = e
    /\ \A r \in Grants : hPc[r.call] \in {"limiter", "flight", "done"}
    /\ \A c \in Calls : hPc[c] = "limiter" => \E r \in Grants : r.call = c

\* The calls that were granted their slot by time t and had not sent by then
HeldOver(t) ==
    {c \in Calls : /\ \E r \in Grants : r.call = c /\ r.at <= t
                   /\ hPc[c] = "limiter" \/ \E e \in hSent : e.call = c /\ e.at > t}

StragglersHold ==
    \A t \in 0..hNow : Cardinality(HeldOver(t)) <= LimitsPermits

LimitsInv == GrantsInv /\ PermitsHeld /\ SendsFollow /\ StragglersHold

\* The instances count as FiniteSets does.
LEMMA Counting ==
    /\ \A S : Limits!IsFiniteSet(S) <=> IsFiniteSet(S)
    /\ \A S : Limits!Cardinality(S) = Cardinality(S)
    /\ \A S : Pool!Cardinality(S) = Cardinality(S)
<1>1. \A S : Limits!IsFiniteSet(S) <=> IsFiniteSet(S)
  BY DEF Limits!IsFiniteSet, IsFiniteSet
<1>2. \A S : Limits!Cardinality(S) = Cardinality(S)  BY DEF Limits!Cardinality, Cardinality
<1>3. \A S : Pool!Cardinality(S) = Cardinality(S)  BY DEF Pool!Cardinality, Cardinality
<1>4. QED  BY <1>1, <1>2, <1>3

LEMMA PacingNumbers ==
    /\ PacingWindow \in Nat /\ PacingWindow > 0 /\ WindowMax \in Nat /\ WindowMax > 0
    /\ Cooldown \in Nat /\ Cooldown > 0 /\ Burst \in Nat /\ Burst > 0
    /\ BurstMax \in Nat /\ BurstMax > 0 /\ First \in {"redis", "local"}
    /\ LimitsPermits \in Nat /\ PoolPermits \in Nat
    /\ IsFiniteSet(Calls) /\ SeriesOf \in [Calls -> Series]
    /\ Weight \in [Series -> 1..WindowMax]
    /\ First = "redis" \/ "permit" \notin LimitsCancelledAt
<1>1. IsFiniteSet(Calls)
  BY PartsAssumption, Counting DEF Limits!PacingAssumption
<1>2. QED  BY <1>1, PartsAssumption DEF Limits!PacingAssumption, Pool!PacingAssumption

\* What is counted is finite, and less is counted later.
LEMMA CountsAreFinite ==
    ASSUME NEW events, NEW t, Events(events, t), NEW span, NEW k, NEW s, NEW u
    PROVE  /\ IsFiniteSet(Entries(Fresh(events, u, span)))
           /\ IsFiniteSet(OfContract(Fresh(events, u, span), k))
           /\ IsFiniteSet(OfSeries(Fresh(events, u, span), s))
<1>1. Entries(Fresh(events, u, span)) \in SUBSET Entries(events)  BY DEF Fresh, Entries
<1>2. /\ OfContract(Fresh(events, u, span), k) \in SUBSET events
      /\ OfSeries(Fresh(events, u, span), s) \in SUBSET events
  BY DEF Fresh, OfContract, OfSeries
<1>3. QED  BY <1>1, <1>2, FS_Subset DEF Events

LEMMA LaterIsWithin ==
    ASSUME NEW events, NEW t \in Nat, Events(events, t), WithinLimits(events, t)
    PROVE  WithinLimits(events, t + 1)
<1>1. \A span \in Nat : Fresh(events, t + 1, span) \subseteq Fresh(events, t, span)
  BY DEF Fresh, Events
<1>2. /\ Entries(Fresh(events, t + 1, PacingWindow))
            \in SUBSET Entries(Fresh(events, t, PacingWindow))
      /\ \A k : OfContract(Fresh(events, t + 1, Burst), k)
                  \in SUBSET OfContract(Fresh(events, t, Burst), k)
      /\ \A s : OfSeries(Fresh(events, t + 1, Cooldown), s)
                  \in SUBSET OfSeries(Fresh(events, t, Cooldown), s)
  BY <1>1, PacingNumbers DEF Entries, OfContract, OfSeries
<1>3. /\ Cardinality(Entries(Fresh(events, t + 1, PacingWindow)))
            <= Cardinality(Entries(Fresh(events, t, PacingWindow)))
      /\ Cardinality(Entries(Fresh(events, t + 1, PacingWindow))) \in Nat
      /\ Cardinality(Entries(Fresh(events, t, PacingWindow))) \in Nat
  BY <1>2, CountsAreFinite, FS_Subset, FS_CardinalityType
<1>4. ASSUME NEW k
      PROVE  /\ Cardinality(OfContract(Fresh(events, t + 1, Burst), k))
                   <= Cardinality(OfContract(Fresh(events, t, Burst), k))
             /\ Cardinality(OfContract(Fresh(events, t + 1, Burst), k)) \in Nat
             /\ Cardinality(OfContract(Fresh(events, t, Burst), k)) \in Nat
  BY <1>2, CountsAreFinite, FS_Subset, FS_CardinalityType
<1>5. ASSUME NEW s
      PROVE  /\ Cardinality(OfSeries(Fresh(events, t + 1, Cooldown), s))
                   <= Cardinality(OfSeries(Fresh(events, t, Cooldown), s))
             /\ Cardinality(OfSeries(Fresh(events, t + 1, Cooldown), s)) \in Nat
             /\ Cardinality(OfSeries(Fresh(events, t, Cooldown), s)) \in Nat
  BY <1>2, CountsAreFinite, FS_Subset, FS_CardinalityType
<1>6. Cardinality(Entries(Fresh(events, t + 1, PacingWindow))) <= WindowMax
  BY <1>3, PacingNumbers DEF WithinLimits
<1>7. ASSUME NEW c \in Calls
      PROVE  Cardinality(OfContract(Fresh(events, t + 1, Burst), ContractOf[SeriesOf[c]]))
                <= BurstMax
  BY <1>4, PacingNumbers DEF WithinLimits
<1>8. ASSUME NEW c \in Calls
      PROVE  Cardinality(OfSeries(Fresh(events, t + 1, Cooldown), SeriesOf[c])) <= 1
  BY <1>5 DEF WithinLimits
<1>9. QED  BY <1>6, <1>7, <1>8 DEF WithinLimits

\* A request that finds room leaves everything within its limit.
LEMMA OneMoreIsWithin ==
    ASSUME NEW events, NEW t \in Nat, Events(events, t), WithinLimits(events, t),
           NEW e, e.call \in Calls, e.at = t, HasRoom(events, t, e.call)
    PROVE  Events(events \cup {e}, t) /\ WithinLimits(events \cup {e}, t)
<1> DEFINE c == e.call
           more == events \cup {e}
           w == Weight[SeriesOf[c]]
<1>0. w \in Nat /\ SeriesOf[c] \in Series  BY PacingNumbers
<1>1. IsFiniteSet(Limits!Places(e)) /\ Cardinality(Limits!Places(e)) = w
  <2>1. IsFiniteSet(1..w) /\ Cardinality(1..w) = w
    <3> HIDE DEF w
    <3>1. 1 \in Int /\ w \in Int /\ (IF 1 > w THEN 0 ELSE w - 1 + 1) = w  BY <1>0
    <3>2. QED  BY <3>1, FS_Interval
  <2>2. IsFiniteSet({e}) /\ Cardinality({e}) = 1  BY FS_Singleton
  <2> HIDE DEF w
  <2>3. IsFiniteSet({e} \X (1..w)) /\ Cardinality({e} \X (1..w)) = 1 * w
    BY <2>1, <2>2, FS_Product
  <2>4. QED  BY <1>0, <2>3 DEF Limits!Places, w
<1>2. Entries(more) = Entries(events) \cup Limits!Places(e)
  BY DEF Entries
<1>3. Events(more, t)
  <2>1. IsFiniteSet(more)  BY FS_AddElement DEF Events
  <2>2. IsFiniteSet(Entries(more))  BY <1>1, <1>2, FS_Union DEF Events
  <2>3. QED  BY <2>1, <2>2 DEF Events
<1>4. \A span \in Nat : span > 0 => Fresh(more, t, span) = Fresh(events, t, span) \cup {e}
  BY DEF Fresh
<1>5. Cardinality(Entries(Fresh(more, t, PacingWindow))) <= WindowMax
  <2> DEFINE before == Entries(Fresh(events, t, PacingWindow))
  <2>1. Entries(Fresh(more, t, PacingWindow)) = before \cup Limits!Places(e)
    <3>1. Fresh(more, t, PacingWindow) = Fresh(events, t, PacingWindow) \cup {e}
      BY <1>4, PacingNumbers
    <3>2. QED  BY <3>1 DEF Entries
  <2>2. IsFiniteSet(before)  BY CountsAreFinite
  <2>3. Cardinality(before) + w <= WindowMax  BY DEF HasRoom
  <2> HIDE DEF before, w
  <2>4. /\ Cardinality(before \cup Limits!Places(e))
             = Cardinality(before) + w - Cardinality(before \cap Limits!Places(e))
        /\ Cardinality(before \cap Limits!Places(e)) \in Nat
        /\ Cardinality(before) \in Nat
    <3>1. IsFiniteSet(before \cap Limits!Places(e))
      <4>1. before \cap Limits!Places(e) \in SUBSET before  OBVIOUS
      <4>2. QED  BY <2>2, <4>1, FS_Subset
    <3>2. QED  BY <1>1, <2>2, <3>1, FS_Union, FS_CardinalityType
  <2>5. Cardinality(before \cup Limits!Places(e)) <= WindowMax
    BY <1>0, <2>3, <2>4, PacingNumbers DEF w
  <2>6. QED  BY <2>1, <2>5
<1>6. ASSUME NEW d \in Calls
      PROVE  Cardinality(OfContract(Fresh(more, t, Burst), ContractOf[SeriesOf[d]])) <= BurstMax
  <2> DEFINE k == ContractOf[SeriesOf[d]]
             before == OfContract(Fresh(events, t, Burst), k)
  <2>1. Fresh(more, t, Burst) = Fresh(events, t, Burst) \cup {e}  BY <1>4, PacingNumbers
  <2>2. IsFiniteSet(before) /\ Cardinality(before) \in Nat
    BY CountsAreFinite, FS_CardinalityType
  <2>3. CASE k = ContractOf[SeriesOf[c]]
    <3>1. OfContract(Fresh(more, t, Burst), k) = before \cup {e}
      BY <2>1, <2>3 DEF OfContract
    <3>2. Cardinality(before) < BurstMax  BY <2>3 DEF HasRoom
    <3> HIDE DEF before
    <3>3. Cardinality(before \cup {e}) \in {Cardinality(before), Cardinality(before) + 1}
      BY <2>2, FS_AddElement
    <3>4. Cardinality(before \cup {e}) \in Nat
      BY <2>2, FS_AddElement, FS_CardinalityType
    <3>5. Cardinality(before \cup {e}) <= BurstMax
      BY <2>2, <3>2, <3>3, <3>4, PacingNumbers
    <3>6. QED  BY <3>1, <3>5
  <2>4. CASE k # ContractOf[SeriesOf[c]]
    <3>1. OfContract(Fresh(more, t, Burst), k) = before
      BY <2>1, <2>4 DEF OfContract
    <3>2. QED  BY <3>1 DEF WithinLimits
  <2>5. QED  BY <2>3, <2>4
<1>7. ASSUME NEW d \in Calls
      PROVE  Cardinality(OfSeries(Fresh(more, t, Cooldown), SeriesOf[d])) <= 1
  <2>1. Fresh(more, t, Cooldown) = Fresh(events, t, Cooldown) \cup {e}
    BY <1>4, PacingNumbers
  <2>2. CASE SeriesOf[d] = SeriesOf[c]
    <3>1. OfSeries(Fresh(more, t, Cooldown), SeriesOf[d]) = {e}
      BY <2>1, <2>2 DEF OfSeries, HasRoom
    <3>2. Cardinality({e}) = 1  BY FS_Singleton
    <3>3. QED  BY <3>1, <3>2
  <2>3. CASE SeriesOf[d] # SeriesOf[c]
    <3>1. OfSeries(Fresh(more, t, Cooldown), SeriesOf[d])
            = OfSeries(Fresh(events, t, Cooldown), SeriesOf[d])
      BY <2>1, <2>3 DEF OfSeries
    <3>2. QED  BY <3>1 DEF WithinLimits
  <2>4. QED  BY <2>2, <2>3
<1>8. QED  BY <1>3, <1>5, <1>6, <1>7 DEF WithinLimits

\* The greatest of a few numbers (Max).
LEMMA Greatest ==
    ASSUME NEW A, NEW B, NEW C, NEW a \in Int, NEW b \in Int, NEW c \in Int,
           A \in {{}, {a}}, B \in {{}, {b}}, C \in {{}, {c}}
    PROVE  /\ Limits!Max({0} \cup A \cup B \cup C) \in Nat
           /\ \A x \in A \cup B \cup C : x <= Limits!Max({0} \cup A \cup B \cup C)
<1> DEFINE S == {0} \cup A \cup B \cup C
<1>1. \E m \in S : \A x \in S : m >= x
  <2>1. \E m \in {0} \cup A : \A x \in {0} \cup A : m >= x
    <3>1. CASE A = {}  BY <3>1
    <3>2. CASE A = {a} /\ a > 0  BY <3>2
    <3>3. CASE A = {a} /\ a <= 0  BY <3>3
    <3>4. QED  BY <3>1, <3>2, <3>3
  <2>2. PICK m \in {0} \cup A : \A x \in {0} \cup A : m >= x  BY <2>1
  <2>3. m \in Int /\ \A x \in {0} \cup A \cup B \cup C : x \in Int  OBVIOUS
  <2>4. PICK n \in {0} \cup A \cup B : \A x \in {0} \cup A \cup B : n >= x
    <3>1. CASE B = {}  BY <2>2, <3>1
    <3>2. CASE B = {b} /\ b > m  BY <2>2, <2>3, <3>2
    <3>3. CASE B = {b} /\ b <= m  BY <2>2, <2>3, <3>3
    <3>4. QED  BY <2>3, <3>1, <3>2, <3>3
  <2>5. CASE C = {}  BY <2>4, <2>5
  <2>6. CASE C = {c} /\ c > n  BY <2>3, <2>4, <2>6
  <2>7. CASE C = {c} /\ c <= n  BY <2>3, <2>4, <2>7
  <2>8. QED  BY <2>3, <2>4, <2>5, <2>6, <2>7
<1>2. Limits!Max(S) \in S /\ \A x \in S : x <= Limits!Max(S)  BY <1>1 DEF Limits!Max
<1>3. \A x \in S : x \in Int  OBVIOUS
<1>4. 0 \in S /\ A \cup B \cup C \subseteq S  OBVIOUS
<1> HIDE DEF S
<1>5. Limits!Max(S) \in Nat /\ \A x \in A \cup B \cup C : x <= Limits!Max(S)
  BY <1>2, <1>3, <1>4
<1>6. QED  BY <1>5 DEF S

\* As long as an event is in its window it takes time until one has left it.
LEMMA TimeLeft ==
    ASSUME NEW events, NEW span \in Nat, hNow \in Nat, events # {},
           \A e \in events : e.at \in Nat /\ e.at <= hNow /\ hNow - e.at < span
    PROVE  Limits!Left(events, span) \in Int /\ Limits!Left(events, span) > 0
<1> DEFINE times == {e.at : e \in events}
<1>1. times \subseteq Nat /\ times # {}  OBVIOUS
<1>2. Limits!Min(times) \in times
  <2> HIDE DEF times
  <2>1. Limits!Min(times) = History!Min(times)  BY DEF Limits!Min, History!Min
  <2>2. QED  BY <1>1, <2>1, Earliest
<1>3. PICK e \in events : Limits!Min(times) = e.at  BY <1>2
<1>4. QED  BY <1>3 DEF Limits!Left

\* A slot is waited for, and one that is given without a wait has room.
LEMMA SlotHasRoom ==
    ASSUME NEW events, NEW c \in Calls, hNow \in Nat, Events(events, hNow)
    PROVE  /\ Limits!RequiredWait(events, c) \in Nat
           /\ Limits!RequiredWait(events, c) = 0 => HasRoom(events, hNow, c)
<1> DEFINE recent == Fresh(events, hNow, PacingWindow)
           same == OfSeries(Fresh(events, hNow, Cooldown), SeriesOf[c])
           burst == OfContract(Fresh(events, hNow, Burst), ContractOf[SeriesOf[c]])
           w == Weight[SeriesOf[c]]
<1>1. /\ Limits!Recent(events, PacingWindow) = recent
      /\ Limits!SameSeries(Limits!Recent(events, Cooldown), c) = same
      /\ Limits!SameContract(Limits!Recent(events, Burst), c) = burst
  BY DEF Limits!Recent, Limits!SameSeries, Limits!SameContract, Fresh, OfSeries, OfContract
<1>2. /\ Limits!Load(recent) = Cardinality(Entries(recent)) /\ Limits!Load(recent) \in Nat
      /\ Limits!Cardinality(burst) = Cardinality(burst) /\ Cardinality(burst) \in Nat
  BY CountsAreFinite, Counting, FS_CardinalityType DEF Limits!Load, Entries
<1>3. w \in 1..WindowMax  BY PacingNumbers
<1> DEFINE A == Limits!WindowWaits(events, c)
           B == Limits!CooldownWaits(events, c)
           C == Limits!BurstWaits(events, c)
<1>4. /\ A = IF Limits!Load(recent) + w > WindowMax
             THEN {Limits!Left(recent, PacingWindow)} ELSE {}
      /\ B = IF same # {} THEN {Limits!Left(same, Cooldown)} ELSE {}
      /\ C = IF Limits!Cardinality(burst) >= BurstMax
             THEN {Limits!Left(burst, Burst)} ELSE {}
  BY <1>1 DEF Limits!WindowWaits, Limits!CooldownWaits, Limits!BurstWaits
<1>5. recent # {} => Limits!Left(recent, PacingWindow) \in Int
                     /\ Limits!Left(recent, PacingWindow) > 0
  BY TimeLeft, PacingNumbers DEF Fresh, Events
<1>6. same # {} => Limits!Left(same, Cooldown) \in Int /\ Limits!Left(same, Cooldown) > 0
  BY TimeLeft, PacingNumbers DEF Fresh, Events, OfSeries
<1>7. burst # {} => Limits!Left(burst, Burst) \in Int /\ Limits!Left(burst, Burst) > 0
  BY TimeLeft, PacingNumbers DEF Fresh, Events, OfContract
<1>8. recent = {} => Limits!Load(recent) = 0
  <2>1. recent = {} => Entries(recent) = {}  BY DEF Entries
  <2>2. Cardinality({}) = 0  BY FS_EmptySet
  <2>3. QED  BY <1>2, <2>1, <2>2
<1>9. burst = {} => Limits!Cardinality(burst) = 0  BY <1>2, FS_EmptySet
<1> DEFINE wait == Limits!RequiredWait(events, c)
<1>10. wait = Limits!Max({0} \cup A \cup B \cup C)  BY DEF Limits!RequiredWait
<1> HIDE DEF recent, same, burst, w, A, B, C, wait
<1>11. /\ Limits!Load(recent) + w > WindowMax => recent # {}
       /\ Limits!Cardinality(burst) >= BurstMax => burst # {}
  BY <1>2, <1>3, <1>8, <1>9, PacingNumbers
<1>12. PICK a \in Int : A \in {{}, {a}} /\ (A # {} => a > 0)
  BY <1>4, <1>5, <1>11
<1>13. PICK b \in Int : B \in {{}, {b}} /\ (B # {} => b > 0)
  BY <1>4, <1>6
<1>14. PICK d \in Int : C \in {{}, {d}} /\ (C # {} => d > 0)
  BY <1>4, <1>7, <1>11
<1>15. wait \in Nat /\ \A x \in A \cup B \cup C : x <= wait
  <2>1. /\ a \in Int /\ A \in {{}, {a}} /\ b \in Int /\ B \in {{}, {b}}
        /\ d \in Int /\ C \in {{}, {d}}
    BY <1>12, <1>13, <1>14
  <2>2. /\ Limits!Max({0} \cup A \cup B \cup C) \in Nat
        /\ \A x \in A \cup B \cup C : x <= Limits!Max({0} \cup A \cup B \cup C)
    BY ONLY <2>1, Greatest
  <2>3. QED  BY <1>10, <2>2
<1>16. ASSUME wait = 0 PROVE HasRoom(events, hNow, c)
  <2>1. A = {} /\ B = {} /\ C = {}  BY <1>12, <1>13, <1>14, <1>15, <1>16
  <2>2. /\ ~(Limits!Load(recent) + w > WindowMax) /\ same = {}
        /\ ~(Limits!Cardinality(burst) >= BurstMax)
    BY <1>4, <2>1
  <2>3. /\ Cardinality(Entries(recent)) + w <= WindowMax
        /\ Cardinality(burst) < BurstMax
    BY <1>2, <1>3, <2>2, PacingNumbers
  <2>4. QED  BY <2>2, <2>3 DEF HasRoom, recent, same, burst, w
<1>17. QED  BY <1>15, <1>16 DEF wait

\* Sends that are granted, each to a call of its own, are no more than grants.
LEMMA SendsAreGranted ==
    ASSUME NEW P, NEW R, IsFiniteSet(R), IsFiniteSet(Entries(R)),
           \A d, e \in P : d.call = e.call => d = e,
           \A e \in P : \E r \in R : r.call = e.call
    PROVE  /\ Cardinality(P) \in Nat /\ Cardinality(P) <= Cardinality(R)
           /\ Cardinality(Entries(P)) \in Nat
           /\ Cardinality(Entries(P)) <= Cardinality(Entries(R))
<1> DEFINE f == [e \in P |-> CHOOSE r \in R : r.call = e.call]
           g == [p \in Entries(P) |-> <<f[p[1]], p[2]>>]
<1>1. \A e \in P : f[e] \in R /\ f[e].call = e.call
  OBVIOUS
<1>2. f \in Injection(P, R)
  <2>1. f \in [P -> R] /\ \A d, e \in P : f[d] = f[e] => d = e
    BY <1>1
  <2>2. QED  BY <2>1 DEF Injection, IsInjective
<1>3. g \in Injection(Entries(P), Entries(R))
  <2>1. \A p \in Entries(P) :
            /\ p[1] \in P /\ p[2] \in 1..Weight[SeriesOf[p[1].call]] /\ p = <<p[1], p[2]>>
    BY DEF Entries, Limits!Places
  <2>2. \A p \in Entries(P) : g[p] = <<f[p[1]], p[2]>>
    OBVIOUS
  <2> HIDE DEF f, g
  <2>3. \A p \in Entries(P) : g[p] \in Limits!Places(f[p[1]])
    BY <1>1, <2>1, <2>2 DEF Limits!Places
  <2>4. \A p \in Entries(P) : g[p] \in Entries(R)
    BY <1>1, <2>1, <2>3 DEF Entries
  <2>5. ASSUME NEW p \in Entries(P), NEW q \in Entries(P), g[p] = g[q] PROVE p = q
    <3>1. f[p[1]] = f[q[1]] /\ p[2] = q[2]  BY <2>2, <2>5
    <3>2. p[1] = q[1]  BY <1>1, <2>1, <3>1
    <3>3. QED  BY <2>1, <3>1, <3>2
  <2>6. g \in [Entries(P) -> Entries(R)]  BY <2>4 DEF g
  <2>7. DOMAIN g = Entries(P)  BY DEF g
  <2>8. QED  BY <2>5, <2>6, <2>7 DEF Injection, IsInjective
<1> HIDE DEF f, g
<1>4. IsFiniteSet(P) /\ Cardinality(P) <= Cardinality(R)  BY <1>2, FS_Injection
<1>5. IsFiniteSet(Entries(P)) /\ Cardinality(Entries(P)) <= Cardinality(Entries(R))
  BY <1>3, FS_Injection
<1>6. QED  BY <1>4, <1>5, FS_CardinalityType

\* The stragglers of a span are calls that were held over its beginning.
LEMMA StragglersWereHeld ==
    ASSUME LimitsInv, NEW span \in Nat, span > 0
    PROVE  Cardinality(Limits!Stragglers(span)) <= LimitsPermits
<1> DEFINE S == Limits!Stragglers(span)
           t == hNow - span
<1>1. hTable["redis"] \cup hTable["local"] = Grants
  BY PacingNumbers DEF LimitsInv, GrantsInv, Grants, Limits!Both
<1>2. \A e \in S : e \in hSent /\ hNow - e.at < span
                   /\ \A r \in Grants : r.call = e.call => ~(hNow - r.at < span)
  BY <1>1 DEF Limits!Stragglers, Limits!Granted, Limits!Recent
<1>3. /\ hNow \in Nat /\ \A r \in Grants : r.at \in Nat /\ r.call \in Calls
      /\ \A e \in hSent : e.at \in Nat /\ \E r \in Grants : r.call = e.call
      /\ \A d, e \in hSent : d.call = e.call => d = e
  BY DEF LimitsInv, GrantsInv, SendsFollow, Events
<1> HIDE DEF S
<1>4. \A e \in S : t \in 0..hNow /\ e.call \in HeldOver(t)
  <2> TAKE e \in S
  <2>1. PICK r \in Grants : r.call = e.call  BY <1>2, <1>3
  <2>2. ~(hNow - r.at < span) /\ hNow - e.at < span /\ e \in hSent  BY <1>2, <2>1
  <2>3. r.at \in Nat /\ e.at \in Nat /\ r.call \in Calls  BY <1>3, <2>2
  <2>4. t \in 0..hNow /\ r.at <= t /\ e.at > t  BY <1>3, <2>2, <2>3
  <2>5. QED  BY <2>1, <2>2, <2>3, <2>4 DEF HeldOver
<1>5. CASE S = {}
  BY <1>5, FS_EmptySet, PacingNumbers DEF S
<1>6. CASE S # {}
  <2>1. t \in 0..hNow  BY <1>4, <1>6
  <2>2. IsFiniteSet(HeldOver(t)) /\ Cardinality(HeldOver(t)) \in Nat
    <3>1. HeldOver(t) \in SUBSET Calls  BY DEF HeldOver
    <3>2. QED  BY <3>1, PacingNumbers, FS_Subset, FS_CardinalityType
  <2>3. Cardinality(HeldOver(t)) <= LimitsPermits
    BY <2>1 DEF LimitsInv, StragglersHold
  <2> DEFINE f == [e \in S |-> e.call]
  <2>4. f \in Injection(S, HeldOver(t))
    <3>1. \A d, e \in S : f[d] = f[e] => d = e  BY <1>2, <1>3
    <3>2. f \in [S -> HeldOver(t)]
      <4> HIDE DEF t
      <4>1. QED  BY <1>4
    <3>3. QED  BY <3>1, <3>2 DEF Injection, IsInjective
  <2> HIDE DEF f, t
  <2>5. IsFiniteSet(S) /\ Cardinality(S) <= Cardinality(HeldOver(t))
    BY <2>2, <2>4, FS_Injection
  <2>6. Cardinality(S) \in Nat  BY <2>5, FS_CardinalityType
  <2>7. QED  BY <2>2, <2>3, <2>5, <2>6, PacingNumbers DEF S
<1>7. QED  BY <1>5, <1>6

LEMMA PacingIsWithin ==
    ASSUME LimitsInv PROVE Limits!PacingKept
<1>1. Events(Grants, hNow) /\ WithinLimits(Grants, hNow)
  BY DEF LimitsInv, GrantsInv
<1>2. \A span : \A e \in Limits!Punctual(span) :
          e \in hSent /\ \E r \in Fresh(Grants, hNow, span) : r.call = e.call
  <2>1. hTable["redis"] \cup hTable["local"] = Grants
    BY PacingNumbers DEF LimitsInv, GrantsInv, Grants, Limits!Both
  <2>2. QED  BY <2>1 DEF Limits!Punctual, Limits!Granted, Limits!Recent, Fresh
<1>3. \A d, e \in hSent : d.call = e.call => d = e
  BY DEF LimitsInv, SendsFollow
<1>4. Limits!Load(Limits!Punctual(PacingWindow)) <= WindowMax
  <2> DEFINE P == Limits!Punctual(PacingWindow)
             R == Fresh(Grants, hNow, PacingWindow)
  <2>1. IsFiniteSet(R) /\ IsFiniteSet(Entries(R))
    <3>1. R \in SUBSET Grants  BY DEF Fresh
    <3>2. QED  BY <1>1, <3>1, CountsAreFinite, FS_Subset DEF Events
  <2>2. /\ \A d, e \in P : d.call = e.call => d = e
        /\ \A e \in P : \E r \in R : r.call = e.call
    BY <1>2, <1>3
  <2>3. Limits!Load(P) = Cardinality(Entries(P))
    BY Counting DEF Limits!Load, Entries
  <2>4. Cardinality(Entries(R)) <= WindowMax  BY <1>1 DEF WithinLimits
  <2> HIDE DEF P, R
  <2>5. Cardinality(Entries(P)) \in Nat /\ Cardinality(Entries(P)) <= Cardinality(Entries(R))
        /\ Cardinality(Entries(R)) \in Nat
    BY <2>1, <2>2, SendsAreGranted, FS_CardinalityType
  <2>6. QED  BY <2>3, <2>4, <2>5, PacingNumbers DEF P
<1>5. ASSUME NEW c \in Calls
      PROVE  Limits!Cardinality(Limits!SameContract(Limits!Punctual(Burst), c)) <= BurstMax
  <2> DEFINE P == Limits!SameContract(Limits!Punctual(Burst), c)
             R == OfContract(Fresh(Grants, hNow, Burst), ContractOf[SeriesOf[c]])
  <2>1. IsFiniteSet(R) /\ IsFiniteSet(Entries(R))
    <3>1. Entries(R) \in SUBSET Entries(Grants)  BY DEF Fresh, OfContract, Entries
    <3>2. QED  BY <1>1, <3>1, CountsAreFinite, FS_Subset DEF Events
  <2>2. /\ \A d, e \in P : d.call = e.call => d = e
        /\ \A e \in P : \E r \in R : r.call = e.call
    BY <1>2, <1>3 DEF Limits!SameContract, OfContract
  <2>3. Cardinality(R) <= BurstMax  BY <1>1 DEF WithinLimits
  <2> HIDE DEF P, R
  <2>4. Cardinality(P) \in Nat /\ Cardinality(P) <= Cardinality(R) /\ Cardinality(R) \in Nat
    BY <2>1, <2>2, SendsAreGranted, FS_CardinalityType
  <2>5. Cardinality(P) <= BurstMax  BY <2>3, <2>4, PacingNumbers
  <2>6. QED  BY <2>5, Counting DEF P
<1>6. ASSUME NEW c \in Calls
      PROVE  Limits!Cardinality(Limits!SameSeries(Limits!Punctual(Cooldown), c)) <= 1
  <2> DEFINE P == Limits!SameSeries(Limits!Punctual(Cooldown), c)
             R == OfSeries(Fresh(Grants, hNow, Cooldown), SeriesOf[c])
  <2>1. IsFiniteSet(R) /\ IsFiniteSet(Entries(R))
    <3>1. Entries(R) \in SUBSET Entries(Grants)  BY DEF Fresh, OfSeries, Entries
    <3>2. QED  BY <1>1, <3>1, CountsAreFinite, FS_Subset DEF Events
  <2>2. /\ \A d, e \in P : d.call = e.call => d = e
        /\ \A e \in P : \E r \in R : r.call = e.call
    BY <1>2, <1>3 DEF Limits!SameSeries, OfSeries
  <2>3. Cardinality(R) <= 1  BY <1>1 DEF WithinLimits
  <2> HIDE DEF P, R
  <2>4. Cardinality(P) \in Nat /\ Cardinality(P) <= Cardinality(R) /\ Cardinality(R) \in Nat
    BY <2>1, <2>2, SendsAreGranted, FS_CardinalityType
  <2>5. Cardinality(P) <= 1  BY <2>3, <2>4
  <2>6. QED  BY <2>5, Counting DEF P
<1>7. \A span \in {PacingWindow, Burst, Cooldown} :
          Limits!Cardinality(Limits!Stragglers(span)) <= LimitsPermits
  BY StragglersWereHeld, Counting, PacingNumbers
<1>8. QED  BY <1>4, <1>5, <1>6, <1>7 DEF Limits!PacingKept

LEMMA NothingIsWithin == Events({}, 0) /\ WithinLimits({}, 0)
<1>1. IsFiniteSet({}) /\ Cardinality({}) = 0  BY FS_EmptySet
<1>2. Entries({}) = {} /\ \A t, span : Fresh({}, t, span) = {}  BY DEF Entries, Fresh
<1>3. \A k : OfContract({}, k) = {} /\ OfSeries({}, k) = {}  BY DEF OfContract, OfSeries
<1>4. Events({}, 0)  BY <1>1, <1>2 DEF Events
<1>5. WithinLimits({}, 0)  BY <1>1, <1>2, <1>3, PacingNumbers DEF WithinLimits
<1>6. QED  BY <1>4, <1>5

LEMMA LimitsStart == ASSUME Limits!Init PROVE LimitsInv
<1> USE DEF Limits!Init
<1>1. Limits!Both = {"redis", "local"}  BY DEF Limits!Both
<1>2. Grants = {} /\ hTable \in [Limits!Both -> SUBSET Grants]
  BY <1>1, PacingNumbers DEF Grants
<1>3. GrantsInv
  BY <1>2, NothingIsWithin DEF GrantsInv, Stages
<1>4. PermitsHeld
  <2>1. Holding = {}  BY DEF Holding
  <2>2. Cardinality(Holding) = 0  BY <2>1, FS_EmptySet
  <2>3. hPermits[First] = LimitsPermits  BY <1>1, PacingNumbers
  <2>4. QED  BY <1>1, <2>2, <2>3, PacingNumbers DEF PermitsHeld
<1>5. SendsFollow  BY <1>2 DEF SendsFollow
<1>6. StragglersHold
  <2>1. \A t : HeldOver(t) = {}  BY <1>2 DEF HeldOver
  <2>2. QED  BY <2>1, FS_EmptySet, PacingNumbers DEF StragglersHold
<1>7. QED  BY <1>3, <1>4, <1>5, <1>6 DEF LimitsInv

LEMMA HoldingFinite ==
    /\ IsFiniteSet(Holding) /\ Cardinality(Holding) \in Nat
    /\ \A S : S \subseteq Holding =>
           IsFiniteSet(S) /\ Cardinality(S) \in Nat /\ Cardinality(S) <= Cardinality(Holding)
    /\ \A c : /\ c \notin Holding => Cardinality(Holding \cup {c}) = Cardinality(Holding) + 1
              /\ c \in Holding => Cardinality(Holding \ {c}) = Cardinality(Holding) - 1
<1>1. Holding \in SUBSET Calls  BY DEF Holding
<1>2. IsFiniteSet(Holding)  BY <1>1, FS_Subset, PacingNumbers
<1>3. QED  BY <1>2, FS_Subset, FS_CardinalityType, FS_AddElement, FS_RemoveElement

\* Who holds back a send past t was held there before, or is held now.
LEMMA StragglersStay ==
    ASSUME LimitsInv, GrantsInv', PermitsHeld', SendsFollow',
           hNow' \in {hNow, hNow + 1},
           \A t \in 0..hNow : t < hNow' => HeldOver(t)' \subseteq HeldOver(t)
    PROVE  StragglersHold'
<1> SUFFICES ASSUME NEW t \in 0..hNow' PROVE Cardinality(HeldOver(t)') <= LimitsPermits
  BY DEF StragglersHold
<1>1. hNow \in Nat /\ hNow' \in Nat  BY DEF LimitsInv, GrantsInv
<1>2. CASE t < hNow'
  <2>1. t \in 0..hNow  BY <1>1, <1>2
  <2>2. HeldOver(t)' \subseteq HeldOver(t) /\ Cardinality(HeldOver(t)) <= LimitsPermits
    BY <1>2, <2>1 DEF LimitsInv, StragglersHold
  <2>3. IsFiniteSet(HeldOver(t))
    <3>1. HeldOver(t) \in SUBSET Calls  BY DEF HeldOver
    <3>2. QED  BY <3>1, FS_Subset, PacingNumbers
  <2>4. QED  BY <2>2, <2>3, FS_Subset, FS_CardinalityType, PacingNumbers
<1>3. CASE t = hNow'
  <2>1. HeldOver(t)' \subseteq Holding'
    <3>1. \A e \in hSent' : ~(e.at > t)
      <4> TAKE e \in hSent'
      <4>1. e.at \in Nat /\ e.at <= hNow'  BY DEF SendsFollow
      <4>2. QED  BY <1>1, <1>3, <4>1
    <3>2. QED  BY <3>1 DEF HeldOver, Holding
  <2>2. /\ Cardinality(HeldOver(t)') \in Nat /\ Cardinality(Holding') \in Nat
        /\ Cardinality(HeldOver(t)') <= Cardinality(Holding')
    <3>1. Holding' \in SUBSET Calls  BY DEF Holding
    <3>2. IsFiniteSet(Holding')  BY <3>1, FS_Subset, PacingNumbers
    <3>3. QED  BY <2>1, <3>2, FS_Subset, FS_CardinalityType
  <2>3. /\ hPermits'[First] \in Nat /\ hPermits'[First] + Cardinality(Holding') <= LimitsPermits
    BY PacingNumbers DEF PermitsHeld, Limits!Both
  <2>4. QED  BY <2>2, <2>3, PacingNumbers
<1>4. QED  BY <1>1, <1>2, <1>3

\* A call that goes back to the end, with the permit it had
LEMMA ReleaseKeepsPermits ==
    ASSUME LimitsInv, NEW c \in Calls, Limits!Release(c),
           hPc[c] \in {"limiter", "flight"} \cup LimitsCancelledAt,
           hPc[c] \in {"permit", "slot", "limiter", "flight"}
    PROVE  PermitsHeld'
<1> DEFINE g == IF First = "local" THEN "local" ELSE hMode[c]
<1>1. /\ hPermits' = IF g = "none" THEN hPermits ELSE [hPermits EXCEPT ![g] = @ + 1]
      /\ hMode' = [hMode EXCEPT ![c] = "none"] /\ hPc' = [hPc EXCEPT ![c] = "done"]
  BY DEF Limits!Release, Limits!Goes
<1>2. /\ hPermits \in [Limits!Both -> Nat] /\ hMode \in [Calls -> {"none", First}]
      /\ hPc \in [Calls -> Stages] /\ First \in Limits!Both /\ First # "none"
      /\ hPermits[First] + Cardinality(Holding) <= LimitsPermits
  BY PacingNumbers DEF LimitsInv, GrantsInv, PermitsHeld, Limits!Both
<1>3. Holding' = Holding \ {c}  BY <1>1, <1>2 DEF Holding
<1>4. CASE hPc[c] = "permit"
  <2>1. g = "none"
    BY <1>4, PacingNumbers DEF LimitsInv, PermitsHeld
  <2>2. Holding' = Holding  BY <1>3, <1>4 DEF Holding
  <2>3. hPermits'[First] + Cardinality(Holding') <= LimitsPermits
    BY <1>1, <1>2, <2>1, <2>2
  <2>4. QED  BY <1>1, <1>2, <2>1, <2>3 DEF LimitsInv, PermitsHeld
<1>5. CASE hPc[c] # "permit"
  <2>1. c \in Holding  BY <1>5 DEF Holding
  <2>2. Cardinality(Holding') = Cardinality(Holding) - 1 /\ Cardinality(Holding) \in Nat
    BY <1>3, <2>1, HoldingFinite
  <2>3. g \in {"none", First}  BY <1>2 DEF LimitsInv, PermitsHeld
  <2> HIDE DEF g
  <2>4. /\ hPermits' \in [Limits!Both -> Nat]
        /\ hPermits'[First] \in {hPermits[First], hPermits[First] + 1}
    BY <1>1, <1>2, <2>3
  <2>5. hPermits'[First] + Cardinality(Holding') <= LimitsPermits
    BY <1>2, <2>2, <2>4, PacingNumbers
  <2>6. QED  BY <1>1, <1>2, <2>4, <2>5 DEF LimitsInv, PermitsHeld
<1>6. QED  BY <1>4, <1>5

LEMMA GetsSlotKeeps ==
    ASSUME LimitsInv, NEW c \in Calls, Limits!GetsSlot(c) PROVE LimitsInv'
<1> DEFINE e == [call |-> c, attempt |-> 1, at |-> hNow]
<1>1. /\ Grants' = Grants \cup {e} /\ hTable' = [hTable EXCEPT ![First] = Grants \cup {e}]
      /\ hPc[c] = "slot" /\ hPc' = [hPc EXCEPT ![c] = "limiter"]
      /\ hMode' = [hMode EXCEPT ![c] = First]
      /\ Limits!RequiredWait(Grants, c) = 0
      /\ UNCHANGED <<hNow, hGuard, hAttempt, hPermits, hSent, hOutages>>
  BY PacingNumbers
  DEF LimitsInv, GrantsInv, Grants, Limits!GetsSlot, Limits!Records, Limits!Goes, Limits!Both
<1>2. e.call = c /\ e.at = hNow  OBVIOUS
<1> HIDE DEF e
<1>3. /\ hNow \in Nat /\ hPc \in [Calls -> Stages] /\ First \in Limits!Both
      /\ hTable \in [Limits!Both -> SUBSET Grants]
      /\ Events(Grants, hNow) /\ WithinLimits(Grants, hNow)
  BY PacingNumbers DEF LimitsInv, GrantsInv, Limits!Both
<1>4. Events(Grants \cup {e}, hNow) /\ WithinLimits(Grants \cup {e}, hNow)
  BY <1>1, <1>2, <1>3, SlotHasRoom, OneMoreIsWithin
<1>5. GrantsInv'
  <2>1. hTable' \in [Limits!Both -> SUBSET (Grants')]  BY <1>1, <1>3
  <2>2. QED  BY <1>1, <1>3, <1>4, <2>1 DEF LimitsInv, GrantsInv, Stages
<1>6. PermitsHeld'
  <2>1. Holding' = Holding  BY <1>1, <1>3 DEF Holding
  <2>2. QED  BY <1>1, <1>3, <2>1 DEF LimitsInv, PermitsHeld
<1>7. \A r \in Grants : r.call # c
  BY <1>1 DEF LimitsInv, SendsFollow
<1>8. SendsFollow'
  <2>1. \A d \in hSent : d.call # c  BY <1>1 DEF LimitsInv, SendsFollow
  <2>2. QED  BY <1>1, <1>2, <1>3, <2>1 DEF LimitsInv, SendsFollow
<1>9. ASSUME NEW t \in 0..hNow, t < hNow' PROVE HeldOver(t)' \subseteq HeldOver(t)
  <2>1. ~(e.at <= t)  BY <1>1, <1>2, <1>3, <1>9
  <2>2. QED  BY <1>1, <1>3, <1>7, <2>1 DEF HeldOver
<1>10. StragglersHold'  BY <1>1, <1>5, <1>6, <1>8, <1>9, StragglersStay
<1>11. QED  BY <1>5, <1>6, <1>8, <1>10 DEF LimitsInv

LEMMA SendsRequestKeeps ==
    ASSUME LimitsInv, NEW c \in Calls, Limits!SendsRequest(c) PROVE LimitsInv'
<1> DEFINE e == [call |-> c, attempt |-> 1, at |-> hNow]
<1>1. /\ hPc[c] = "limiter" /\ hPc' = [hPc EXCEPT ![c] = "flight"]
      /\ hSent' = hSent \cup {e} /\ Grants' = Grants
      /\ UNCHANGED <<hNow, hGuard, hMode, hAttempt, hPermits, hTable, hOutages>>
  BY DEF LimitsInv, GrantsInv, Grants, Limits!SendsRequest, Limits!Goes
<1>2. e.call = c /\ e.at = hNow  OBVIOUS
<1> HIDE DEF e
<1>3. hNow \in Nat /\ hPc \in [Calls -> Stages]
  BY DEF LimitsInv, GrantsInv
<1>4. GrantsInv'  BY <1>1, <1>3 DEF LimitsInv, GrantsInv, Stages
<1>5. PermitsHeld'
  <2>1. Holding' = Holding  BY <1>1, <1>3 DEF Holding
  <2>2. QED  BY <1>1, <1>3, <2>1 DEF LimitsInv, PermitsHeld
<1>6. SendsFollow'
  <2>1. \A d \in hSent : d.call # c  BY <1>1 DEF LimitsInv, SendsFollow
  <2>2. \A d \in hSent' : /\ d.call \in Calls /\ d.at \in Nat /\ d.at <= hNow
                          /\ hPc'[d.call] \in {"flight", "done"}
                          /\ \E r \in Grants : r.call = d.call
    BY <1>1, <1>2, <1>3, <2>1 DEF LimitsInv, SendsFollow
  <2>3. \A d, f \in hSent' : d.call = f.call => d = f
    BY <1>1, <1>2, <2>1 DEF LimitsInv, SendsFollow
  <2>4. /\ \A r \in Grants : hPc'[r.call] \in {"limiter", "flight", "done"}
        /\ \A d \in Calls : hPc'[d] = "limiter" => \E r \in Grants : r.call = d
    BY <1>1, <1>3 DEF LimitsInv, SendsFollow
  <2>5. QED  BY <1>1, <2>2, <2>3, <2>4 DEF SendsFollow
<1>7. ASSUME NEW t \in 0..hNow, t < hNow' PROVE HeldOver(t)' \subseteq HeldOver(t)
  BY <1>1, <1>2, <1>3 DEF HeldOver
<1>8. StragglersHold'  BY <1>1, <1>4, <1>5, <1>6, <1>7, StragglersStay
<1>9. QED  BY <1>4, <1>5, <1>6, <1>8 DEF LimitsInv

\* The other steps neither grant nor send, and leave nobody at the limiter.
LEMMA QuietSteps ==
    ASSUME LimitsInv, PermitsHeld', hPc' \in [Calls -> Stages],
           UNCHANGED <<hGuard, hAttempt, hTable, hSent, hOutages>>,
           hNow' \in {hNow, hNow + 1},
           \A c \in Calls :
               /\ hPc'[c] = "limiter" => hPc[c] = "limiter"
               /\ hPc[c] = "limiter" => hPc'[c] \in {"limiter", "done"}
               /\ hPc[c] = "flight" => hPc'[c] \in {"flight", "done"}
               /\ hPc[c] = "done" => hPc'[c] = "done"
    PROVE  LimitsInv'
<1>1. Grants' = Grants  BY DEF Grants
<1>2. hNow \in Nat /\ hNow' \in Nat /\ hNow <= hNow'  BY DEF LimitsInv, GrantsInv
<1>3. GrantsInv'
  <2>1. Events(Grants, hNow') /\ WithinLimits(Grants, hNow')
    <3>1. Events(Grants, hNow')  BY <1>2 DEF LimitsInv, GrantsInv, Events
    <3>2. QED  BY <1>2, <3>1, LaterIsWithin DEF LimitsInv, GrantsInv
  <2>2. QED  BY <1>1, <1>2, <2>1 DEF LimitsInv, GrantsInv
<1>4. SendsFollow'
  <2>1. \A r \in Grants : r.call \in Calls
    BY DEF LimitsInv, GrantsInv, Events
  <2>2. \A e \in hSent : e.at \in Nat /\ e.at <= hNow'
    BY <1>2 DEF LimitsInv, SendsFollow
  <2>3. QED  BY <1>1, <2>1, <2>2 DEF LimitsInv, SendsFollow
<1>5. ASSUME NEW t \in 0..hNow, t < hNow' PROVE HeldOver(t)' \subseteq HeldOver(t)
  BY <1>1 DEF HeldOver
<1>6. StragglersHold'  BY <1>3, <1>4, <1>5, StragglersStay
<1>7. QED  BY <1>3, <1>4, <1>6 DEF LimitsInv

LEMMA TakesPermitKeepsPermits ==
    ASSUME LimitsInv, NEW c \in Calls, Limits!TakesPermit(c) PROVE PermitsHeld'
<1>1. /\ hPc[c] = "permit" /\ hPc' = [hPc EXCEPT ![c] = "slot"]
      /\ hPermits[First] > 0 /\ hPermits' = [hPermits EXCEPT ![First] = @ - 1]
      /\ hMode' = hMode
  BY DEF LimitsInv, GrantsInv, Limits!TakesPermit, Limits!Goes
<1>2. /\ hPermits \in [Limits!Both -> Nat] /\ First \in Limits!Both
      /\ hPc \in [Calls -> Stages]
      /\ hPermits[First] + Cardinality(Holding) <= LimitsPermits
  BY PacingNumbers DEF LimitsInv, GrantsInv, PermitsHeld, Limits!Both
<1>3. Holding' = Holding \cup {c} /\ c \notin Holding  BY <1>1, <1>2 DEF Holding
<1>4. Cardinality(Holding') = Cardinality(Holding) + 1 /\ Cardinality(Holding) \in Nat
  BY <1>3, HoldingFinite
<1>5. hPermits'[First] = hPermits[First] - 1 /\ hPermits' \in [Limits!Both -> Nat]
  BY <1>1, <1>2
<1>6. hPermits'[First] + Cardinality(Holding') <= LimitsPermits
  BY <1>2, <1>4, <1>5, PacingNumbers
<1>7. QED  BY <1>1, <1>2, <1>5, <1>6 DEF LimitsInv, PermitsHeld

LEMMA LimitsKeep == ASSUME LimitsInv, [Limits!Next]_pacingVars PROVE LimitsInv'
<1>0. /\ hPc \in [Calls -> Stages] /\ hNow \in Nat /\ PermitsHeld
      /\ hAttempt = [c \in Calls |-> 1] /\ hOutages = 0
  BY DEF LimitsInv, GrantsInv
<1>1. ASSUME hPc' = hPc, UNCHANGED <<hMode, hPermits>> PROVE PermitsHeld'
  BY <1>0, <1>1 DEF PermitsHeld, Holding
<1>2. CASE Limits!Tick
  BY <1>0, <1>1, <1>2, QuietSteps DEF Limits!Tick
<1>3. ASSUME NEW c \in Calls, Limits!Sleeps(c) PROVE LimitsInv'
  BY <1>0, <1>1, <1>3, QuietSteps DEF Limits!Sleeps
<1>4. ASSUME NEW c \in Calls, Limits!Asks(c) PROVE LimitsInv'
  <2>1. /\ hPc[c] = "idle" /\ hPc' = [hPc EXCEPT ![c] = "permit"]
        /\ UNCHANGED <<hNow, hGuard, hMode, hAttempt, hPermits, hTable, hSent, hOutages>>
    BY <1>4 DEF Limits!Asks, Limits!Goes
  <2>2. hPc' \in [Calls -> Stages]  BY <1>0, <2>1 DEF Stages
  <2>3. Holding' = Holding  BY <1>0, <2>1 DEF Holding
  <2>4. PermitsHeld'  BY <1>0, <2>1, <2>3 DEF PermitsHeld
  <2>5. QED  BY <1>0, <2>1, <2>2, <2>4, QuietSteps
<1>5. ASSUME NEW c \in Calls, Limits!TakesPermit(c) PROVE LimitsInv'
  <2>1. /\ hPc[c] = "permit" /\ hPc' = [hPc EXCEPT ![c] = "slot"]
        /\ UNCHANGED <<hNow, hGuard, hAttempt, hTable, hSent, hOutages>>
    BY <1>5 DEF Limits!TakesPermit, Limits!Goes
  <2>2. hPc' \in [Calls -> Stages]  BY <1>0, <2>1 DEF Stages
  <2>3. PermitsHeld'  BY <1>5, TakesPermitKeepsPermits
  <2>4. QED  BY <1>0, <2>1, <2>2, <2>3, QuietSteps
<1>6. ASSUME NEW c \in Calls, Limits!Ends(c) \/ Limits!Cancelled(c) PROVE LimitsInv'
  <2>1. /\ Limits!Release(c)
        /\ hPc[c] \in {"limiter", "flight"} \cup LimitsCancelledAt
        /\ hPc[c] \in {"permit", "slot", "limiter", "flight"}
        /\ UNCHANGED <<hNow, hGuard, hAttempt, hTable, hSent, hOutages>>
    BY <1>6, PartsAssumption DEF Limits!Ends, Limits!Cancelled, Limits!PacingAssumption
  <2>2. PermitsHeld'  BY <2>1, ReleaseKeepsPermits
  <2>3. hPc' = [hPc EXCEPT ![c] = "done"]  BY <2>1 DEF Limits!Release, Limits!Goes
  <2>4. hPc' \in [Calls -> Stages]  BY <1>0, <2>3 DEF Stages
  <2>5. QED  BY <1>0, <2>1, <2>2, <2>3, <2>4, QuietSteps
<1>7. ASSUME NEW c \in Calls, Limits!FallsBack(c) \/ Limits!Resends(c) PROVE FALSE
  BY <1>0, <1>7 DEF Limits!FallsBack, Limits!Resends
<1>8. CASE UNCHANGED pacingVars
  BY <1>0, <1>1, <1>8, QuietSteps DEF pacingVars
<1>9. QED
  BY <1>2, <1>3, <1>4, <1>5, <1>6, <1>7, <1>8, GetsSlotKeeps, SendsRequestKeeps
     DEF Limits!Next

(* What IBKR counts stays within its three limits, but for the requests that the
   message limiter held back, which are never more than the permits: for any
   calls, series and weights, any pacing parameters, any delay at the limiter
   and any moment a caller is cancelled at once it waits for its slot, as long
   as nothing is sent again and Redis answers (acquire, _required_wait_seconds,
   with_retry). *)
THEOREM PacingIsKept == SuiteSpec => []PacingKept
<1> DEFINE I == part = "limits" => LimitsInv
<1>1. SuiteInit => I  BY LimitsStart DEF SuiteInit
<1>2. I /\ [SuiteNext]_<<part, rateVars, pacingVars, feedVars, rangeVars>> => I'
  <2> SUFFICES ASSUME I, [SuiteNext]_<<part, rateVars, pacingVars, feedVars, rangeVars>>
               PROVE  I'
    OBVIOUS
  <2>1. part' = part
    BY DEF SuiteNext, RateSuite, LimitsSuite, PoolSuite, FeedSuite, RangeSuite
  <2>2. part = "limits" => [Limits!Next]_pacingVars
    BY DEF SuiteNext, RateSuite, LimitsSuite, PoolSuite, FeedSuite, RangeSuite
  <2>3. QED  BY <2>1, <2>2, LimitsKeep
<1>3. I => PacingKept  BY PacingIsWithin DEF PacingKept
<1>4. QED  BY <1>1, <1>2, <1>3, PTL DEF SuiteSpec

-----------------------------------------------------------------------------
\* HistoricalPacing: the permits.

Holders(g) == {c \in Calls : hPc[c] \in {"slot", "limiter", "flight"} /\ hGuard[c] = g}

\* Once it has its slot, a call knows which semaphore its permit is of.
PoolInv ==
    /\ hPc \in [Calls -> Stages]
    /\ hGuard \in [Calls -> Pool!Both] /\ hMode \in [Calls -> Pool!Both \cup {"none"}]
    /\ hPermits \in [Pool!Both -> Nat]
    /\ \A c \in Calls : hPc[c] \in {"limiter", "flight"} => hMode[c] = hGuard[c]
    /\ First = "local" => \A c \in Calls : hGuard[c] = "local"
    /\ \A g \in Pool!Both : hPermits[g] + Cardinality(Holders(g)) = PoolPermits

LEMMA HoldersFinite ==
    \A g : /\ IsFiniteSet(Holders(g)) /\ Cardinality(Holders(g)) \in Nat
           /\ \A c : /\ Cardinality(Holders(g) \cup {c})
                          = IF c \in Holders(g) THEN Cardinality(Holders(g))
                            ELSE Cardinality(Holders(g)) + 1
                     /\ Cardinality(Holders(g) \ {c})
                          = IF c \in Holders(g) THEN Cardinality(Holders(g)) - 1
                            ELSE Cardinality(Holders(g))
<1> TAKE g
<1>1. Holders(g) \in SUBSET Calls  BY DEF Holders
<1>2. IsFiniteSet(Holders(g))  BY <1>1, FS_Subset, PacingNumbers
<1>3. QED  BY <1>2, FS_CardinalityType, FS_AddElement, FS_RemoveElement

LEMMA PoolStarts == ASSUME Pool!Init PROVE PoolInv
<1> USE DEF Pool!Init, PoolInv, Stages
<1>1. \A g : Holders(g) = {}  BY DEF Holders
<1>2. Cardinality({}) = 0  BY FS_EmptySet
<1>3. QED  BY <1>1, <1>2, PacingNumbers DEF Pool!Both

\* A call takes a permit, or gives it back, and no other call is touched.
LEMMA PermitTaken ==
    ASSUME PoolInv, NEW c \in Calls, Pool!TakesPermit(c) PROVE PoolInv'
<1> USE DEF PoolInv, Stages
<1>0. PICK h \in Pool!Both : h = hGuard[c]  OBVIOUS
<1>1. /\ hPc[c] = "permit" /\ hPermits[h] > 0 /\ hPc' = [hPc EXCEPT ![c] = "slot"]
      /\ hPermits' = [hPermits EXCEPT ![h] = @ - 1]
      /\ UNCHANGED <<hGuard, hMode>> /\ h \in Pool!Both
  BY <1>0 DEF Pool!TakesPermit, Pool!Goes
<1>2. Holders(h)' = Holders(h) \cup {c} /\ c \notin Holders(h)
  BY <1>0, <1>1 DEF Holders
<1>3. \A g \in Pool!Both : g # h => Holders(g)' = Holders(g)
  BY <1>0, <1>1 DEF Holders
<1>4. hPermits' \in [Pool!Both -> Nat] /\ hPermits'[h] = hPermits[h] - 1
      /\ \A g \in Pool!Both : g # h => hPermits'[g] = hPermits[g]
  BY <1>1
<1>5. \A g \in Pool!Both : hPermits'[g] + Cardinality(Holders(g)') = PoolPermits
  <2> SUFFICES ASSUME NEW g \in Pool!Both
               PROVE  hPermits'[g] + Cardinality(Holders(g)') = PoolPermits
    OBVIOUS
  <2>1. CASE g # h  BY <1>3, <1>4, <2>1
  <2>2. CASE g = h
    <3>1. Cardinality(Holders(h)') = Cardinality(Holders(h)) + 1
          /\ Cardinality(Holders(h)) \in Nat
      BY <1>2, HoldersFinite
    <3>2. hPermits[h] + Cardinality(Holders(h)) = PoolPermits /\ hPermits[h] \in Nat
      BY <1>1
    <3>3. hPermits'[h] + Cardinality(Holders(h)') = PoolPermits
      BY <1>4, <3>1, <3>2, PacingNumbers
    <3>4. QED  BY <2>2, <3>3
  <2>3. QED  BY <2>1, <2>2
<1>6. QED  BY <1>1, <1>4, <1>5

LEMMA PermitGiven ==
    ASSUME PoolInv, NEW c \in Calls, NEW h \in Pool!Both, c \in Holders(h),
           hPermits' = [hPermits EXCEPT ![h] = @ + 1],
           NEW pc \in {"permit", "done"}, hPc' = [hPc EXCEPT ![c] = pc],
           \A d \in Calls : d # c => hGuard'[d] = hGuard[d] /\ hMode'[d] = hMode[d],
           hGuard' \in [Calls -> Pool!Both], hMode' \in [Calls -> Pool!Both \cup {"none"}],
           First = "local" => hGuard'[c] = "local"
    PROVE  PoolInv'
<1> USE DEF PoolInv, Stages
<1>1. Holders(h)' = Holders(h) \ {c}  BY DEF Holders
<1>2. \A g \in Pool!Both : g # h => Holders(g)' = Holders(g)  BY DEF Holders
<1>3. hPermits' \in [Pool!Both -> Nat] /\ hPermits'[h] = hPermits[h] + 1
      /\ \A g \in Pool!Both : g # h => hPermits'[g] = hPermits[g]
  OBVIOUS
<1>4. \A g \in Pool!Both : hPermits'[g] + Cardinality(Holders(g)') = PoolPermits
  <2> SUFFICES ASSUME NEW g \in Pool!Both
               PROVE  hPermits'[g] + Cardinality(Holders(g)') = PoolPermits
    OBVIOUS
  <2>1. CASE g # h  BY <1>2, <1>3, <2>1
  <2>2. CASE g = h
    <3>1. Cardinality(Holders(h)') = Cardinality(Holders(h)) - 1
          /\ Cardinality(Holders(h)) \in Nat
      BY <1>1, HoldersFinite
    <3>2. hPermits[h] + Cardinality(Holders(h)) = PoolPermits /\ hPermits[h] \in Nat
      OBVIOUS
    <3>3. hPermits'[h] + Cardinality(Holders(h)') = PoolPermits
      BY <1>3, <3>1, <3>2, PacingNumbers
    <3>4. QED  BY <2>2, <3>3
  <2>3. QED  BY <2>1, <2>2
<1>5. hPc' \in [Calls -> Stages]
      /\ hPc'[c] \notin {"limiter", "flight"} /\ \A d \in Calls : d # c => hPc'[d] = hPc[d]
  OBVIOUS
<1>6. /\ \A d \in Calls : hPc'[d] \in {"limiter", "flight"} => hMode'[d] = hGuard'[d]
      /\ First = "local" => \A d \in Calls : hGuard'[d] = "local"
  BY <1>5
<1>7. QED  BY <1>3, <1>4, <1>5, <1>6

\* The other steps leave every call with the permit it has.
LEMMA PermitsStay ==
    ASSUME PoolInv, UNCHANGED <<hGuard, hPermits>>,
           hPc' \in [Calls -> Stages],
           hMode' \in [Calls -> Pool!Both \cup {"none"}],
           \A c \in Calls :
               /\ hPc'[c] \in {"slot", "limiter", "flight"}
                     <=> hPc[c] \in {"slot", "limiter", "flight"}
               /\ hPc'[c] \in {"limiter", "flight"} => hMode'[c] = hGuard[c]
    PROVE  PoolInv'
<1>1. \A g : Holders(g)' = Holders(g)  BY DEF Holders
<1>2. QED  BY <1>1 DEF PoolInv

LEMMA PoolKeeps == ASSUME PoolInv, [Pool!Next]_pacingVars PROVE PoolInv'
<1> USE DEF PoolInv, Pool!Goes, Stages
<1>1. ASSUME NEW c \in Calls, Pool!FallsBack(c) PROVE PoolInv'
  <2>1. c \in Holders("redis") /\ First # "local" /\ {"redis", "local"} = Pool!Both
    BY <1>1 DEF Pool!FallsBack, Holders, Pool!Both
  <2>2. QED  BY <1>1, <2>1, PermitGiven DEF Pool!FallsBack, Pool!GivesPermitBack
<1>2. ASSUME NEW c \in Calls, hPc[c] \in {"limiter", "flight"}, Pool!Release(c), hGuard' = hGuard
      PROVE  PoolInv'
  <2> DEFINE g == IF First = "local" THEN "local" ELSE hMode[c]
  <2>1. g = hGuard[c] /\ hGuard[c] \in Pool!Both /\ "none" \notin Pool!Both
    BY <1>2 DEF Pool!Both
  <2>2. hPermits' = [hPermits EXCEPT ![hGuard[c]] = @ + 1]
    BY <1>2, <2>1 DEF Pool!Release
  <2>3. c \in Holders(hGuard[c])  BY <1>2 DEF Holders
  <2>4. hPc' = [hPc EXCEPT ![c] = "done"] /\ hMode' = [hMode EXCEPT ![c] = "none"]
    BY <1>2 DEF Pool!Release
  <2>5. QED  BY <1>2, <2>1, <2>2, <2>3, <2>4, PermitGiven
<1>3. ASSUME NEW c \in Calls, Pool!Ends(c) \/ Pool!Cancelled(c) PROVE PoolInv'
  BY <1>2, <1>3 DEF Pool!Ends, Pool!Cancelled
<1>4. ASSUME NEW c \in Calls,
             \/ Pool!Asks(c) \/ Pool!GetsSlot(c) \/ Pool!Sleeps(c)
             \/ Pool!SendsRequest(c) \/ Pool!Resends(c)
      PROVE  PoolInv'
  BY <1>4, PermitsStay
     DEF Pool!Asks, Pool!GetsSlot, Pool!Sleeps, Pool!SendsRequest, Pool!Resends
<1>5. CASE Pool!Tick \/ UNCHANGED pacingVars
  BY <1>5, PermitsStay DEF Pool!Tick, pacingVars
<1>6. QED  BY <1>1, <1>3, <1>4, <1>5, PermitTaken DEF Pool!Next

(* A permit is free or held by a call that waits for its slot or for the message
   limiter or is in flight: for any calls and permits, any retries and Redis
   failures and either guard, as long as callers are cancelled only once they
   have their slot (acquire, release). *)
THEOREM PermitsAreConserved == SuiteSpec => []PermitsConserved
<1> DEFINE I == part = "pool" => PoolInv
<1>1. SuiteInit => I  BY PoolStarts DEF SuiteInit
<1>2. I /\ [SuiteNext]_<<part, rateVars, pacingVars, feedVars, rangeVars>> => I'
  <2> SUFFICES ASSUME I, [SuiteNext]_<<part, rateVars, pacingVars, feedVars, rangeVars>>
               PROVE  I'
    OBVIOUS
  <2>1. part' = part
    BY DEF SuiteNext, RateSuite, LimitsSuite, PoolSuite, FeedSuite, RangeSuite
  <2>2. part = "pool" => [Pool!Next]_pacingVars
    BY DEF SuiteNext, RateSuite, LimitsSuite, PoolSuite, FeedSuite, RangeSuite
  <2>3. QED  BY <2>1, <2>2, PoolKeeps
<1>3. I => PermitsConserved
  BY Counting DEF PermitsConserved, Pool!PermitsConserved, PoolInv, Holders
<1>4. QED  BY <1>1, <1>2, <1>3, PTL DEF SuiteSpec
-----------------------------------------------------------------------------
\* FeedRequests.  Every method is a sequence of plain steps, or registers the
\* tickers it hands out.

PlainSteps ==
    {"connect", "session", "check", "call", "call?", "ask", "more", "raise",
     "permit", "line", "slot", "send", "wait", "tidy"}
Careless == {"none", "bounded", "sync"}

\* A session is captured only by a method whose last step compares it.
PlainMethod(d) ==
    /\ d.steps \in Seq(PlainSteps)
    /\ d.care \in Careless => d.steps \in Seq(PlainSteps \ {"line"})
    /\ \/ d.steps \in Seq(PlainSteps \ {"session"})
       \/ /\ d.steps \in Seq(PlainSteps \ {"more"})
          /\ d.steps[Len(d.steps)] = "check"

\* The steps at which a line is leased and its subscription not yet sent.
Unsent == {"slot", "check", "send", "check?", "send?"}
RegisteredSteps == Unsent \cup {"session", "line", "wait", "keep"}

RegisteredMethod(d) ==
    /\ d.steps \in Seq(RegisteredSteps)
    /\ \/ d.care = "retained"
       \/ d.care = "ticker" /\ \A i \in 1..Len(d.steps) : d.steps[i] \notin {"check?", "send?"}
    /\ d.steps[1] = "session"
    /\ \A i \in 1..Len(d.steps) :
          /\ d.steps[i] = "keep" <=> i = Len(d.steps)
          /\ i > 1 => d.steps[i] # "session"
    /\ \A i \in 1..(Len(d.steps) - 1) :
          /\ d.steps[i + 1] \in Unsent
                <=> d.steps[i] \in {"line", "slot", "check", "check?"}
          /\ d.steps[i] = "check?" => d.steps[i + 1] = "send?"

Shape(d) ==
    /\ Len(d.steps) \in Nat \ {0}
    /\ d.care \in Feed!Care
    /\ PlainMethod(d) \/ RegisteredMethod(d)

\* A sequence repeated.
LEMMA TimesShape ==
    ASSUME NEW S, NEW n \in Nat \ {0}, NEW s \in Seq(S), Len(s) > 0
    PROVE  /\ Times(n, s) \in Seq(S)
           /\ Len(Times(n, s)) = n * Len(s)
           /\ Len(Times(n, s)) > 0
           /\ \A i \in 1..(n * Len(s)) : Times(n, s)[i] = s[1 + ((i - 1) % Len(s))]
<1> DEFINE l == Len(s)
<1>1. l \in Nat \ {0} OBVIOUS
<1>2. n * l \in Nat \ {0} BY <1>1
<1>3. ASSUME NEW i \in 1..(n * l) PROVE s[1 + ((i - 1) % l)] \in S
  <2>1. i - 1 \in Nat BY <1>2
  <2>2. (i - 1) % l \in 0..(l - 1) BY <1>1, <2>1
  <2> QED BY <1>1, <2>2
<1>4. Times(n, s) = [i \in 1..(n * l) |-> s[1 + ((i - 1) % l)]] BY DEF Times
<1> HIDE DEF l
<1> DEFINE L == n * l
<1>5. L \in Nat \ {0} BY <1>2
<1> HIDE DEF L
<1>6. Times(n, s) = [i \in 1..L |-> s[1 + ((i - 1) % l)]] BY <1>4 DEF L
<1>7. \A i \in 1..L : s[1 + ((i - 1) % l)] \in S BY <1>3 DEF L
<1>8. Times(n, s) \in Seq(S) /\ Len(Times(n, s)) = L BY <1>5, <1>6, <1>7
<1> QED BY <1>5, <1>6, <1>8 DEF L, l

\* One sequence after another.
LEMMA ConcatShape ==
    ASSUME NEW S, NEW s \in Seq(S), NEW t \in Seq(S)
    PROVE  /\ s \o t \in Seq(S)
           /\ Len(s \o t) = Len(s) + Len(t)
           /\ \A i \in 1..Len(s) : (s \o t)[i] = s[i]
           /\ \A i \in 1..Len(t) : (s \o t)[Len(s) + i] = t[i]
OBVIOUS

LEMMA QualifyShape ==
    /\ QualifyContract.steps \in Seq(PlainSteps \ {"line", "session", "more"})
    /\ Len(QualifyContract.steps) = 3
    /\ QualifyContract.care = "none"
BY DEF QualifyContract, Plain, PlainSteps

\* The short methods.
LEMMA ShortShapes ==
    /\ Shape(OneCall) /\ Shape(SessionCall)
    /\ Shape(QualifyContract)
    /\ Shape(LoadPortfolioItems) /\ Shape(LoadPnLSnapshot)
    /\ Shape(LoadWSHEventData) /\ Shape(LoadHistogramData)
    /\ Shape(LoadHeadTimestamp) /\ Shape(SetMarketDataType)
    /\ Shape(GetNewsBulletins)
<1> USE DEF Shape, PlainMethod, PlainSteps, Careless, Feed!Care, Plain
<1>1. Shape(OneCall) BY DEF OneCall
<1>2. Shape(SessionCall) BY DEF SessionCall
<1>3. Shape(QualifyContract) BY DEF QualifyContract
<1>4. Shape(LoadPortfolioItems) BY DEF LoadPortfolioItems
<1>5. Shape(LoadPnLSnapshot) BY DEF LoadPnLSnapshot
<1>6. Shape(LoadWSHEventData) BY DEF LoadWSHEventData
<1>7. Shape(LoadHistogramData) BY DEF LoadHistogramData
<1>8. Shape(LoadHeadTimestamp) BY DEF LoadHeadTimestamp
<1>9. Shape(SetMarketDataType) BY DEF SetMarketDataType
<1>10. Shape(GetNewsBulletins) BY DEF GetNewsBulletins
<1> QED BY <1>1, <1>2, <1>3, <1>4, <1>5, <1>6, <1>7, <1>8, <1>9, <1>10

LEMMA Wider ==
    ASSUME NEW S, NEW T, S \subseteq T, NEW s \in Seq(S) PROVE s \in Seq(T)
<1>1. s = [i \in 1..Len(s) |-> s[i]] /\ \A i \in 1..Len(s) : s[i] \in T OBVIOUS
<1> QED BY <1>1

\* A method that captures no session, and one that compares it at the end.
LEMMA NoSessionShape ==
    ASSUME NEW d, d.care \in Feed!Care, Len(d.steps) \in Nat \ {0},
           d.steps \in Seq(PlainSteps \ {"session"}),
           d.care \in Careless => d.steps \in Seq(PlainSteps \ {"session", "line"})
    PROVE  Shape(d)
<1>1. d.steps \in Seq(PlainSteps) BY Wider
<1>2. d.care \in Careless => d.steps \in Seq(PlainSteps \ {"line"}) BY Wider
<1> QED BY <1>1, <1>2 DEF Shape, PlainMethod

LEMMA CheckedShape ==
    ASSUME NEW c \in Feed!Care,
           NEW s \in Seq(PlainSteps \ {"more"}), NEW t \in Seq(PlainSteps \ {"more"}),
           Len(t) > 0, t[Len(t)] = "check",
           c \in Careless => s \o t \in Seq(PlainSteps \ {"line", "more"})
    PROVE  Shape([steps |-> s \o t, care |-> c])
<1>1. /\ s \o t \in Seq(PlainSteps \ {"more"}) /\ Len(s \o t) = Len(s) + Len(t)
      /\ (s \o t)[Len(s \o t)] = "check"
  BY ConcatShape
<1>2. s \o t \in Seq(PlainSteps) BY <1>1, Wider
<1>3. c \in Careless => s \o t \in Seq(PlainSteps \ {"line"}) BY Wider
<1>4. Len(s \o t) \in Nat \ {0} BY <1>1
<1> QED BY <1>1, <1>2, <1>3, <1>4 DEF Shape, PlainMethod

LEMMA LongShapes ==
    /\ Shape(LoadTradingSchedule) /\ Shape(LoadBondYieldHistory)
    /\ Shape(LoadHistoricalTicks) /\ Shape(LoadOptionChains)
    /\ Shape(LoadOptionAnalytics) /\ Shape(CaptureFXOptionSnapshots)
    /\ Shape(LoadUnderlyingSnapshotPrice) /\ Shape(UnqualifiedOptionError)
    /\ Shape(LoadMarketDepthSnapshot) /\ Shape(EquityReference)
    /\ Shape(SubscribeRealtimeBars)
<1> DEFINE Bare == PlainSteps \ {"session", "line"}
           Free == PlainSteps \ {"session"}
           Calm == PlainSteps \ {"more"}
<1>0. Rounds \in Nat \ {0} BY PartsAssumption DEF Feed!FeedAssumption
<1>1. ASSUME NEW s \in Seq(Bare), Len(s) > 0 PROVE Shape(Plain(s))
  <2>1. s \in Seq(Free) /\ Len(s) \in Nat \ {0} BY <1>1, Wider
  <2> QED BY <1>1, <2>1, NoSessionShape DEF Plain, Feed!Care
<1>2. ASSUME NEW s \in Seq(Free), Len(s) > 0
      PROVE Shape([steps |-> s, care |-> "late"])
  <2>1. Len(s) \in Nat \ {0} BY <1>2
  <2> QED BY <1>2, <2>1, NoSessionShape DEF Feed!Care, Careless
<1>3. /\ QualifyContract.steps \in Seq(Bare) /\ QualifyContract.steps \in Seq(Free)
      /\ QualifyContract.steps \in Seq(Calm) /\ Len(QualifyContract.steps) = 3
  BY QualifyShape, Wider
<1>4. OptionLine \in Seq(Free) /\ Len(OptionLine) = 4
  BY DEF OptionLine, PlainSteps
<1> HIDE DEF Bare, Free, Calm
<1>5. /\ \A n \in Nat \ {0}, s \in Seq(Bare) :
            Len(s) > 0 => Times(n, s) \in Seq(Bare) /\ Len(Times(n, s)) > 0
      /\ \A n \in Nat \ {0}, s \in Seq(Free) :
            Len(s) > 0 => Times(n, s) \in Seq(Free) /\ Len(Times(n, s)) > 0
  BY TimesShape
<1>17. /\ \A s, t \in Seq(Bare) : s \o t \in Seq(Bare) /\ (Len(t) > 0 => Len(s \o t) > 0)
      /\ \A s, t \in Seq(Free) : s \o t \in Seq(Free) /\ (Len(t) > 0 => Len(s \o t) > 0)
  BY ConcatShape
<1>6. Shape(LoadTradingSchedule)
  <2>1. <<"call">> \in Seq(Bare) /\ Len(<<"call">>) > 0 BY DEF Bare, PlainSteps
  <2> QED BY <1>1, <1>3, <1>17, <2>1 DEF LoadTradingSchedule
<1>7. Shape(LoadBondYieldHistory)
  <2> DEFINE t == Times(Rounds, <<"permit", "call">>)
  <2>1. <<"permit", "call">> \in Seq(Bare) /\ Len(<<"permit", "call">>) > 0
    BY DEF Bare, PlainSteps
  <2>2. t \in Seq(Bare) /\ Len(t) > 0 BY <1>0, <1>5, <2>1
  <2> HIDE DEF t
  <2>3. /\ QualifyContract.steps \o t \in Seq(Bare)
        /\ Len(QualifyContract.steps \o t) > 0
    BY <1>3, <1>17, <2>2
  <2> QED BY <1>1, <2>3 DEF LoadBondYieldHistory, t
<1>8. Shape(LoadHistoricalTicks)
  <2> DEFINE s == <<"connect">>
             t == Times(Rounds, <<"permit", "call", "more">>)
  <2>1. /\ <<"permit", "call", "more">> \in Seq(Bare)
        /\ Len(<<"permit", "call", "more">>) > 0 /\ s \in Seq(Bare)
    BY DEF Bare, PlainSteps
  <2>2. t \in Seq(Bare) /\ Len(t) > 0 BY <1>0, <1>5, <2>1
  <2> HIDE DEF s, t
  <2>3. s \o t \in Seq(Bare) /\ Len(s \o t) > 0 BY <1>17, <2>1, <2>2
  <2> QED BY <1>1, <2>3 DEF LoadHistoricalTicks, s, t
<1>9. Shape(LoadOptionChains)
  <2> DEFINE s == <<"connect">> \o QualifyContract.steps
             t == <<"call">>
  <2>1. <<"connect">> \in Seq(Bare) /\ t \in Seq(Bare) /\ Len(t) > 0
    BY DEF Bare, PlainSteps
  <2>2. s \in Seq(Bare) BY <1>3, <1>17, <2>1
  <2> HIDE DEF s, t
  <2>3. s \o t \in Seq(Bare) /\ Len(s \o t) > 0 BY <1>17, <2>1, <2>2
  <2> QED BY <1>1, <2>3 DEF LoadOptionChains, s, t
<1>10. Shape(UnqualifiedOptionError)
  <2> DEFINE s == <<"connect", "call">> \o Times(2, <<"ask", "more">>)
             t == <<"raise">>
  <2>1. /\ <<"ask", "more">> \in Seq(Bare) /\ Len(<<"ask", "more">>) > 0
        /\ <<"connect", "call">> \in Seq(Bare) /\ t \in Seq(Bare) /\ Len(t) > 0
    BY DEF Bare, PlainSteps
  <2>2. Times(2, <<"ask", "more">>) \in Seq(Bare)
    <3>1. 2 \in Nat \ {0} OBVIOUS
    <3> QED BY <1>5, <2>1, <3>1
  <2>3. s \in Seq(Bare) BY <1>17, <2>1, <2>2
  <2> HIDE DEF s, t
  <2>4. s \o t \in Seq(Bare) /\ Len(s \o t) > 0 BY <1>17, <2>1, <2>3
  <2> QED BY <1>1, <2>4 DEF UnqualifiedOptionError, s, t
<1>11. Shape(LoadOptionAnalytics)
  <2> DEFINE s == <<"connect", "call">>
  <2>1. s \in Seq(Free) BY DEF Free, PlainSteps
  <2> HIDE DEF s
  <2>2. s \o OptionLine \in Seq(Free) /\ Len(s \o OptionLine) > 0
    BY <1>4, <1>17, <2>1
  <2> QED BY <1>2, <2>2 DEF LoadOptionAnalytics, s
<1>12. Shape(CaptureFXOptionSnapshots)
  <2> DEFINE c == <<"connect">>
             s == <<"call">> \o OptionLine \o <<"tidy">>
             t == Times(Rounds, s)
  <2>1. /\ c \in Seq(Free) /\ <<"call">> \in Seq(Free) /\ <<"tidy">> \in Seq(Free)
        /\ Len(<<"tidy">>) > 0
    BY DEF Free, PlainSteps
  <2>2. s \in Seq(Free) /\ Len(s) > 0 BY <1>4, <1>17, <2>1
  <2> HIDE DEF c, s
  <2>3. t \in Seq(Free) /\ Len(t) > 0 BY <1>0, <1>5, <2>2
  <2> HIDE DEF t
  <2>4. c \o t \in Seq(Free) /\ Len(c \o t) > 0 BY <1>17, <2>1, <2>3
  <2> QED BY <1>2, <2>4 DEF CaptureFXOptionSnapshots, s, t, c
<1>13. Shape(LoadUnderlyingSnapshotPrice)
  <2> DEFINE s == QualifyContract.steps
  <2>1. s \in Seq(Free) /\ OptionLine \in Seq(Free) /\ Len(OptionLine) > 0
    BY <1>3, <1>4
  <2> HIDE DEF s
  <2>2. s \o OptionLine \in Seq(Free) /\ Len(s \o OptionLine) > 0
    BY <1>17, <2>1
  <2> QED BY <1>2, <2>2 DEF LoadUnderlyingSnapshotPrice, s
<1>14. Shape(LoadMarketDepthSnapshot)
  <2> DEFINE t == <<"session", "line", "slot", "check", "send", "wait", "check">>
  <2>1. t \in Seq(Calm) /\ Len(t) > 0 /\ t[Len(t)] = "check" BY DEF Calm, PlainSteps
  <2>2. LoadMarketDepthSnapshot
          = [steps |-> QualifyContract.steps \o t, care |-> "depth"]
    BY DEF LoadMarketDepthSnapshot
  <2>3. "depth" \in Feed!Care /\ "depth" \notin Careless BY DEF Feed!Care, Careless
  <2> HIDE DEF t
  <2>4. Shape([steps |-> QualifyContract.steps \o t, care |-> "depth"])
    BY <1>3, <2>1, <2>3, CheckedShape DEF Calm
  <2> QED BY <2>2, <2>4
<1>15. Shape(EquityReference)
  <2> DEFINE s == <<"session">> \o QualifyContract.steps
             t == <<"check", "line", "slot", "check", "send", "wait", "tidy", "check">>
  <2>1. t \in Seq(Calm) /\ Len(t) > 0 /\ t[Len(t)] = "check" BY DEF Calm, PlainSteps
  <2>2. <<"session">> \in Seq(Calm) BY DEF Calm, PlainSteps
  <2>3. s \in Seq(Calm) BY <1>3, <2>2, ConcatShape
  <2>4. EquityReference = [steps |-> s \o t, care |-> "retained"]
    BY DEF EquityReference
  <2>5. "retained" \in Feed!Care /\ "retained" \notin Careless BY DEF Feed!Care, Careless
  <2> HIDE DEF s, t
  <2>6. Shape([steps |-> s \o t, care |-> "retained"])
    BY <2>1, <2>3, <2>5, CheckedShape DEF Calm
  <2> QED BY <2>4, <2>6
<1>16. Shape(SubscribeRealtimeBars)
  <2> DEFINE Mild == PlainSteps \ {"line", "more"}
             a == <<"session", "slot", "check", "send">>
             b == <<"check", "wait">>
             c == <<"check">>
  <2>1. a \in Seq(Mild) /\ b \in Seq(Mild) /\ c \in Seq(Mild)
        /\ Len(b) > 0 /\ Len(c) > 0 /\ c[Len(c)] = "check"
    BY DEF PlainSteps
  <2> HIDE DEF a, b, c, Mild
  <2>2. Times(Rounds, b) \in Seq(Mild) BY <1>0, <2>1, TimesShape
  <2>3. a \o Times(Rounds, b) \in Seq(Mild) BY <2>1, <2>2, ConcatShape
  <2>4. a \o Times(Rounds, b) \o c \in Seq(Mild) BY <2>1, <2>3, ConcatShape
  <2>5. a \o Times(Rounds, b) \in Seq(Calm) /\ c \in Seq(Calm)
    BY <2>1, <2>3, Wider DEF Mild, Calm
  <2>6. SubscribeRealtimeBars
          = [steps |-> a \o Times(Rounds, b) \o c, care |-> "sync"]
    BY DEF SubscribeRealtimeBars, a, b, c
  <2>7. "sync" \in Feed!Care BY DEF Feed!Care
  <2> DEFINE d == a \o Times(Rounds, b)
  <2> HIDE DEF d
  <2>8. Shape([steps |-> d \o c, care |-> "sync"])
    BY <2>1, <2>4, <2>5, <2>7, CheckedShape DEF Calm, Mild, d
  <2> QED BY <2>6, <2>8 DEF d
<1> HIDE DEF Shape
<1> QED BY <1>6, <1>7, <1>8, <1>9, <1>10, <1>11, <1>12, <1>13, <1>14, <1>15, <1>16

\* The two that register.
LEMMA RegisteredShapes ==
    Shape(SubscribeTicker) /\ Shape(CaptureEquitySnapshots)
<1>0. Rounds \in Nat \ {0} BY PartsAssumption DEF Feed!FeedAssumption
<1>1. Shape(SubscribeTicker)
  <2> DEFINE s == SubscribeTicker.steps
  <2>1. s = <<"session", "line", "slot", "check", "send", "wait", "keep">>
        /\ SubscribeTicker.care = "ticker"
    BY DEF SubscribeTicker
  <2>2. RegisteredMethod(SubscribeTicker)
    BY <2>1 DEF RegisteredMethod, RegisteredSteps, Unsent
  <2> QED BY <2>1, <2>2 DEF Shape, Feed!Care
<1>2. Shape(CaptureEquitySnapshots)
  <2> DEFINE u == <<"line", "slot", "check?", "send?">>
             v == Times(Rounds, u)
             s == <<"session">> \o v \o <<"wait", "keep">>
             L == 4 * Rounds
             S == RegisteredSteps
  <2>1. u \in Seq(S) /\ Len(u) = 4 BY DEF RegisteredSteps, Unsent
  <2>2. /\ v \in Seq(S) /\ Len(v) = L
        /\ \A i \in 1..L : v[i] = u[1 + ((i - 1) % 4)]
    <3>1. Len(u) > 0 /\ Rounds * Len(u) = L BY <1>0, <2>1
    <3> HIDE DEF u, L, S
    <3>2. /\ v \in Seq(S) /\ Len(v) = Rounds * Len(u)
          /\ \A i \in 1..(Rounds * Len(u)) : v[i] = u[1 + ((i - 1) % Len(u))]
      BY <1>0, <2>1, <3>1, TimesShape
    <3> QED BY <2>1, <3>1, <3>2
  <2>3. L \in Nat /\ L > 0 BY <1>0
  <2> HIDE DEF v, L
  <2>4. /\ <<"session">> \in Seq(S) /\ <<"wait", "keep">> \in Seq(S)
        /\ Len(<<"session">>) = 1 /\ Len(<<"wait", "keep">>) = 2
    BY DEF RegisteredSteps, Unsent
  <2> HIDE DEF S
  <2>5. /\ <<"session">> \o v \in Seq(S) /\ Len(<<"session">> \o v) = L + 1
        /\ (<<"session">> \o v)[1] = "session"
        /\ \A i \in 1..L : (<<"session">> \o v)[1 + i] = v[i]
    BY <2>2, <2>3, <2>4, ConcatShape
  <2>6. /\ s \in Seq(S) /\ Len(s) = L + 3 /\ s[1] = "session"
        /\ \A i \in 1..L : s[1 + i] = v[i]
        /\ s[L + 2] = "wait" /\ s[L + 3] = "keep"
    <3> DEFINE w == <<"session">> \o v
               x == <<"wait", "keep">>
    <3>1. x[1] = "wait" /\ x[2] = "keep" OBVIOUS
    <3>2. Len(w) = L + 1 /\ Len(x) = 2 BY <2>4, <2>5
    <3> HIDE DEF w, x
    <3>3. /\ w \o x \in Seq(S) /\ Len(w \o x) = L + 3
          /\ \A i \in 1..(L + 1) : (w \o x)[i] = w[i]
          /\ (w \o x)[L + 1 + 1] = x[1] /\ (w \o x)[L + 1 + 2] = x[2]
      BY <2>3, <2>4, <2>5, <3>2, ConcatShape DEF w, x
    <3>4. s = w \o x BY DEF w, x
    <3> HIDE DEF s
    <3>5. \A i \in 1..L : 1 + i \in 1..(L + 1) /\ w[1 + i] = v[i]
      BY <2>3, <2>5 DEF w
    <3>6. L + 1 + 1 = L + 2 /\ L + 1 + 2 = L + 3 /\ 1 \in 1..(L + 1) BY <2>3
    <3>7. w[1] = "session" BY <2>5 DEF w
    <3> QED BY <3>1, <3>3, <3>4, <3>5, <3>6, <3>7
  <2> HIDE DEF s
  <2>7. ASSUME NEW i \in 1..L PROVE
          /\ s[1 + i] \in {"line", "slot", "check?", "send?"}
          /\ s[1 + i] = "line" <=> i % 4 = 1
          /\ s[1 + i] = "slot" <=> i % 4 = 2
          /\ s[1 + i] = "check?" <=> i % 4 = 3
          /\ s[1 + i] = "send?" <=> i % 4 = 0
    <3>1. s[1 + i] = u[1 + ((i - 1) % 4)] BY <2>2, <2>6
    <3>2. i \in Nat /\ i > 0 BY <2>3
    <3> QED BY <3>1, <3>2
  <2> HIDE DEF u
  <2>8. L % 4 = 0 BY <1>0 DEF L
  <2>9. \A i \in 1..Len(s) :
           \/ i = 1 \/ i = L + 2 \/ i = L + 3
           \/ i \in 2..(L + 1) /\ s[i] \in {"line", "slot", "check?", "send?"}
    <3> SUFFICES ASSUME NEW i \in 2..(L + 1) PROVE s[i] \in {"line", "slot", "check?", "send?"}
      BY <2>3, <2>6
    <3>1. i - 1 \in 1..L /\ 1 + (i - 1) = i BY <2>3
    <3> QED BY <2>7, <3>1
  <2>10. ASSUME NEW i \in 1..(Len(s) - 1) PROVE
           /\ s[i + 1] \in Unsent <=> s[i] \in {"line", "slot", "check", "check?"}
           /\ s[i] = "check?" => s[i + 1] = "send?"
    <3>1. CASE i = 1
      <4>1. 1 \in 1..L /\ 1 % 4 = 1 BY <2>3
      <4>2. s[i + 1] = "line" BY <2>7, <4>1, <3>1
      <4> QED BY <2>6, <4>2, <3>1 DEF Unsent
    <3>2. CASE i \in 2..L
      <4>1. i - 1 \in 1..L /\ i \in 1..L /\ 1 + (i - 1) = i /\ i + 1 = 1 + i BY <3>2, <2>3
      <4>2. i \in Nat /\ i % 4 \in 0..3 /\ (i - 1) % 4 = IF i % 4 = 0 THEN 3 ELSE (i % 4) - 1
        BY <3>2, <2>3
      <4> QED BY <2>7, <4>1, <4>2 DEF Unsent
    <3>3. CASE i = L + 1
      <4>1. L \in 1..L /\ 1 + L = i BY <3>3, <2>3
      <4>2. s[i] = "send?" BY <2>7, <2>8, <4>1
      <4>3. s[i + 1] = "wait" BY <2>6, <2>3, <3>3
      <4> QED BY <4>2, <4>3 DEF Unsent
    <3>4. CASE i = L + 2 BY <2>3, <2>6, <3>4 DEF Unsent
    <3> QED BY <2>3, <2>6, <3>1, <3>2, <3>3, <3>4
  <2>11. \A i \in 1..Len(s) : /\ s[i] = "keep" <=> i = Len(s)
                              /\ i > 1 => s[i] # "session"
    BY <2>3, <2>6, <2>9
  <2>12. CaptureEquitySnapshots = [steps |-> s, care |-> "retained"]
    BY DEF CaptureEquitySnapshots, s, v, u
  <2>13. RegisteredMethod(CaptureEquitySnapshots)
    BY <2>6, <2>10, <2>11, <2>12 DEF RegisteredMethod, S
  <2> QED BY <2>3, <2>6, <2>12, <2>13 DEF Shape, Feed!Care
<1> QED BY <1>1, <1>2

LEMMA MethodShapes == \A m \in DOMAIN Method : Shape(Method[m])
<1> HIDE DEF Shape
<1> USE ShortShapes, LongShapes, RegisteredShapes
<1> QED
  BY DEF Method, LoadAccountSummary, LoadLivePositions, LoadWSHMetadata,
     LoadNewsProviders, LoadHistoricalNews, LoadNewsArticle,
     SearchContracts, ScanContracts, RunMarketScanner, LoadMarketRule,
     LoadSmartComponents, CalculateIV, CalculateOptionPrice,
     SearchMatchingSymbols, RequestHistogram, GetDepthExchanges,
     GetScannerParameters, ScanMarket, GetServerTime

-----------------------------------------------------------------------------
\* The state of a request.

FeedEnds == {"ok", "failed", "cancelled"}
FeedRecord ==
    [m : DOMAIN Method, at : Nat, own : Nat, via : Nat, lines : Nat, sent : Nat,
     cut : Nat, expired : Nat,
     st : {"idle", "run", "flight", "undo", "free", "kept", "over"},
     end : {"none", "on"} \cup FeedEnds]

Registered(q) == RegisteredMethod(Method[q.m])
NextStep(q) == Method[q.m].steps[q.at]
Compares(q) ==
    \/ Registered(q)
    \/ /\ Method[q.m].steps \in Seq(PlainSteps \ {"more"})
       /\ Method[q.m].steps[Len(Method[q.m].steps)] = "check"

\* Whatever a request is at.
Base(q) ==
    /\ q \in FeedRecord /\ q.at \in 1..Len(Method[q.m].steps)
    /\ Method[q.m].care \in Careless => q.lines = 0
    /\ q.own # 0 => Compares(q)
    /\ Registered(q) /\ q.at > 1 => q.own # 0

\* A batch holds one line more than it has subscriptions exactly between the
\* one and the other.
Counts(q) == q.lines = IF NextStep(q) \in Unsent THEN q.sent + 1 ELSE q.sent

Fits(q) ==
    /\ Base(q)
    /\ q.st = "idle" => q.at = 1 /\ q.lines = 0 /\ q.sent = 0 /\ q.end = "none"
    /\ q.st \in {"undo", "free"} => q.end # "none"
    /\ q.st \in {"run", "flight"} => q.end \in {"none", "on"}
    /\ q.st = "flight" => NextStep(q) \in {"call", "call?", "ask"}
    /\ q.st = "free" => /\ q.lines > 0
                        /\ q.sent = 0 \/ (Registered(q) /\ q.end = "on")
    /\ q.st = "over" =>
          /\ q.lines = 0
          /\ q.sent = 0 \/ (Method[q.m].care = "late" /\ q.end = "cancelled")
    /\ q.st = "kept" => Registered(q) /\ q.lines = q.sent
    /\ Registered(q) =>
          /\ q.st # "flight"
          /\ q.st = "undo" => q.end # "on"
          /\ q.st = "run" => Counts(q)
          /\ q.st = "free" /\ q.end = "on" =>
                /\ q.lines = q.sent + 1 /\ NextStep(q) \notin Unsent
                /\ Method[q.m].care = "retained"

\* The tickers a request still holds are of the session that is up.
OfSession(q, open, generation) ==
    (Registered(q) /\ q.st \in {"run", "free", "kept"} /\ q.sent > 0)
        => open /\ q.own = generation

FeedInv ==
    /\ fUp \in BOOLEAN /\ fSession \in Nat \ {0}
    /\ fReq = [r \in Tasks |-> fReq[r]]
    /\ \A r \in Tasks : Fits(fReq[r]) /\ OfSession(fReq[r], fUp, fSession)

-----------------------------------------------------------------------------
\* What the shapes say of a step.

LEMMA StepKnown ==
    ASSUME NEW q, Base(q)
    PROVE  /\ q.m \in DOMAIN Method /\ Shape(Method[q.m])
           /\ Len(Method[q.m].steps) \in Nat \ {0}
           /\ Registered(q) \/ PlainMethod(Method[q.m])
           /\ Method[q.m].care \in Feed!Care
           /\ ~Registered(q) => NextStep(q) \in PlainSteps
           /\ Registered(q) => NextStep(q) \in RegisteredSteps
<1>1. q.m \in DOMAIN Method BY DEF Base, FeedRecord
<1>2. Shape(Method[q.m]) BY <1>1, MethodShapes
<1>3. /\ Len(Method[q.m].steps) \in Nat \ {0} /\ Method[q.m].care \in Feed!Care
      /\ Registered(q) \/ PlainMethod(Method[q.m])
  BY <1>2 DEF Shape, Registered
<1>4. q.at \in 1..Len(Method[q.m].steps) BY DEF Base
<1>5. ASSUME Registered(q) PROVE NextStep(q) \in RegisteredSteps
  <2>1. Method[q.m].steps \in Seq(RegisteredSteps)
    BY <1>5 DEF Registered, RegisteredMethod
  <2> QED BY <1>4, <2>1 DEF NextStep
<1>6. ASSUME ~Registered(q) PROVE NextStep(q) \in PlainSteps
  <2>1. Method[q.m].steps \in Seq(PlainSteps) BY <1>3, <1>6 DEF PlainMethod
  <2> QED BY <1>4, <2>1 DEF NextStep
<1> QED BY <1>1, <1>2, <1>3, <1>5, <1>6

LEMMA RegistersIsRegistered ==
    ASSUME NEW q, Base(q) PROVE Feed!Registers(q) <=> Registered(q)
<1> DEFINE s == Method[q.m].steps
<1>1. Len(s) \in Nat \ {0} /\ (Registered(q) \/ PlainMethod(Method[q.m]))
  BY StepKnown
<1>2. Registered(q) => s \in Seq(RegisteredSteps) /\ s[Len(s)] = "keep"
  BY <1>1 DEF Registered, RegisteredMethod
<1>3. ~Registered(q) => s \in Seq(PlainSteps) BY <1>1 DEF PlainMethod
<1>4. Feed!Registers(q) <=> "keep" \in {s[i] : i \in DOMAIN s}
  BY DEF Feed!Registers, Feed!ToSet, Feed!Steps
<1> HIDE DEF s
<1>5. Registered(q) => "keep" \in {s[i] : i \in DOMAIN s} BY <1>1, <1>2
<1>6. ASSUME ~Registered(q) PROVE "keep" \notin {s[i] : i \in DOMAIN s}
  BY <1>1, <1>3, <1>6 DEF PlainSteps
<1> QED BY <1>4, <1>5, <1>6

\* A registered method goes on from every step but the last.
LEMMA RegisteredGoesOn ==
    ASSUME NEW q, Base(q), Registered(q)
    PROVE  /\ Method[q.m].care \in {"retained", "ticker"}
           /\ NextStep(q) \in {"check?", "send?"} => Method[q.m].care = "retained"
           /\ NextStep(q) = "session" <=> q.at = 1
           /\ NextStep(q) = "keep" <=> q.at = Len(Method[q.m].steps)
           /\ NextStep(q) # "keep" =>
                /\ q.at + 1 \in 2..Len(Method[q.m].steps)
                /\ Method[q.m].steps[q.at + 1] \in Unsent
                      <=> NextStep(q) \in {"line", "slot", "check", "check?"}
                /\ NextStep(q) = "check?" => Method[q.m].steps[q.at + 1] = "send?"
<1> DEFINE d == Method[q.m]
<1>1. /\ q.at \in 1..Len(d.steps) /\ Len(d.steps) \in Nat \ {0} /\ q.at \in Nat
      /\ NextStep(q) = d.steps[q.at]
  BY StepKnown DEF NextStep, Base, FeedRecord
<1>2. RegisteredMethod(d) BY DEF Registered
<1> HIDE DEF d
<1>3. /\ d.care \in {"retained", "ticker"}
      /\ NextStep(q) \in {"check?", "send?"} => d.care = "retained"
  BY <1>1, <1>2 DEF RegisteredMethod
<1>4. /\ NextStep(q) = "session" <=> q.at = 1
      /\ NextStep(q) = "keep" <=> q.at = Len(d.steps)
  BY <1>1, <1>2 DEF RegisteredMethod
<1>5. NextStep(q) # "keep" =>
         /\ q.at + 1 \in 2..Len(d.steps)
         /\ d.steps[q.at + 1] \in Unsent
               <=> NextStep(q) \in {"line", "slot", "check", "check?"}
         /\ NextStep(q) = "check?" => d.steps[q.at + 1] = "send?"
  BY <1>1, <1>2 DEF RegisteredMethod
<1> QED BY <1>3, <1>4, <1>5 DEF d

-----------------------------------------------------------------------------
\* The three ways a step ends keep the state of a request.

LEMMA ClosedFits ==
    ASSUME NEW q, Base(q), NEW end \in FeedEnds
    PROVE  /\ Fits(Feed!Close(q, end))
           /\ \A u, s : OfSession(Feed!Close(q, end), u, s)
<1> DEFINE c == Feed!Close(q, end)
<1>1. PICK st \in {"undo", "free", "over"} :
         /\ c = [q EXCEPT !.st = st, !.end = end, !.sent = IF st = "undo" THEN @ ELSE 0]
         /\ st = "free" => q.lines > 0 /\ q.sent = 0
         /\ st = "over" => q.lines = 0
  <2>1. q \in FeedRecord /\ (Method[q.m].care = "sync" => q.lines = 0)
    BY DEF Base, Careless
  <2>2. CASE q.sent > 0 /\ Feed!CareOf(q) # "sync"
    <3>1. c = [q EXCEPT !.st = "undo", !.end = end] BY <2>2 DEF Feed!Close
    <3>2. c = [q EXCEPT !.st = "undo", !.end = end,
                        !.sent = IF "undo" = "undo" THEN @ ELSE 0]
      BY <2>1, <3>1 DEF FeedRecord
    <3> QED BY <3>2
  <2>3. CASE q.sent = 0 /\ q.lines > 0
    <3>1. c = [q EXCEPT !.st = "free", !.end = end] BY <2>3 DEF Feed!Close
    <3>2. c = [q EXCEPT !.st = "free", !.end = end,
                        !.sent = IF "free" = "undo" THEN @ ELSE 0]
      BY <2>1, <2>3, <3>1 DEF FeedRecord
    <3> QED BY <2>3, <3>2
  <2>4. CASE ~(q.sent > 0 /\ Feed!CareOf(q) # "sync") /\ ~(q.sent = 0 /\ q.lines > 0)
    <3>1. c = [q EXCEPT !.sent = 0, !.end = end, !.st = "over"]
      BY <2>4 DEF Feed!Close, FeedEnds
    <3>2. q.lines = 0 BY <2>1, <2>4 DEF FeedRecord, Feed!CareOf
    <3>3. c = [q EXCEPT !.st = "over", !.end = end,
                        !.sent = IF "over" = "undo" THEN @ ELSE 0]
      BY <2>1, <3>1 DEF FeedRecord
    <3> QED BY <3>2, <3>3
  <2> QED BY <2>2, <2>3, <2>4
<1> HIDE DEF c
<1>2. /\ c \in FeedRecord /\ c.m = q.m /\ c.at = q.at /\ c.own = q.own /\ c.lines = q.lines
      /\ c.st = st /\ c.end = end /\ (st # "undo" => c.sent = 0)
      /\ c.st = "free" => c.lines > 0 /\ c.sent = 0
      /\ c.st = "over" => c.lines = 0 /\ c.sent = 0
  BY <1>1 DEF Base, FeedRecord, FeedEnds
<1>3. Base(c) BY <1>2 DEF Base, Compares, Registered
<1>4. Fits(c)
  <2>1. CASE st = "undo" BY <1>2, <1>3, <2>1 DEF Fits, FeedEnds
  <2>2. CASE st = "free"
    <3>1. c.st = "free" /\ c.lines > 0 /\ c.sent = 0 BY <1>2, <2>2
    <3>2. c.end # "none" /\ c.end # "on" BY <1>2 DEF FeedEnds
    <3> QED BY <1>3, <3>1, <3>2 DEF Fits
  <2>3. CASE st = "over" BY <1>2, <1>3, <2>3 DEF Fits, FeedEnds
  <2> QED BY <2>1, <2>2, <2>3
<1>5. \A u, s : OfSession(c, u, s) BY <1>2 DEF OfSession
<1> QED BY <1>4, <1>5 DEF c

LEMMA AdvancedFits ==
    ASSUME NEW q, Base(q), q.st = "run", q.end \in {"none", "on"},
           q.at < Len(Method[q.m].steps),
           NEW p, p = [q EXCEPT !.at = @ + 1],
           Registered(q) => q.own # 0 /\ Counts(p)
    PROVE  Fits(p)
<1>1. /\ p \in FeedRecord /\ p.m = q.m /\ p.at = q.at + 1 /\ p.own = q.own
      /\ p.lines = q.lines /\ p.sent = q.sent /\ p.st = "run" /\ p.end = q.end
      /\ p.at \in 1..Len(Method[q.m].steps)
  BY StepKnown DEF Base, FeedRecord
<1>2. Base(p) BY <1>1 DEF Base, Compares, Registered
<1> QED BY <1>1, <1>2 DEF Fits, Registered

LEMMA BecomesKeeps ==
    ASSUME FeedInv, NEW r \in Tasks, NEW q, Feed!Becomes(r, q),
           Fits(q), OfSession(q, fUp, fSession)
    PROVE  FeedInv'
<1>1. /\ fUp' = fUp /\ fSession' = fSession
      /\ fReq' = [k \in Tasks |-> IF k = r THEN q ELSE fReq[k]]
  BY DEF Feed!Becomes, FeedInv
<1>2. \A k \in Tasks : /\ fReq'[k] = IF k = r THEN q ELSE fReq[k]
                       /\ Fits(fReq'[k]) /\ OfSession(fReq'[k], fUp, fSession)
  BY <1>1 DEF FeedInv
<1> HIDE DEF Fits, OfSession
<1>3. fReq' = [k \in Tasks |-> fReq'[k]] BY <1>1
<1> QED BY <1>1, <1>2, <1>3 DEF FeedInv

LEMMA ClosesKeep ==
    ASSUME FeedInv, NEW r \in Tasks, NEW q, Base(q), NEW end \in FeedEnds,
           Feed!Becomes(r, Feed!Close(q, end))
    PROVE  FeedInv'
BY ClosedFits, BecomesKeeps

\* A finally block in the middle of a batch.
LEMMA ClosedOnFits ==
    ASSUME NEW q, Base(q), ~Registered(q)
    PROVE  /\ Fits(Feed!Close(q, "on"))
           /\ \A u, s : OfSession(Feed!Close(q, "on"), u, s)
<1> DEFINE c == Feed!Close(q, "on")
<1>1. q \in FeedRecord BY DEF Base
<1>2. PICK st \in {"undo", "free", "run"} :
         /\ c = [q EXCEPT !.st = st, !.end = "on", !.sent = IF st = "undo" THEN @ ELSE 0]
         /\ st = "free" => q.lines > 0 /\ q.sent = 0
  <2>1. CASE q.sent > 0 /\ Feed!CareOf(q) # "sync"
    <3>1. c = [q EXCEPT !.st = "undo", !.end = "on"] BY <2>1 DEF Feed!Close
    <3>2. c = [q EXCEPT !.st = "undo", !.end = "on",
                        !.sent = IF "undo" = "undo" THEN @ ELSE 0]
      BY <1>1, <3>1 DEF FeedRecord
    <3> QED BY <3>2
  <2>2. CASE q.sent = 0 /\ q.lines > 0
    <3>1. c = [q EXCEPT !.st = "free", !.end = "on"] BY <2>2 DEF Feed!Close
    <3>2. c = [q EXCEPT !.st = "free", !.end = "on",
                        !.sent = IF "free" = "undo" THEN @ ELSE 0]
      BY <1>1, <2>2, <3>1 DEF FeedRecord
    <3> QED BY <2>2, <3>2
  <2>3. CASE ~(q.sent > 0 /\ Feed!CareOf(q) # "sync") /\ ~(q.sent = 0 /\ q.lines > 0)
    <3>1. c = [q EXCEPT !.sent = 0, !.end = "on", !.st = "run"] BY <2>3 DEF Feed!Close
    <3>2. c = [q EXCEPT !.st = "run", !.end = "on",
                        !.sent = IF "run" = "undo" THEN @ ELSE 0]
      BY <1>1, <3>1 DEF FeedRecord
    <3> QED BY <3>2
  <2> QED BY <2>1, <2>2, <2>3
<1> HIDE DEF c
<1>3. /\ c \in FeedRecord /\ c.m = q.m /\ c.at = q.at /\ c.own = q.own /\ c.lines = q.lines
      /\ c.st = st /\ c.end = "on" /\ (c.st = "free" => c.lines > 0 /\ c.sent = 0)
  BY <1>1, <1>2 DEF FeedRecord
<1>4. Base(c) /\ ~Registered(c) BY <1>3 DEF Base, Compares, Registered
<1>5. Fits(c) BY <1>3, <1>4 DEF Fits
<1> QED BY <1>4, <1>5 DEF c, OfSession

LEMMA AdvancesKeep ==
    ASSUME FeedInv, NEW r \in Tasks, NEW q, Base(q), q.st = "run", q.end \in {"none", "on"},
           Feed!Becomes(r, Feed!Advance(q)),
           Registered(q) =>
              /\ NextStep(q) # "keep" /\ q.own # 0
              /\ q.lines = IF NextStep(q) \in {"line", "slot", "check", "check?"}
                           THEN q.sent + 1 ELSE q.sent
              /\ q.sent > 0 => fUp /\ q.own = fSession
    PROVE  FeedInv'
<1>1. CASE q.at = Len(Method[q.m].steps)
  <2>1. Feed!Advance(q) = Feed!Close(q, "ok") BY <1>1 DEF Feed!Advance, Feed!Steps
  <2> QED BY <2>1, ClosesKeep DEF FeedEnds
<1>2. CASE q.at # Len(Method[q.m].steps)
  <2>1. PICK p : p = [q EXCEPT !.at = @ + 1] OBVIOUS
  <2>2. Feed!Becomes(r, p) BY <1>2, <2>1 DEF Feed!Advance, Feed!Steps
  <2>3. q.at < Len(Method[q.m].steps) BY <1>2, StepKnown DEF Base
  <2>4. /\ p.m = q.m /\ p.at = q.at + 1 /\ p.own = q.own /\ p.lines = q.lines
        /\ p.sent = q.sent /\ p.st = "run"
    BY <2>1 DEF Base, FeedRecord
  <2>5. Registered(q) => Counts(p)
    <3> SUFFICES ASSUME Registered(q) PROVE Counts(p) OBVIOUS
    <3>1. Method[q.m].steps[q.at + 1] \in Unsent
             <=> NextStep(q) \in {"line", "slot", "check", "check?"}
      BY RegisteredGoesOn
    <3>2. NextStep(p) = Method[q.m].steps[q.at + 1] BY <2>4 DEF NextStep
    <3> QED BY <2>4, <3>1, <3>2 DEF Counts
  <2>6. Fits(p) BY <2>1, <2>3, <2>5, AdvancedFits
  <2>7. OfSession(p, fUp, fSession) BY <2>4 DEF OfSession, Registered
  <2> QED BY <2>2, <2>6, <2>7, BecomesKeeps
<1> QED BY <1>1, <1>2

\* A request that runs.
LEMMA Running ==
    ASSUME FeedInv, NEW r \in Tasks, NEW ops, Feed!At(r, ops)
    PROVE  LET q == fReq[r] IN
           /\ Base(q) /\ q.st = "run" /\ q.end \in {"none", "on"}
           /\ NextStep(q) \in ops
           /\ Registered(q) =>
                /\ q.sent > 0 => fUp /\ q.own = fSession
                /\ Counts(q) /\ Method[q.m].care \in {"retained", "ticker"}
                /\ NextStep(q) \in RegisteredSteps
                /\ NextStep(q) # "session" => q.own # 0
           /\ ~Registered(q) => NextStep(q) \in PlainSteps
<1> DEFINE q == fReq[r]
<1>1. Fits(q) /\ OfSession(q, fUp, fSession) BY DEF FeedInv
<1>2. q.st = "run" /\ NextStep(q) \in ops BY DEF Feed!At, Feed!Steps, NextStep
<1> HIDE DEF q
<1>3. Base(q) /\ q.end \in {"none", "on"} BY <1>1, <1>2 DEF Fits
<1>4. ASSUME Registered(q)
      PROVE  /\ q.sent > 0 => fUp /\ q.own = fSession
             /\ Counts(q) /\ Method[q.m].care \in {"retained", "ticker"}
             /\ NextStep(q) \in RegisteredSteps
             /\ NextStep(q) # "session" => q.own # 0
  <2>1. Counts(q) BY <1>1, <1>2, <1>4 DEF Fits
  <2>2. q.sent > 0 => fUp /\ q.own = fSession BY <1>1, <1>2, <1>4 DEF OfSession
  <2>3. NextStep(q) # "session" => q.at > 1
    BY <1>3, <1>4, RegisteredGoesOn DEF Base, FeedRecord
  <2>4. NextStep(q) # "session" => q.own # 0 BY <1>3, <1>4, <2>3 DEF Base
  <2> QED BY <1>3, <1>4, <2>1, <2>2, <2>4, StepKnown, RegisteredGoesOn
<1>5. ~Registered(q) => NextStep(q) \in PlainSteps BY <1>3, StepKnown
<1> QED BY <1>2, <1>3, <1>4, <1>5 DEF q

LEMMA FailsKeeps ==
    ASSUME FeedInv, NEW r \in Tasks, Base(fReq[r]), Feed!Fails(r) PROVE FeedInv'
BY ClosesKeep DEF Feed!Fails, FeedEnds

LEMMA NextSymbolKeeps ==
    ASSUME FeedInv, NEW r \in Tasks, Feed!At(r, {"check?", "send?"}),
           Feed!Becomes(r, Feed!NextSymbol(fReq[r]))
    PROVE  FeedInv'
<1> DEFINE q == fReq[r]
           s == Method[q.m].steps
<1>1. /\ Base(q) /\ q.st = "run" /\ NextStep(q) \in {"check?", "send?"}
      /\ Registered(q) =>
           /\ q.sent > 0 => fUp /\ q.own = fSession
           /\ Counts(q) /\ q.own # 0
      /\ ~Registered(q) => NextStep(q) \in PlainSteps
  BY Running
<1>2. Registered(q) BY <1>1 DEF PlainSteps
<1>3. PICK p : p = Feed!NextSymbol(q) OBVIOUS
<1> HIDE DEF q
<1>4. q \in FeedRecord /\ q.at \in 1..Len(s) /\ Len(s) \in Nat \ {0} /\ s[q.at] = NextStep(q)
  BY <1>1, StepKnown DEF Base, NextStep
<1>5. PICK i \in q.at..Len(s) : s[i] = "send?" /\ \A j \in q.at..(i - 1) : s[j] # "send?"
  <2>1. CASE NextStep(q) = "send?"
    <3>1. q.at \in q.at..Len(s) /\ q.at..(q.at - 1) = {} BY <1>4 DEF FeedRecord
    <3> QED BY <1>4, <2>1, <3>1
  <2>2. CASE NextStep(q) = "check?"
    <3>1. q.at + 1 \in 2..Len(s) /\ s[q.at + 1] = "send?"
      BY <1>1, <1>2, <2>2, RegisteredGoesOn
    <3>2. q.at + 1 \in q.at..Len(s) /\ q.at..(q.at + 1 - 1) = {q.at}
      BY <1>4, <3>1 DEF FeedRecord
    <3> QED BY <1>4, <2>2, <3>1, <3>2
  <2> QED BY <1>1, <2>1, <2>2
<1> DEFINE k == CHOOSE n \in q.at..Len(s) :
                   s[n] = "send?" /\ \A j \in q.at..(n - 1) : s[j] # "send?"
<1>6. k \in q.at..Len(s) /\ s[k] = "send?" BY <1>5
<1>7. p = [q EXCEPT !.at = 1 + k, !.st = "free", !.end = "on"]
  BY <1>3 DEF Feed!NextSymbol, Feed!Steps
<1> HIDE DEF k
<1>8. k \in 1..Len(s) /\ k \in Nat BY <1>4, <1>6 DEF FeedRecord
<1>9. /\ k # Len(s) /\ k \in 1..(Len(s) - 1)
      /\ s[k + 1] \in Unsent <=> s[k] \in {"line", "slot", "check", "check?"}
  <2>1. /\ \A n \in 1..Len(s) : s[n] = "keep" <=> n = Len(s)
        /\ \A n \in 1..(Len(s) - 1) :
              s[n + 1] \in Unsent <=> s[n] \in {"line", "slot", "check", "check?"}
    BY <1>2 DEF Registered, RegisteredMethod
  <2> HIDE DEF s
  <2>2. k # Len(s) /\ k \in 1..(Len(s) - 1) BY <1>4, <1>6, <1>8, <2>1
  <2> QED BY <2>1, <2>2
<1> HIDE DEF s
<1>10. /\ p \in FeedRecord /\ p.m = q.m /\ p.at = k + 1 /\ p.own = q.own /\ p.lines = q.lines
       /\ p.sent = q.sent /\ p.st = "free" /\ p.end = "on" /\ p.at \in 1..Len(s)
  <2>1. 1 + k \in Nat /\ 1 + k = k + 1 /\ 1 + k \in 1..Len(s) BY <1>4, <1>8, <1>9
  <2> QED BY <1>4, <1>7, <2>1 DEF FeedRecord
<1>11. NextStep(p) \notin Unsent BY <1>6, <1>9, <1>10 DEF NextStep, s
<1>12. Base(p) /\ Registered(p)
  BY <1>1, <1>2, <1>10 DEF Base, Registered, Compares, s
<1>13. p.lines = p.sent + 1 /\ p.lines > 0 /\ Method[p.m].care = "retained"
  BY <1>1, <1>2, <1>4, <1>10, RegisteredGoesOn DEF Counts, Unsent, FeedRecord
<1>14. Fits(p) BY <1>10, <1>11, <1>12, <1>13 DEF Fits
<1>15. OfSession(p, fUp, fSession) BY <1>1, <1>2, <1>10 DEF OfSession
<1> QED BY <1>3, <1>14, <1>15, BecomesKeeps DEF q

-----------------------------------------------------------------------------
\* Every step keeps the invariant.

LEMMA BeginKeeps ==
    ASSUME FeedInv, NEW r \in Tasks, Feed!Begin(r) PROVE FeedInv'
<1> DEFINE q == fReq[r]
<1>1. Fits(q) /\ q.st = "idle" BY DEF FeedInv, Feed!Begin
<1>2. PICK p : p = [q EXCEPT !.st = "run"] OBVIOUS
<1>3. Feed!Becomes(r, p) BY <1>2 DEF Feed!Begin
<1> HIDE DEF q
<1>4. Base(q) /\ q.at = 1 /\ q.lines = 0 /\ q.sent = 0 /\ q.end = "none"
  BY <1>1 DEF Fits
<1>5. /\ p \in FeedRecord /\ p.m = q.m /\ p.at = 1 /\ p.own = q.own /\ p.lines = 0
      /\ p.sent = 0 /\ p.st = "run" /\ p.end = "none"
  BY <1>2, <1>4 DEF Base, FeedRecord
<1>6. Base(p) BY <1>4, <1>5 DEF Base, Compares, Registered
<1>7. Registered(p) => NextStep(p) \notin Unsent
  BY <1>5, <1>6, RegisteredGoesOn DEF Unsent
<1>8. Fits(p) BY <1>5, <1>6, <1>7 DEF Fits, Counts
<1>9. OfSession(p, fUp, fSession) BY <1>5 DEF OfSession
<1> QED BY <1>3, <1>8, <1>9, BecomesKeeps

LEMMA EnsureConnectedKeeps ==
    ASSUME FeedInv, NEW r \in Tasks, Feed!EnsureConnected(r) PROVE FeedInv'
<1> DEFINE q == fReq[r]
<1>1. /\ Base(q) /\ q.st = "run" /\ q.end \in {"none", "on"} /\ NextStep(q) = "connect"
      /\ Registered(q) => NextStep(q) \in RegisteredSteps
  BY Running DEF Feed!EnsureConnected
<1>2. ~Registered(q) BY <1>1 DEF RegisteredSteps, Unsent
<1>3. Feed!Becomes(r, Feed!Advance(q)) \/ Feed!Fails(r) BY DEF Feed!EnsureConnected
<1> QED BY <1>1, <1>2, <1>3, AdvancesKeep, FailsKeeps

LEMMA CaptureSessionKeeps ==
    ASSUME FeedInv, NEW r \in Tasks, Feed!CaptureSession(r) PROVE FeedInv'
<1> DEFINE q == fReq[r]
<1>1. /\ Base(q) /\ q.st = "run" /\ q.end \in {"none", "on"} /\ NextStep(q) = "session"
      /\ Registered(q) => Counts(q)
  BY Running DEF Feed!CaptureSession
<1>2. CASE ~fUp BY <1>1, <1>2, FailsKeeps DEF Feed!CaptureSession
<1>3. CASE fUp
  <2>1. PICK p : p = [q EXCEPT !.own = fSession] OBVIOUS
  <2>2. Feed!Becomes(r, Feed!Advance(p)) BY <1>3, <2>1 DEF Feed!CaptureSession
  <2>3. fSession \in Nat \ {0} BY DEF FeedInv
  <2> HIDE DEF q
  <2>4. /\ p \in FeedRecord /\ p.m = q.m /\ p.at = q.at /\ p.own = fSession
        /\ p.lines = q.lines /\ p.sent = q.sent /\ p.st = "run" /\ p.end = q.end
    BY <1>1, <2>1, <2>3 DEF Base, FeedRecord
  <2>5. Compares(q)
    BY <1>1, StepKnown DEF Compares, Registered, PlainMethod, NextStep, Base
  <2>6. Base(p) BY <1>1, <2>3, <2>4, <2>5 DEF Base, Compares, Registered
  <2>7. Registered(p) => p.lines = p.sent
    BY <1>1, <2>4 DEF Counts, Registered, Unsent
  <2>8. NextStep(p) = "session" BY <1>1, <2>4 DEF NextStep
  <2> QED BY <1>1, <1>3, <2>2, <2>3, <2>4, <2>6, <2>7, <2>8, AdvancesKeep
<1> QED BY <1>2, <1>3

LEMMA RequireSessionKeeps ==
    ASSUME FeedInv, NEW r \in Tasks, Feed!RequireSession(r) PROVE FeedInv'
<1> DEFINE q == fReq[r]
<1>1. Feed!At(r, {"check", "check?"}) BY DEF Feed!RequireSession
<1>2. /\ Base(q) /\ q.st = "run" /\ q.end \in {"none", "on"}
      /\ NextStep(q) \in {"check", "check?"}
      /\ Registered(q) => /\ q.sent > 0 => fUp /\ q.own = fSession
                          /\ Counts(q) /\ (NextStep(q) # "session" => q.own # 0)
  BY <1>1, Running
<1>3. CASE Feed!Becomes(r, Feed!Advance(q))
  <2>1. Registered(q) => q.lines = q.sent + 1 BY <1>2 DEF Counts, Unsent
  <2> HIDE DEF q
  <2> QED BY <1>2, <1>3, <2>1, AdvancesKeep
<1>4. CASE Feed!Fails(r) BY <1>2, <1>4, FailsKeeps
<1>5. CASE Feed!Becomes(r, Feed!NextSymbol(q)) /\ ~Feed!At(r, {"check"})
  <2>1. Feed!At(r, {"check?", "send?"}) BY <1>1, <1>5 DEF Feed!At
  <2> QED BY <1>5, <2>1, NextSymbolKeeps
<1>6. \/ Feed!Becomes(r, Feed!Advance(q)) \/ Feed!Fails(r)
      \/ Feed!Becomes(r, Feed!NextSymbol(q)) /\ ~Feed!At(r, {"check"})
  BY DEF Feed!RequireSession
<1> QED BY <1>3, <1>4, <1>5, <1>6

LEMMA CallAsksKeeps ==
    ASSUME FeedInv, NEW r \in Tasks, Feed!Asks(r) PROVE FeedInv'
<1> DEFINE q == fReq[r]
<1>1. /\ Base(q) /\ q.st = "run" /\ q.end \in {"none", "on"}
      /\ NextStep(q) \in {"call", "call?", "ask"}
      /\ Registered(q) => NextStep(q) \in RegisteredSteps
  BY Running DEF Feed!Asks
<1>2. ~Registered(q) BY <1>1 DEF RegisteredSteps, Unsent
<1>3. CASE Feed!Fails(r) BY <1>1, <1>3, FailsKeeps
<1>4. CASE Feed!Becomes(r, [q EXCEPT !.st = "flight", !.via = fSession])
  <2>1. PICK p : p = [q EXCEPT !.st = "flight", !.via = fSession] OBVIOUS
  <2>2. fSession \in Nat BY DEF FeedInv
  <2>3. Feed!Becomes(r, p) BY <1>4, <2>1
  <2> HIDE DEF q
  <2>4. /\ p \in FeedRecord /\ p.m = q.m /\ p.at = q.at /\ p.own = q.own
        /\ p.lines = q.lines /\ p.sent = q.sent /\ p.st = "flight" /\ p.end = q.end
    BY <1>1, <2>1, <2>2 DEF Base, FeedRecord
  <2>5. Base(p) /\ ~Registered(p) /\ NextStep(p) \in {"call", "call?", "ask"}
    BY <1>1, <1>2, <2>4 DEF Base, Compares, Registered, NextStep
  <2>6. Fits(p) BY <1>1, <2>4, <2>5 DEF Fits
  <2>7. OfSession(p, fUp, fSession) BY <2>5 DEF OfSession
  <2> QED BY <2>3, <2>6, <2>7, BecomesKeeps
<1> QED BY <1>3, <1>4 DEF Feed!Asks

LEMMA SkipsKeeps ==
    ASSUME FeedInv, NEW r \in Tasks, Feed!Skips(r) PROVE FeedInv'
<1> DEFINE q == fReq[r]
           last == Len(Method[q.m].steps)
<1>1. Feed!At(r, {"call?", "more"}) BY DEF Feed!Skips, Feed!At
<1>2. /\ Base(q) /\ q.st = "run" /\ q.end \in {"none", "on"}
      /\ NextStep(q) \in {"call?", "more"}
      /\ Registered(q) => NextStep(q) \in RegisteredSteps
  BY <1>1, Running
<1>3. ~Registered(q) BY <1>2 DEF RegisteredSteps, Unsent
<1>4. CASE Feed!Becomes(r, Feed!Advance(q)) BY <1>2, <1>3, <1>4, AdvancesKeep
<1>5. CASE Feed!Becomes(r, Feed!Close(q, "ok")) BY <1>2, <1>5, ClosesKeep DEF FeedEnds
<1>6. CASE Feed!Becomes(r, [q EXCEPT !.at = last])
  <2>1. PICK p : p = [q EXCEPT !.at = last] OBVIOUS
  <2>2. Feed!Becomes(r, p) BY <1>6, <2>1
  <2>3. last \in Nat \ {0} BY <1>2, StepKnown
  <2> HIDE DEF q, last
  <2>4. /\ p \in FeedRecord /\ p.m = q.m /\ p.at = last /\ p.own = q.own
        /\ p.lines = q.lines /\ p.sent = q.sent /\ p.st = "run" /\ p.end = q.end
    BY <1>2, <2>1, <2>3 DEF Base, FeedRecord
  <2>5. last \in 1..last BY <2>3
  <2>6. Base(p) /\ ~Registered(p)
    BY <1>2, <1>3, <2>4, <2>5 DEF Base, Compares, Registered, last
  <2>7. Fits(p) BY <1>2, <2>4, <2>6 DEF Fits
  <2>8. OfSession(p, fUp, fSession) BY <2>6 DEF OfSession
  <2> QED BY <2>2, <2>7, <2>8, BecomesKeeps
<1>7. \/ Feed!Becomes(r, Feed!Advance(q)) \/ Feed!Becomes(r, Feed!Close(q, "ok"))
      \/ Feed!Becomes(r, [q EXCEPT !.at = last])
  BY DEF Feed!Skips, Feed!Steps
<1> QED BY <1>4, <1>5, <1>6, <1>7

\* A reply, or the end of the retries.
LEMMA RepliedKeeps ==
    ASSUME FeedInv, NEW r \in Tasks, Feed!Answered(r) \/ Feed!Refused(r) PROVE FeedInv'
<1> DEFINE q == fReq[r]
<1>1. /\ Fits(q) /\ q.st = "flight"
      /\ Feed!Becomes(r, Feed!Advance([q EXCEPT !.st = "run"])) \/ Feed!Fails(r)
  BY DEF FeedInv, Feed!Answered, Feed!Refused
<1>2. Base(q) /\ q.end \in {"none", "on"} /\ ~Registered(q) BY <1>1 DEF Fits
<1>3. CASE Feed!Fails(r) BY <1>2, <1>3, FailsKeeps
<1>4. CASE Feed!Becomes(r, Feed!Advance([q EXCEPT !.st = "run"]))
  <2>1. PICK p : p = [q EXCEPT !.st = "run"] OBVIOUS
  <2>2. Feed!Becomes(r, Feed!Advance(p)) BY <1>4, <2>1
  <2> HIDE DEF q
  <2>3. /\ p \in FeedRecord /\ p.m = q.m /\ p.at = q.at /\ p.own = q.own
        /\ p.lines = q.lines /\ p.st = "run" /\ p.end = q.end
    BY <1>2, <2>1 DEF Base, FeedRecord
  <2>4. Base(p) /\ ~Registered(p) BY <1>2, <2>3 DEF Base, Compares, Registered
  <2> QED BY <1>2, <2>2, <2>3, <2>4, AdvancesKeep
<1> QED BY <1>1, <1>3, <1>4

LEMMA AcquireLineKeeps ==
    ASSUME FeedInv, NEW r \in Tasks, Feed!AcquireLine(r) PROVE FeedInv'
<1> DEFINE q == fReq[r]
<1>1. /\ Base(q) /\ q.st = "run" /\ q.end \in {"none", "on"} /\ NextStep(q) = "line"
      /\ Registered(q) => /\ q.sent > 0 => fUp /\ q.own = fSession
                          /\ Counts(q) /\ (NextStep(q) # "session" => q.own # 0)
  BY Running DEF Feed!AcquireLine
<1>2. PICK p : p = [q EXCEPT !.lines = @ + 1] OBVIOUS
<1>3. Feed!Becomes(r, Feed!Advance(p)) BY <1>2 DEF Feed!AcquireLine
<1> HIDE DEF q
<1>4. /\ p \in FeedRecord /\ p.m = q.m /\ p.at = q.at /\ p.own = q.own
      /\ p.lines = q.lines + 1 /\ p.sent = q.sent /\ p.st = "run" /\ p.end = q.end
  BY <1>1, <1>2 DEF Base, FeedRecord
<1>5. Method[q.m].care \notin Careless
  BY <1>1, StepKnown, RegisteredGoesOn DEF PlainMethod, NextStep, Base, Careless
<1>6. Base(p) BY <1>1, <1>4, <1>5 DEF Base, Compares, Registered
<1>7. NextStep(p) = "line" BY <1>1, <1>4 DEF NextStep
<1>8. Registered(p) => p.lines = p.sent + 1 /\ p.own # 0 /\ (p.sent > 0 => fUp /\ p.own = fSession)
  BY <1>1, <1>4 DEF Counts, Registered, Unsent
<1> QED BY <1>1, <1>3, <1>4, <1>6, <1>7, <1>8, AdvancesKeep

LEMMA WaitsKeeps ==
    ASSUME FeedInv, NEW r \in Tasks, Feed!Waits(r) PROVE FeedInv'
<1> DEFINE q == fReq[r]
<1>1. /\ Base(q) /\ q.st = "run" /\ q.end \in {"none", "on"}
      /\ NextStep(q) \in {"permit", "slot", "wait"}
      /\ Registered(q) => /\ q.sent > 0 => fUp /\ q.own = fSession
                          /\ Counts(q) /\ (NextStep(q) # "session" => q.own # 0)
                          /\ NextStep(q) \in RegisteredSteps
  BY Running DEF Feed!Waits
<1>2. Feed!Becomes(r, Feed!Advance(q)) BY DEF Feed!Waits
<1> HIDE DEF q
<1>3. Registered(q) =>
         q.lines = IF NextStep(q) \in {"line", "slot", "check", "check?"}
                   THEN q.sent + 1 ELSE q.sent
  BY <1>1 DEF Counts, Unsent, RegisteredSteps
<1> QED BY <1>1, <1>2, <1>3, AdvancesKeep

LEMMA FeedSendsKeeps ==
    ASSUME FeedInv, NEW r \in Tasks, Feed!Sends(r) PROVE FeedInv'
<1> DEFINE q == fReq[r]
<1>1. /\ Base(q) /\ q.st = "run" /\ q.end \in {"none", "on"}
      /\ NextStep(q) \in {"send", "send?"}
      /\ Registered(q) => Counts(q) /\ (NextStep(q) # "session" => q.own # 0)
  BY Running DEF Feed!Sends
<1>2. PICK p : p = [q EXCEPT !.sent = @ + 1, !.via = fSession] OBVIOUS
<1>3. fUp /\ q.own \in {0, fSession} /\ Feed!Becomes(r, Feed!Advance(p))
  BY <1>2 DEF Feed!Sends
<1>4. fSession \in Nat BY DEF FeedInv
<1> HIDE DEF q
<1>5. /\ p \in FeedRecord /\ p.m = q.m /\ p.at = q.at /\ p.own = q.own
      /\ p.lines = q.lines /\ p.sent = q.sent + 1 /\ p.st = "run" /\ p.end = q.end
  <2>1. q \in FeedRecord /\ q.sent + 1 \in Nat BY <1>1 DEF Base, FeedRecord
  <2> QED BY <1>1, <1>2, <1>4, <2>1 DEF FeedRecord
<1>6. Base(p) /\ NextStep(p) \in {"send", "send?"}
  BY <1>1, <1>5 DEF Base, Compares, Registered, NextStep
<1>7. Registered(p) => p.lines = p.sent /\ p.own # 0 /\ p.own = fSession
  BY <1>1, <1>3, <1>5 DEF Counts, Registered, Unsent
<1> QED BY <1>1, <1>3, <1>5, <1>6, <1>7, AdvancesKeep

LEMMA SendFailsKeeps ==
    ASSUME FeedInv, NEW r \in Tasks, Feed!SendFails(r) PROVE FeedInv'
<1>1. CASE Feed!At(r, {"send", "raise"}) /\ Feed!Fails(r)
  <2>1. Base(fReq[r]) BY <1>1, Running
  <2> QED BY <1>1, <2>1, FailsKeeps
<1>2. CASE Feed!At(r, {"send?"}) /\ Feed!Becomes(r, Feed!NextSymbol(fReq[r]))
  <2>1. Feed!At(r, {"check?", "send?"}) BY <1>2 DEF Feed!At
  <2> QED BY <1>2, <2>1, NextSymbolKeeps
<1> QED BY <1>1, <1>2 DEF Feed!SendFails

LEMMA TidiesKeeps ==
    ASSUME FeedInv, NEW r \in Tasks, Feed!Tidies(r) PROVE FeedInv'
<1> DEFINE q == fReq[r]
           last == Len(Method[q.m].steps)
<1>1. /\ Base(q) /\ NextStep(q) = "tidy"
      /\ Registered(q) => NextStep(q) \in RegisteredSteps
  BY Running DEF Feed!Tidies
<1>2. ~Registered(q) BY <1>1 DEF RegisteredSteps, Unsent
<1>3. CASE q.at = last
  <2>1. Feed!Becomes(r, Feed!Close(q, "ok")) BY <1>3 DEF Feed!Tidies, Feed!Steps
  <2> QED BY <1>1, <2>1, ClosesKeep DEF FeedEnds
<1>4. CASE q.at # last
  <2>1. PICK p : p = [q EXCEPT !.at = @ + 1] OBVIOUS
  <2>2. Feed!Becomes(r, Feed!Close(p, "on")) BY <1>4, <2>1 DEF Feed!Tidies, Feed!Steps
  <2>3. last \in Nat \ {0} /\ q.at \in 1..last /\ q \in FeedRecord
    BY <1>1, StepKnown DEF Base
  <2> HIDE DEF q, last
  <2>4. /\ p \in FeedRecord /\ p.m = q.m /\ p.at \in 1..last /\ p.own = q.own
        /\ p.lines = q.lines
    BY <1>4, <2>1, <2>3 DEF FeedRecord
  <2>5. Base(p) /\ ~Registered(p)
    BY <1>1, <1>2, <2>4 DEF Base, Compares, Registered, last
  <2> QED BY <2>2, <2>5, ClosedOnFits, BecomesKeeps
<1> QED BY <1>3, <1>4

LEMMA KeepsKeeps ==
    ASSUME FeedInv, NEW r \in Tasks, Feed!Keeps(r) PROVE FeedInv'
<1> DEFINE q == fReq[r]
<1>1. /\ Base(q) /\ NextStep(q) = "keep" /\ q.st = "run"
      /\ Registered(q) => /\ q.sent > 0 => fUp /\ q.own = fSession
                          /\ Counts(q)
      /\ ~Registered(q) => NextStep(q) \in PlainSteps
  BY Running DEF Feed!Keeps
<1>2. Registered(q) BY <1>1 DEF PlainSteps
<1>3. CASE Feed!Fails(r) BY <1>1, <1>3, FailsKeeps
<1>4. CASE Feed!Becomes(r, [q EXCEPT !.st = "kept", !.end = "ok"])
  <2>1. PICK p : p = [q EXCEPT !.st = "kept", !.end = "ok"] OBVIOUS
  <2>2. Feed!Becomes(r, p) BY <1>4, <2>1
  <2> HIDE DEF q
  <2>3. /\ p \in FeedRecord /\ p.m = q.m /\ p.at = q.at /\ p.own = q.own
        /\ p.lines = q.lines /\ p.sent = q.sent /\ p.st = "kept" /\ p.end = "ok"
    BY <1>1, <2>1 DEF Base, FeedRecord, FeedEnds
  <2>4. Base(p) /\ Registered(p) BY <1>1, <1>2, <2>3 DEF Base, Compares, Registered
  <2>5. p.lines = p.sent BY <1>1, <1>2, <2>3 DEF Counts, Unsent
  <2>6. Fits(p) BY <2>3, <2>4, <2>5 DEF Fits
  <2>7. OfSession(p, fUp, fSession) BY <1>1, <1>2, <2>3 DEF OfSession
  <2> QED BY <2>2, <2>6, <2>7, BecomesKeeps
<1> QED BY <1>3, <1>4 DEF Feed!Keeps

LEMMA CancelsSubscriptionKeeps ==
    ASSUME FeedInv, NEW r \in Tasks, Feed!CancelsSubscription(r) PROVE FeedInv'
<1> DEFINE q == fReq[r]
<1>1. Fits(q) /\ q.st = "undo" BY DEF FeedInv, Feed!CancelsSubscription
<1>2. PICK p : p = [q EXCEPT !.sent = 0] OBVIOUS
<1>3. Feed!Becomes(r, Feed!Close(p, q.end)) BY <1>2 DEF Feed!CancelsSubscription
<1> HIDE DEF q
<1>4. Base(q) /\ q.end # "none" /\ (Registered(q) => q.end # "on") BY <1>1 DEF Fits
<1>5. p \in FeedRecord /\ p.m = q.m /\ p.at = q.at /\ p.own = q.own /\ p.lines = q.lines
  BY <1>2, <1>4 DEF Base, FeedRecord
<1>6. Base(p) BY <1>4, <1>5 DEF Base, Compares, Registered
<1>7. CASE q.end = "on"
  <2>1. ~Registered(p) BY <1>4, <1>5, <1>7 DEF Registered
  <2> QED BY <1>3, <1>6, <1>7, <2>1, ClosedOnFits, BecomesKeeps
<1>8. CASE q.end # "on"
  <2>1. q.end \in FeedEnds BY <1>4, <1>8 DEF Base, FeedRecord
  <2> QED BY <1>3, <1>6, <2>1, ClosesKeep
<1> QED BY <1>7, <1>8

\* A line is released, and with `on` the batch goes on.
LEMMA ReleasesLinesKeeps ==
    ASSUME FeedInv, NEW r \in Tasks, Feed!ReleasesLines(r) PROVE FeedInv'
<1> DEFINE q == fReq[r]
<1>1. Fits(q) /\ q.st = "free" /\ OfSession(q, fUp, fSession)
  BY DEF FeedInv, Feed!ReleasesLines
<1>2. /\ Base(q) /\ q.end # "none" /\ q.lines > 0
      /\ q.sent = 0 \/ (Registered(q) /\ q.end = "on")
      /\ Registered(q) /\ q.end = "on" => q.lines = q.sent + 1 /\ NextStep(q) \notin Unsent
  BY <1>1 DEF Fits
<1>3. q \in FeedRecord BY <1>2 DEF Base
<1>4. CASE q.end = "on"
  <2>1. PICK p : p = [q EXCEPT !.lines = @ - 1, !.st = "run"] OBVIOUS
  <2>2. Feed!Becomes(r, p) BY <1>4, <2>1, <1>3 DEF Feed!ReleasesLines, FeedRecord
  <2> HIDE DEF q
  <2>3. q.lines - 1 \in Nat /\ (Method[q.m].care \notin Careless)
    BY <1>2, <1>3 DEF FeedRecord, Base
  <2>4. /\ p \in FeedRecord /\ p.m = q.m /\ p.at = q.at /\ p.own = q.own
        /\ p.lines = q.lines - 1 /\ p.sent = q.sent /\ p.st = "run" /\ p.end = "on"
    BY <1>3, <1>4, <2>1, <2>3 DEF FeedRecord
  <2>5. Base(p) BY <1>2, <2>3, <2>4 DEF Base, Compares, Registered
  <2>6. Registered(p) => Counts(p)
    BY <1>2, <1>3, <1>4, <2>4 DEF Counts, Registered, NextStep, FeedRecord
  <2>7. Fits(p) BY <2>4, <2>5, <2>6 DEF Fits
  <2>8. OfSession(p, fUp, fSession) BY <1>1, <2>4 DEF OfSession, Registered
  <2> QED BY <2>2, <2>7, <2>8, BecomesKeeps
<1>5. CASE q.end # "on"
  <2>1. PICK p : p = [q EXCEPT !.lines = 0] OBVIOUS
  <2>2. Feed!Becomes(r, Feed!Close(p, q.end)) BY <1>5, <2>1 DEF Feed!ReleasesLines
  <2> HIDE DEF q
  <2>3. p \in FeedRecord /\ p.m = q.m /\ p.at = q.at /\ p.own = q.own /\ p.lines = 0
    BY <1>3, <2>1 DEF FeedRecord
  <2>4. Base(p) BY <1>2, <2>3 DEF Base, Compares, Registered
  <2>5. q.end \in FeedEnds BY <1>2, <1>3, <1>5 DEF FeedRecord
  <2> QED BY <2>2, <2>4, <2>5, ClosesKeep
<1> QED BY <1>4, <1>5

\* A cleanup that is cut short holds no line any more and has cancelled its
\* subscription, but in an option request that is cancelled.
LEMMA AbandonedFits ==
    ASSUME NEW q, Base(q), NEW end \in {"failed", "cancelled"},
           q.sent = 0 \/ (Method[q.m].care = "late" /\ end = "cancelled")
    PROVE  /\ Fits(Feed!Abandons(q, end))
           /\ \A u, s : OfSession(Feed!Abandons(q, end), u, s)
<1>1. PICK p : p = Feed!Abandons(q, end) OBVIOUS
<1>2. /\ p \in FeedRecord /\ p.m = q.m /\ p.at = q.at /\ p.own = q.own
      /\ p.lines = 0 /\ p.sent = q.sent /\ p.st = "over" /\ p.end = end
  BY <1>1 DEF Feed!Abandons, Base, FeedRecord, FeedEnds
<1>3. Base(p) BY <1>2 DEF Base, Compares, Registered
<1>4. p.sent = 0 \/ (Method[p.m].care = "late" /\ p.end = "cancelled")
  BY <1>2
<1>5. Fits(p) BY <1>2, <1>3, <1>4 DEF Fits
<1>6. \A u, s : OfSession(p, u, s) BY <1>2 DEF OfSession
<1> QED BY <1>1, <1>5, <1>6

LEMMA InterruptedKeeps ==
    ASSUME FeedInv, NEW r \in Tasks, NEW end \in {"failed", "cancelled"},
           Feed!Interrupted(r, end),
           Method[fReq[r].m].care = "late" => end = "cancelled"
    PROVE  FeedInv'
<1> DEFINE q == fReq[r]
           care == Method[q.m].care
<1>1. Fits(q) /\ OfSession(q, fUp, fSession) BY DEF FeedInv
<1>2. Base(q) /\ q \in FeedRecord /\ end \in FeedEnds /\ care \in Feed!Care
  BY <1>1, StepKnown DEF Fits, Base, FeedEnds
<1>3. CASE Feed!Becomes(r, Feed!Close(q, end)) BY <1>2, <1>3, ClosesKeep
<1>4. CASE Feed!Becomes(r, Feed!Abandons(q, end)) /\ care = "late"
  <2>1. end = "cancelled" BY <1>4
  <2> QED BY <1>2, <1>4, <2>1, AbandonedFits, BecomesKeeps
<1>5. CASE q.st = "free" /\ ~Feed!Shielded(q) /\ Feed!Becomes(r, Feed!Abandons(q, end))
  <2>1. care # "retained" BY <1>5 DEF Feed!Shielded, Feed!CareOf
  <2>2. q.sent = 0 BY <1>1, <1>5, <2>1 DEF Fits
  <2> QED BY <1>2, <1>5, <2>2, AbandonedFits, BecomesKeeps
<1>6. CASE /\ q.st \in {"undo", "free"} /\ Feed!Shielded(q)
           /\ q.st = "free" /\ q.end = "on"
           /\ Feed!Becomes(r, Feed!Close([q EXCEPT !.lines = @ - 1], end))
  <2>1. PICK p : p = [q EXCEPT !.lines = @ - 1] OBVIOUS
  <2>2. Feed!Becomes(r, Feed!Close(p, end)) BY <1>6, <2>1
  <2>3. q.lines > 0 /\ care \in {"retained", "ticker"}
    BY <1>1, <1>6 DEF Fits, Feed!Shielded, Feed!CareOf
  <2>4. q.lines - 1 \in Nat BY <1>2, <2>3 DEF FeedRecord
  <2> HIDE DEF q
  <2>5. p \in FeedRecord /\ p.m = q.m /\ p.at = q.at /\ p.own = q.own
    BY <1>2, <2>1, <2>4 DEF FeedRecord
  <2>6. Base(p) BY <1>2, <2>3, <2>5 DEF Base, Compares, Registered, Careless
  <2> QED BY <1>2, <2>2, <2>6, ClosesKeep
<1>7. CASE /\ q.st \in {"undo", "free"} /\ ~(q.st = "free" /\ q.end = "on")
           /\ Feed!Becomes(r, [q EXCEPT !.end = end])
  <2>1. PICK p : p = [q EXCEPT !.end = end] OBVIOUS
  <2>2. Feed!Becomes(r, p) BY <1>7, <2>1
  <2>3. /\ q.st = "free" => q.lines > 0 /\ q.sent = 0
        /\ q.st \in {"undo", "free"}
    BY <1>1, <1>7 DEF Fits
  <2> HIDE DEF q
  <2>4. /\ p \in FeedRecord /\ p.m = q.m /\ p.at = q.at /\ p.own = q.own
        /\ p.lines = q.lines /\ p.sent = q.sent /\ p.st = q.st /\ p.end = end
        /\ end \notin {"none", "on"}
    BY <1>2, <2>1 DEF FeedRecord, FeedEnds
  <2>5. Base(p) BY <1>2, <2>4 DEF Base, Compares, Registered
  <2>6. Fits(p)
    <3>1. CASE q.st = "undo" BY <2>4, <2>5, <3>1 DEF Fits
    <3>2. CASE q.st = "free" BY <2>3, <2>4, <2>5, <3>2 DEF Fits
    <3> QED BY <2>3, <3>1, <3>2
  <2>7. OfSession(p, fUp, fSession) BY <2>3, <2>4 DEF OfSession
  <2> QED BY <2>2, <2>6, <2>7, BecomesKeeps
<1>8. CASE /\ q.st = "undo" /\ ~Feed!Shielded(q) /\ care = "depth"
           /\ Feed!Becomes(r, Feed!Abandons([q EXCEPT !.sent = 0], end))
  <2>1. PICK p : p = [q EXCEPT !.sent = 0] OBVIOUS
  <2>2. Feed!Becomes(r, Feed!Abandons(p, end)) BY <1>8, <2>1
  <2> HIDE DEF q
  <2>3. p \in FeedRecord /\ p.m = q.m /\ p.at = q.at /\ p.own = q.own /\ p.lines = q.lines
        /\ p.sent = 0
    BY <1>2, <2>1 DEF FeedRecord
  <2>4. Base(p) BY <1>2, <2>3 DEF Base, Compares, Registered
  <2> QED BY <2>2, <2>3, <2>4, AbandonedFits, BecomesKeeps
<1>9. CASE Feed!Becomes(r, Feed!Close([q EXCEPT !.sent = 0], end))
  <2>1. PICK p : p = [q EXCEPT !.sent = 0] OBVIOUS
  <2>2. Feed!Becomes(r, Feed!Close(p, end)) BY <1>9, <2>1
  <2> HIDE DEF q
  <2>3. p \in FeedRecord /\ p.m = q.m /\ p.at = q.at /\ p.own = q.own /\ p.lines = q.lines
    BY <1>2, <2>1 DEF FeedRecord
  <2>4. Base(p) BY <1>2, <2>3 DEF Base, Compares, Registered
  <2> QED BY <1>2, <2>2, <2>4, ClosesKeep
<1> HIDE DEF q
<1>10. \/ Feed!Becomes(r, Feed!Close(q, end))
       \/ Feed!Becomes(r, Feed!Abandons(q, end)) /\ care = "late"
       \/ q.st = "free" /\ ~Feed!Shielded(q) /\ Feed!Becomes(r, Feed!Abandons(q, end))
       \/ /\ q.st \in {"undo", "free"} /\ Feed!Shielded(q)
          /\ q.st = "free" /\ q.end = "on"
          /\ Feed!Becomes(r, Feed!Close([q EXCEPT !.lines = @ - 1], end))
       \/ /\ q.st \in {"undo", "free"} /\ ~(q.st = "free" /\ q.end = "on")
          /\ Feed!Becomes(r, [q EXCEPT !.end = end])
       \/ /\ q.st = "undo" /\ ~Feed!Shielded(q) /\ care = "depth"
          /\ Feed!Becomes(r, Feed!Abandons([q EXCEPT !.sent = 0], end))
       \/ Feed!Becomes(r, Feed!Close([q EXCEPT !.sent = 0], end))
  BY DEF Feed!Interrupted, Feed!Unprotected, Feed!CareOf, q
<1> QED BY <1>3, <1>4, <1>5, <1>6, <1>7, <1>8, <1>9, <1>10

\* The limit of a method on its own time is one of a depth request or of a
\* reference request, whose cleanup is shielded.
LEMMA TimesOutKeeps ==
    ASSUME FeedInv, NEW r \in Tasks, Feed!TimesOut(r) PROVE FeedInv'
<1>1. Method["equity_reference"].care = "retained"
  BY DEF Method, EquityReference
<1>2. Method[fReq[r].m].care # "late"
  BY <1>1 DEF Feed!TimesOut, Feed!CareOf
<1> QED BY <1>2, InterruptedKeeps DEF Feed!TimesOut

\* The time limit of a cleanup in a task of its own.
LEMMA ExpiresKeeps ==
    ASSUME FeedInv, NEW r \in Tasks, Feed!Expires(r) PROVE FeedInv'
<1> DEFINE q == fReq[r]
           end == IF q.end = "on" THEN "failed" ELSE q.end
           left == IF q.end = "on" THEN 1 ELSE q.lines
<1>1. Fits(q) /\ q.st \in {"undo", "free"} BY DEF FeedInv, Feed!Expires
<1>2. Base(q) /\ q \in FeedRecord /\ q.end # "none" BY <1>1 DEF Fits, Base
<1>3. end \in FeedEnds BY <1>2 DEF FeedRecord, FeedEnds
<1>4. CASE q.st = "undo"
  <2>1. PICK p : p = [q EXCEPT !.sent = 0] OBVIOUS
  <2>2. Feed!Becomes(r, Feed!Close(p, end)) BY <1>4, <2>1 DEF Feed!Expires
  <2> HIDE DEF q, end
  <2>3. p \in FeedRecord /\ p.m = q.m /\ p.at = q.at /\ p.own = q.own /\ p.lines = q.lines
    BY <1>2, <2>1 DEF FeedRecord
  <2>4. Base(p) BY <1>2, <2>3 DEF Base, Compares, Registered
  <2> QED BY <1>3, <2>2, <2>4, ClosesKeep
<1>5. CASE q.st = "free"
  <2>1. PICK n \in 1..left :
           Feed!Becomes(r, Feed!Close([q EXCEPT !.lines = @ - left, !.expired = @ + n], end))
    BY <1>5 DEF Feed!Expires
  <2>2. PICK p : p = [q EXCEPT !.lines = @ - left, !.expired = @ + n] OBVIOUS
  <2>3. Feed!Becomes(r, Feed!Close(p, end)) BY <2>1, <2>2
  <2>4. q.lines > 0 BY <1>1, <1>5 DEF Fits
  <2>5. left \in Nat /\ q.lines - left \in Nat /\ q.expired + n \in Nat
    BY <1>2, <2>4 DEF FeedRecord
  <2>6. Method[q.m].care \notin Careless BY <1>2, <2>4 DEF Base
  <2> HIDE DEF q, end, left
  <2>7. p \in FeedRecord /\ p.m = q.m /\ p.at = q.at /\ p.own = q.own
    BY <1>2, <2>2, <2>5 DEF FeedRecord
  <2>8. Base(p) BY <1>2, <2>6, <2>7 DEF Base, Compares, Registered
  <2> QED BY <1>3, <2>3, <2>8, ClosesKeep
<1> QED BY <1>1, <1>4, <1>5

LEMMA LeaseExpiresKeeps ==
    ASSUME FeedInv, NEW r \in Tasks, Feed!LeaseExpires(r) PROVE FeedInv'
<1> DEFINE q == fReq[r]
<1>1. Fits(q) /\ q.st = "over" BY DEF FeedInv, Feed!LeaseExpires
<1>2. PICK p : p = [q EXCEPT !.cut = 0, !.expired = 0] OBVIOUS
<1>3. Feed!Becomes(r, p) BY <1>2 DEF Feed!LeaseExpires
<1> HIDE DEF q
<1>4. /\ Base(q) /\ q \in FeedRecord /\ q.lines = 0
      /\ q.sent = 0 \/ (Method[q.m].care = "late" /\ q.end = "cancelled")
  BY <1>1 DEF Fits, Base
<1>5. /\ p \in FeedRecord /\ p.m = q.m /\ p.at = q.at /\ p.own = q.own
      /\ p.lines = 0 /\ p.sent = q.sent /\ p.st = "over" /\ p.end = q.end
  BY <1>1, <1>2, <1>4 DEF FeedRecord
<1>6. Base(p) BY <1>4, <1>5 DEF Base, Compares, Registered
<1>7. Fits(p) BY <1>4, <1>5, <1>6 DEF Fits
<1>8. OfSession(p, fUp, fSession) BY <1>5 DEF OfSession
<1> QED BY <1>3, <1>7, <1>8, BecomesKeeps

\* The registry forgets the tickers of the session that ended.
LEMMA SessionEndsKeeps ==
    ASSUME FeedInv, Feed!SessionEnds PROVE FeedInv'
<1>1. /\ fUp' = FALSE /\ fSession' = fSession
      /\ fReq' = [r \in Tasks |-> Feed!SessionEnded(fReq[r])]
  BY DEF Feed!SessionEnds
<1>2. ASSUME NEW r \in Tasks
      PROVE  Fits(Feed!SessionEnded(fReq[r]))
             /\ OfSession(Feed!SessionEnded(fReq[r]), FALSE, fSession)
  <2> DEFINE q == fReq[r]
  <2>1. PICK p : p = Feed!SessionEnded(q) OBVIOUS
  <2>2. Fits(q) BY DEF FeedInv
  <2>3. Base(q) /\ q \in FeedRecord BY <2>2 DEF Fits, Base
  <2>4. Feed!Registers(q) <=> Registered(q) BY <2>3, RegistersIsRegistered
  <2> HIDE DEF q
  <2>5. CASE ~(Registered(q) /\ q.st \in {"run", "flight", "free", "kept"} /\ q.sent > 0)
    <3>1. p = q BY <2>1, <2>4, <2>5 DEF Feed!SessionEnded
    <3> QED BY <2>1, <2>2, <2>5, <3>1 DEF OfSession, q
  <2>6. CASE Registered(q) /\ q.st \in {"run", "flight", "free", "kept"} /\ q.sent > 0
    <3>1. /\ q.st # "flight"
          /\ q.st = "run" => Counts(q) /\ q.end \in {"none", "on"}
          /\ q.st = "kept" => q.lines = q.sent
          /\ q.st = "free" => /\ q.end = "on" /\ q.lines = q.sent + 1
                              /\ NextStep(q) \notin Unsent
                              /\ Method[q.m].care = "retained"
      BY <2>2, <2>3, <2>6 DEF Fits, FeedRecord
    <3>2. p = [q EXCEPT !.lines = @ - q.sent, !.sent = 0,
                        !.st = IF @ = "kept" THEN "over" ELSE @]
      BY <2>1, <2>4, <2>6 DEF Feed!SessionEnded
    <3>3. q.lines - q.sent \in Nat
      BY <2>3, <2>6, <3>1 DEF FeedRecord, Counts
    <3>4. /\ p \in FeedRecord /\ p.m = q.m /\ p.at = q.at /\ p.own = q.own
          /\ p.lines = q.lines - q.sent /\ p.sent = 0 /\ p.end = q.end
          /\ p.st = IF q.st = "kept" THEN "over" ELSE q.st
      BY <2>3, <3>2, <3>3 DEF FeedRecord
    <3>5. Method[q.m].care \notin Careless
      BY <2>3, <2>6, RegisteredGoesOn DEF Careless
    <3>6. Base(p) /\ Registered(p) /\ NextStep(p) = NextStep(q)
      BY <2>3, <2>6, <3>4, <3>5 DEF Base, Compares, Registered, NextStep
    <3>7. Fits(p)
      <4>1. CASE q.st = "run"
        <5>1. Counts(p) BY <2>3, <3>1, <3>4, <3>6, <4>1 DEF Counts, FeedRecord
        <5> QED BY <3>1, <3>4, <3>6, <4>1, <5>1 DEF Fits
      <4>2. CASE q.st = "kept"
        <5>1. p.lines = 0 /\ p.st = "over" BY <2>3, <3>1, <3>4, <4>2 DEF FeedRecord
        <5> QED BY <3>4, <3>6, <5>1 DEF Fits
      <4>3. CASE q.st = "free"
        <5>1. p.lines = 1 /\ p.st = "free" BY <2>3, <3>1, <3>4, <4>3 DEF FeedRecord
        <5> QED BY <3>1, <3>4, <3>6, <4>3, <5>1 DEF Fits
      <4> QED BY <2>6, <3>1, <4>1, <4>2, <4>3
    <3>8. OfSession(p, FALSE, fSession) BY <3>4 DEF OfSession
    <3> QED BY <2>1, <3>7, <3>8 DEF q
  <2> QED BY <2>5, <2>6
<1> HIDE DEF Fits, OfSession
<1>3. \A r \in Tasks : Fits(fReq'[r]) /\ OfSession(fReq'[r], FALSE, fSession)
  BY <1>1, <1>2
<1>4. fReq' = [r \in Tasks |-> fReq'[r]] BY <1>1
<1> QED BY <1>1, <1>3, <1>4 DEF FeedInv

LEMMA SessionBeginsKeeps ==
    ASSUME FeedInv, Feed!SessionBegins PROVE FeedInv'
<1>1. ~fUp /\ fUp' = TRUE /\ fSession' = fSession + 1 /\ fReq' = fReq
  BY DEF Feed!SessionBegins
<1>2. \A r \in Tasks : Fits(fReq[r]) /\ OfSession(fReq[r], TRUE, fSession + 1)
  BY <1>1 DEF FeedInv, OfSession
<1>3. fSession + 1 \in Nat \ {0} BY DEF FeedInv
<1> HIDE DEF Fits, OfSession
<1>4. \A r \in Tasks : Fits(fReq'[r]) /\ OfSession(fReq'[r], fUp', fSession')
  BY <1>1, <1>2
<1>5. fReq' = [r \in Tasks |-> fReq'[r]] BY <1>1 DEF FeedInv
<1> QED BY <1>1, <1>3, <1>4, <1>5 DEF FeedInv

LEMMA FeedKept ==
    ASSUME FeedInv, [Feed!Next]_feedVars PROVE FeedInv'
<1>1. ASSUME NEW r \in Tasks, Feed!Step(r) PROVE FeedInv'
  <2>1. CASE Feed!Unsubscribes(r)
    <3>1. Base(fReq[r]) BY DEF FeedInv, Fits
    <3> QED BY <2>1, <3>1, ClosesKeep DEF Feed!Unsubscribes, FeedEnds
  <2>2. CASE Feed!Cancelled(r) BY <2>2, InterruptedKeeps DEF Feed!Cancelled
  <2> QED
    BY <1>1, <2>1, <2>2, BeginKeeps, EnsureConnectedKeeps, CaptureSessionKeeps,
       RequireSessionKeeps, CallAsksKeeps, SkipsKeeps, RepliedKeeps, AcquireLineKeeps,
       WaitsKeeps, FeedSendsKeeps, SendFailsKeeps, TidiesKeeps, KeepsKeeps,
       CancelsSubscriptionKeeps, ReleasesLinesKeeps, TimesOutKeeps, ExpiresKeeps,
       LeaseExpiresKeeps
    DEF Feed!Step
<1>2. CASE UNCHANGED feedVars BY <1>2 DEF feedVars, FeedInv, Fits, OfSession
<1> QED BY <1>1, <1>2, SessionEndsKeeps, SessionBeginsKeeps DEF Feed!Next

LEMMA FeedInit == SuiteInit => FeedInv
<1> SUFFICES ASSUME SuiteInit PROVE FeedInv OBVIOUS
<1>1. Feed!FeedAssumption BY PartsAssumption
<1>2. Feed!Init BY DEF SuiteInit
<1>3. PICK ask \in [Tasks -> UNION {MethodsOf[r] : r \in Tasks}] :
         /\ \A r \in Tasks : ask[r] \in MethodsOf[r]
         /\ fReq = [r \in Tasks |->
                      [m |-> ask[r], at |-> 1, own |-> 0, via |-> 0, lines |-> 0,
                       sent |-> 0, cut |-> 0, expired |-> 0, st |-> "idle", end |-> "none"]]
  BY <1>2 DEF Feed!Init
<1>4. ASSUME NEW r \in Tasks PROVE Fits(fReq[r]) /\ OfSession(fReq[r], fUp, fSession)
  <2> DEFINE q == fReq[r]
  <2>1. ask[r] \in DOMAIN Method BY <1>1, <1>3 DEF Feed!FeedAssumption
  <2>2. /\ q \in FeedRecord /\ q.m = ask[r] /\ q.at = 1 /\ q.own = 0 /\ q.lines = 0
        /\ q.sent = 0 /\ q.st = "idle" /\ q.end = "none"
    BY <1>3, <2>1 DEF FeedRecord
  <2> HIDE DEF q
  <2>3. Len(Method[q.m].steps) \in Nat \ {0} BY <2>1, <2>2, MethodShapes DEF Shape
  <2>4. Base(q) BY <2>2, <2>3 DEF Base
  <2>5. Fits(q) /\ OfSession(q, fUp, fSession) BY <2>2, <2>4 DEF Fits, OfSession
  <2> QED BY <2>5 DEF q
<1>5. fUp \in BOOLEAN /\ fSession \in Nat \ {0} BY <1>2 DEF Feed!Init
<1>6. fReq = [r \in Tasks |-> fReq[r]] BY <1>3
<1> QED BY <1>4, <1>5, <1>6 DEF FeedInv

\* The invariant of the feed requests.
LEMMA FeedInvariant == SuiteSpec => []FeedInv
<1>1. FeedInv /\ [SuiteNext]_<<part, rateVars, pacingVars, feedVars, rangeVars>> => FeedInv'
  <2> SUFFICES ASSUME FeedInv,
                      [SuiteNext]_<<part, rateVars, pacingVars, feedVars, rangeVars>>
               PROVE  FeedInv'
    OBVIOUS
  <2>1. Feed!Next \/ UNCHANGED feedVars
    BY DEF SuiteNext, RateSuite, LimitsSuite, PoolSuite, FeedSuite, RangeSuite
  <2> QED BY <2>1, FeedKept
<1> QED BY <1>1, FeedInit, PTL DEF SuiteSpec

(* The registry of live tickers never outlives its session. *)
THEOREM TickersAlwaysHaveASession == SuiteSpec => []TickersHaveASession
<1>1. FeedInv => TickersHaveASession
  <2> SUFFICES ASSUME FeedInv, NEW r \in Tasks, fReq[r].st = "kept"
               PROVE  LET q == fReq[r] IN
                      q.lines = q.sent /\ (q.sent > 0 => fUp /\ q.own = fSession)
    BY DEF TickersHaveASession, Feed!TickersHaveASession
  <2>1. Fits(fReq[r]) /\ OfSession(fReq[r], fUp, fSession) BY DEF FeedInv
  <2>2. Registered(fReq[r]) /\ fReq[r].lines = fReq[r].sent BY <2>1 DEF Fits
  <2> QED BY <2>1, <2>2 DEF OfSession
<1> QED BY <1>1, FeedInvariant, PTL

-----------------------------------------------------------------------------
\* How a request comes to an answer.

LEMMA ClosedEnd ==
    ASSUME NEW q \in FeedRecord, NEW end PROVE Feed!Close(q, end).end = end
BY DEF Feed!Close, FeedRecord

\* Going on gives an answer only after the last step.
LEMMA AnswersAtTheEnd ==
    ASSUME NEW q \in FeedRecord, q.end # "ok", Feed!Advance(q).end = "ok"
    PROVE  q.at = Len(Method[q.m].steps)
BY DEF Feed!Advance, Feed!Steps, FeedRecord

LEMMA ComparesLast ==
    ASSUME NEW q, Base(q), q.own # 0
    PROVE  /\ NextStep(q) # "more"
           /\ q.at = Len(Method[q.m].steps) => NextStep(q) \in {"check", "keep"}
<1>1. CASE Registered(q)
  BY <1>1, StepKnown, RegisteredGoesOn DEF RegisteredSteps, Unsent
<1>2. CASE ~Registered(q)
  <2>1. /\ Method[q.m].steps \in Seq(PlainSteps \ {"more"})
        /\ Method[q.m].steps[Len(Method[q.m].steps)] = "check"
    BY <1>2 DEF Base, Compares
  <2> QED BY <2>1 DEF NextStep, Base
<1> QED BY <1>1, <1>2

\* The step of the request itself.
LEMMA OwnStepAnswers ==
    ASSUME FeedInv, NEW r \in Tasks, Feed!Step(r), fReq[r].st \in {"run", "flight"},
           fReq[r].own # 0, fReq'[r].end = "ok"
    PROVE  fUp /\ fReq[r].own = fSession
<1> DEFINE q == fReq[r]
<1>1. Fits(q) BY DEF FeedInv
<1>2. Base(q) /\ q \in FeedRecord /\ q.end \in {"none", "on"} BY <1>1 DEF Fits, Base
<1>3. ASSUME NEW p, Feed!Becomes(r, p) PROVE p.end = "ok"
  BY <1>3 DEF Feed!Becomes, FeedInv
<1>4. ~Feed!Fails(r)
  BY <1>2, <1>3, ClosedEnd DEF Feed!Fails
<1>5. ASSUME NEW p \in FeedRecord, p.m = q.m, p.at = q.at, p.end = q.end,
             Feed!Becomes(r, Feed!Advance(p))
      PROVE  NextStep(q) \in {"check", "keep"}
  <2>1. Feed!Advance(p).end = "ok" BY <1>3, <1>5
  <2>2. p.at = Len(Method[p.m].steps) BY <1>2, <1>5, <2>1, AnswersAtTheEnd
  <2> QED BY <1>2, <1>5, <2>2, ComparesLast
<1>6. ~Feed!Becomes(r, Feed!NextSymbol(q))
  <2>1. Feed!NextSymbol(q).end = "on" BY <1>2 DEF Feed!NextSymbol, FeedRecord
  <2> QED BY <1>3, <2>1
<1>7. fSession \in Nat BY DEF FeedInv
<1>8. NextStep(q) = Feed!Steps(fReq[r])[fReq[r].at] BY DEF NextStep, Feed!Steps
<1>9. CASE Feed!EnsureConnected(r) \/ Feed!Waits(r)
  <2>1. NextStep(q) \in {"connect", "permit", "slot", "wait"}
    BY <1>8, <1>9 DEF Feed!EnsureConnected, Feed!Waits, Feed!At
  <2>2. Feed!Becomes(r, Feed!Advance(q)) BY <1>4, <1>9 DEF Feed!EnsureConnected, Feed!Waits
  <2> QED BY <1>2, <1>5, <2>1, <2>2
<1>10. CASE Feed!CaptureSession(r)
  <2>1. NextStep(q) = "session" BY <1>8, <1>10 DEF Feed!CaptureSession, Feed!At
  <2>2. PICK p : p = [q EXCEPT !.own = fSession] OBVIOUS
  <2>3. Feed!Becomes(r, Feed!Advance(p)) BY <1>4, <1>10, <2>2 DEF Feed!CaptureSession
  <2>4. p \in FeedRecord /\ p.m = q.m /\ p.at = q.at /\ p.end = q.end
    BY <1>2, <1>7, <2>2 DEF FeedRecord
  <2> QED BY <1>5, <2>1, <2>3, <2>4
<1>11. CASE Feed!RequireSession(r) \/ Feed!Keeps(r)
  BY <1>4, <1>6, <1>11 DEF Feed!RequireSession, Feed!Keeps, Feed!SameSession
<1>12. CASE Feed!Asks(r)
  <2>1. Feed!Becomes(r, [q EXCEPT !.st = "flight", !.via = fSession])
    BY <1>4, <1>12 DEF Feed!Asks
  <2>2. [q EXCEPT !.st = "flight", !.via = fSession].end = q.end BY <1>2 DEF FeedRecord
  <2> QED BY <1>2, <1>3, <2>1, <2>2
<1>13. CASE Feed!Skips(r)
  <2>1. NextStep(q) # "more" BY <1>2, ComparesLast
  <2>2. NextStep(q) = "call?" /\ Feed!Becomes(r, Feed!Advance(q))
    BY <1>8, <1>13, <2>1 DEF Feed!Skips, Feed!At
  <2> QED BY <1>2, <1>5, <2>2
<1>14. CASE Feed!Answered(r) \/ Feed!Refused(r)
  <2>1. q.st = "flight" BY <1>14 DEF Feed!Answered, Feed!Refused
  <2>2. NextStep(q) \in {"call", "call?", "ask"} BY <1>1, <2>1 DEF Fits
  <2>3. PICK p : p = [q EXCEPT !.st = "run"] OBVIOUS
  <2>4. Feed!Becomes(r, Feed!Advance(p))
    BY <1>4, <1>14, <2>3 DEF Feed!Answered, Feed!Refused
  <2>5. p \in FeedRecord /\ p.m = q.m /\ p.at = q.at /\ p.end = q.end
    BY <1>2, <2>3 DEF FeedRecord
  <2> QED BY <1>5, <2>2, <2>4, <2>5
<1>15. CASE Feed!AcquireLine(r)
  <2>1. NextStep(q) = "line" BY <1>8, <1>15 DEF Feed!AcquireLine, Feed!At
  <2>2. PICK p : p = [q EXCEPT !.lines = @ + 1] OBVIOUS
  <2>3. Feed!Becomes(r, Feed!Advance(p)) BY <1>15, <2>2 DEF Feed!AcquireLine
  <2>4. p \in FeedRecord /\ p.m = q.m /\ p.at = q.at /\ p.end = q.end
    BY <1>2, <2>2 DEF FeedRecord
  <2> QED BY <1>5, <2>1, <2>3, <2>4
<1>16. CASE Feed!Sends(r)
  <2>1. NextStep(q) \in {"send", "send?"} BY <1>8, <1>16 DEF Feed!Sends, Feed!At
  <2>2. PICK p : p = [q EXCEPT !.sent = @ + 1, !.via = fSession] OBVIOUS
  <2>3. Feed!Becomes(r, Feed!Advance(p)) BY <1>16, <2>2 DEF Feed!Sends
  <2>4. p \in FeedRecord /\ p.m = q.m /\ p.at = q.at /\ p.end = q.end
    <3>1. q.sent + 1 \in Nat BY <1>2 DEF FeedRecord
    <3> QED BY <1>2, <1>7, <2>2, <3>1 DEF FeedRecord
  <2> QED BY <1>5, <2>1, <2>3, <2>4
<1>17. CASE Feed!Tidies(r)
  <2>1. NextStep(q) = "tidy" BY <1>8, <1>17 DEF Feed!Tidies, Feed!At
  <2>2. q.at # Len(Method[q.m].steps) BY <1>2, <2>1, ComparesLast
  <2>3. PICK p : p = [q EXCEPT !.at = @ + 1] OBVIOUS
  <2>4. Feed!Becomes(r, Feed!Close(p, "on"))
    BY <1>17, <2>2, <2>3 DEF Feed!Tidies, Feed!Steps
  <2>5. p \in FeedRecord BY <1>2, <2>3 DEF FeedRecord
  <2> QED BY <1>3, <2>4, <2>5, ClosedEnd
<1>18. CASE Feed!SendFails(r) BY <1>4, <1>6, <1>18 DEF Feed!SendFails
<1>19. ASSUME NEW end \in {"failed", "cancelled"} PROVE ~Feed!Interrupted(r, end)
  <2>1. ~Feed!Becomes(r, Feed!Close(q, end)) BY <1>2, <1>3, ClosedEnd
  <2>2. ~Feed!Becomes(r, Feed!Abandons(q, end))
    <3>1. Feed!Abandons(q, end).end = end BY <1>2 DEF Feed!Abandons, FeedRecord
    <3> QED BY <1>3, <3>1
  <2> QED BY <2>1, <2>2 DEF Feed!Interrupted
<1>20. ~Feed!Cancelled(r) /\ ~Feed!TimesOut(r)
  BY <1>19 DEF Feed!Cancelled, Feed!TimesOut
<1>21. /\ ~Feed!Begin(r) /\ ~Feed!Unsubscribes(r) /\ ~Feed!CancelsSubscription(r)
       /\ ~Feed!ReleasesLines(r) /\ ~Feed!Expires(r) /\ ~Feed!LeaseExpires(r)
  BY DEF Feed!Begin, Feed!Unsubscribes, Feed!CancelsSubscription, Feed!ReleasesLines,
         Feed!Expires, Feed!LeaseExpires
<1> QED
  BY <1>9, <1>10, <1>11, <1>12, <1>13, <1>14, <1>15, <1>16, <1>17, <1>18, <1>20, <1>21
  DEF Feed!Step

LEMMA AnswersOfTheSession ==
    ASSUME FeedInv, Feed!Next, NEW r \in Tasks, fReq[r].st \in {"run", "flight"},
           fReq'[r].end = "ok", fReq[r].own # 0
    PROVE  fUp /\ fReq[r].own = fSession
<1> DEFINE q == fReq[r]
<1>1. q \in FeedRecord /\ q.end # "ok" BY DEF FeedInv, Fits, Base
<1>2. ASSUME NEW k \in Tasks, k # r, Feed!Step(k) PROVE FALSE
  <2>1. ASSUME NEW p, Feed!Becomes(k, p) PROVE fReq'[r] = fReq[r]
    BY <1>2, <2>1 DEF Feed!Becomes, FeedInv
  <2>2. \E p : Feed!Becomes(k, p)
    BY <1>2
    DEF Feed!Step, Feed!Begin, Feed!EnsureConnected, Feed!CaptureSession,
        Feed!RequireSession, Feed!Asks, Feed!Skips, Feed!Answered, Feed!Refused,
        Feed!AcquireLine, Feed!Waits, Feed!Sends, Feed!SendFails, Feed!Tidies, Feed!Keeps,
        Feed!Unsubscribes, Feed!CancelsSubscription, Feed!ReleasesLines, Feed!Cancelled,
        Feed!TimesOut, Feed!Expires, Feed!LeaseExpires, Feed!Fails, Feed!Interrupted
  <2> QED BY <1>1, <2>1, <2>2
<1>3. ~Feed!SessionEnds
  <2>1. Feed!SessionEnded(q).end = q.end BY <1>1 DEF Feed!SessionEnded, FeedRecord
  <2> QED BY <1>1, <2>1 DEF Feed!SessionEnds
<1>4. ~Feed!SessionBegins BY <1>1 DEF Feed!SessionBegins
<1>5. CASE Feed!Step(r) BY <1>5, OwnStepAnswers
<1> QED BY <1>2, <1>3, <1>4, <1>5 DEF Feed!Next

(* A reply or a ticker of a session that ended while the request waited is
   never returned as an answer: whatever method captured its session answers
   while that session is up. *)
THEOREM AnswersAreAlwaysOfOneSession == SuiteSpec => AnswersAreOfOneSession
<1>1. FeedInv /\ [SuiteNext]_<<part, rateVars, pacingVars, feedVars, rangeVars>>
        => [\A r \in Tasks :
              LET q == fReq[r] IN
              (q.st \in {"run", "flight"} /\ fReq'[r].end = "ok" /\ q.own # 0)
                  => fUp /\ q.own = fSession]_feedVars
  <2> SUFFICES ASSUME FeedInv,
                      [SuiteNext]_<<part, rateVars, pacingVars, feedVars, rangeVars>>,
                      feedVars' # feedVars, NEW r \in Tasks,
                      fReq[r].st \in {"run", "flight"}, fReq'[r].end = "ok", fReq[r].own # 0
               PROVE  fUp /\ fReq[r].own = fSession
    OBVIOUS
  <2>1. Feed!Next
    BY DEF SuiteNext, RateSuite, LimitsSuite, PoolSuite, FeedSuite, RangeSuite
  <2> QED BY <2>1, AnswersOfTheSession
<1>2. AnswersAreOfOneSession
        <=> [][\A r \in Tasks :
                 LET q == fReq[r] IN
                 (q.st \in {"run", "flight"} /\ fReq'[r].end = "ok" /\ q.own # 0)
                     => fUp /\ q.own = fSession]_feedVars
  BY DEF AnswersAreOfOneSession, Feed!AnswersAreOfOneSession, Feed!vars, feedVars
<1> QED BY <1>1, <1>2, FeedInvariant, PTL DEF SuiteSpec

-----------------------------------------------------------------------------
\* FeedRequests: the types.  A request never has more subscriptions than it
\* has symbols, and all requests together no more lines than the limiter has.

Sending == {"send", "send?"}
SendFree == PlainSteps \ {"send"}

\* The sends of a method can be numbered from 1 to Rounds in their order.
Numbered(s, rank) ==
    \A i \in 1..Len(s) : s[i] \in Sending =>
        /\ i < Len(s) /\ rank[i] \in 1..Rounds
        /\ \A j \in 1..Len(s) : i < j /\ s[j] \in Sending => rank[i] < rank[j]
Ranked(s) == \E rank : Numbered(s, rank)

SendsOnce(s) ==
    \A i \in 1..Len(s) : s[i] \in Sending =>
        i < Len(s) /\ \A j \in 1..Len(s) : s[j] \in Sending => i = j

LEMMA FeedNumbers ==
    /\ MaxLines \in Nat \ {0} /\ Rounds \in Nat \ {0} /\ FeedSessions \in Nat \ {0}
    /\ 1 \in 1..Rounds
BY PartsAssumption DEF Feed!FeedAssumption

LEMMA OnceIsRanked == ASSUME NEW s, Len(s) \in Nat, SendsOnce(s) PROVE Ranked(s)
<1>1. PICK rank : rank = [i \in 1..Len(s) |-> 1]  OBVIOUS
<1>2. Numbered(s, rank)
  BY <1>1, FeedNumbers DEF Numbered, SendsOnce
<1>3. QED  BY <1>2 DEF Ranked

LEMMA FreeSendsNothing ==
    ASSUME NEW s \in Seq(SendFree) PROVE \A i \in 1..Len(s) : s[i] \notin Sending
BY DEF SendFree, PlainSteps, Sending

LEMMA FreeIsRanked == ASSUME NEW s \in Seq(SendFree) PROVE Ranked(s)
BY FreeSendsNothing DEF Ranked, Numbered

\* Steps that send nothing may come before those that send once, and after.
LEMMA OnceAfterFree ==
    ASSUME NEW s \in Seq(SendFree), NEW t \in Seq(PlainSteps), SendsOnce(t)
    PROVE  SendsOnce(s \o t)
<1> DEFINE u == s \o t
           m == Len(s)
           n == Len(t)
<1>1. /\ m \in Nat /\ n \in Nat /\ Len(u) = m + n
      /\ \A i \in 1..m : u[i] = s[i]
      /\ \A i \in 1..n : u[m + i] = t[i]
  <2>1. s \in Seq(PlainSteps)  BY Wider DEF SendFree
  <2>2. QED  BY <2>1, ConcatShape
<1>2. \A i \in 1..m : s[i] \notin Sending  BY FreeSendsNothing
<1> HIDE DEF u, m, n
<1>3. ASSUME NEW i \in 1..m + n, u[i] \in Sending
      PROVE  i - m \in 1..n /\ u[i] = t[i - m]
  <2>1. i \notin 1..m  BY <1>1, <1>2, <1>3
  <2>2. i - m \in 1..n /\ m + (i - m) = i  BY <1>1, <2>1
  <2>3. QED  BY <1>1, <2>2
<1>4. QED  BY <1>1, <1>3 DEF SendsOnce, u, n

LEMMA ShortRanks ==
    /\ Ranked(OneCall.steps) /\ Ranked(SessionCall.steps)
    /\ Ranked(QualifyContract.steps)
    /\ Ranked(LoadPortfolioItems.steps) /\ Ranked(LoadPnLSnapshot.steps)
    /\ Ranked(LoadWSHEventData.steps) /\ Ranked(LoadHistogramData.steps)
    /\ Ranked(LoadHeadTimestamp.steps) /\ Ranked(SetMarketDataType.steps)
    /\ Ranked(GetNewsBulletins.steps) /\ Ranked(SubscribeTicker.steps)
<1> DEFINE Free(s) == s \in Seq(SendFree)
<1>1. /\ Free(OneCall.steps) /\ Free(SessionCall.steps)
      /\ Free(QualifyContract.steps) /\ Free(LoadPortfolioItems.steps)
  BY DEF SendFree, PlainSteps, Plain, OneCall, SessionCall,
         QualifyContract, LoadPortfolioItems
<1>2. /\ Free(LoadWSHEventData.steps) /\ Free(LoadHistogramData.steps)
      /\ Free(LoadHeadTimestamp.steps)
  BY DEF SendFree, PlainSteps, Plain, LoadWSHEventData, LoadHistogramData,
         LoadHeadTimestamp
<1>3. Free(SetMarketDataType.steps) /\ Free(GetNewsBulletins.steps)
  BY DEF SendFree, PlainSteps, Plain, SetMarketDataType, GetNewsBulletins
<1>4. Ranked(LoadPnLSnapshot.steps) /\ Ranked(SubscribeTicker.steps)
  <2> DEFINE s == LoadPnLSnapshot.steps
             t == SubscribeTicker.steps
  <2>1. /\ Len(s) \in Nat /\ SendsOnce(s) /\ Len(t) \in Nat /\ SendsOnce(t)
    BY DEF LoadPnLSnapshot, SubscribeTicker, SendsOnce, Sending
  <2> HIDE DEF s, t
  <2>2. Ranked(s) /\ Ranked(t)  BY <2>1, OnceIsRanked
  <2>3. QED  BY <2>2 DEF s, t
<1>5. \A s : Free(s) => Ranked(s)  BY FreeIsRanked
<1>6. QED  BY <1>1, <1>2, <1>3, <1>4, <1>5

LEMMA FreeJoins ==
    /\ \A s, t \in Seq(SendFree) : s \o t \in Seq(SendFree)
    /\ \A n \in Nat \ {0}, s \in Seq(SendFree) : Len(s) > 0 => Times(n, s) \in Seq(SendFree)
    /\ QualifyContract.steps \in Seq(SendFree)
<1>1. \A s, t \in Seq(SendFree) : s \o t \in Seq(SendFree)  BY ConcatShape
<1>2. \A n \in Nat \ {0}, s \in Seq(SendFree) :
         Len(s) > 0 => Times(n, s) \in Seq(SendFree)
  BY TimesShape
<1>3. QualifyContract.steps \in Seq(SendFree)
  BY DEF QualifyContract, Plain, SendFree, PlainSteps
<1>4. QED  BY <1>1, <1>2, <1>3

LEMMA LongRanks ==
    /\ Ranked(LoadTradingSchedule.steps) /\ Ranked(LoadBondYieldHistory.steps)
    /\ Ranked(LoadHistoricalTicks.steps) /\ Ranked(LoadOptionChains.steps)
    /\ Ranked(UnqualifiedOptionError.steps)
    /\ Ranked(LoadOptionAnalytics.steps)
    /\ Ranked(LoadUnderlyingSnapshotPrice.steps)
    /\ Ranked(LoadMarketDepthSnapshot.steps) /\ Ranked(EquityReference.steps)
    /\ Ranked(SubscribeRealtimeBars.steps)
<1> DEFINE a == <<"call">>
           b == <<"permit", "call">>
           c == <<"connect">>
           d == <<"permit", "call", "more">>
           e == <<"connect", "call">>
           f == <<"ask", "more">>
           g == <<"raise">>
           h == <<"session">>
           i == <<"check", "wait">>
           j == <<"check">>
           depth == <<"session", "line", "slot", "check", "send", "wait", "check">>
           equity == <<"check", "line", "slot", "check", "send", "wait", "tidy", "check">>
           bars == <<"session", "slot", "check", "send">>
           Qualify == QualifyContract.steps
           Line == OptionLine
           T(s) == Times(Rounds, s)
           asked == Times(2, f)
<1>1. /\ {a, b, c, d, e, f, g, h, i, j} \subseteq Seq(SendFree)
      /\ Len(b) > 0 /\ Len(d) > 0 /\ Len(f) > 0 /\ Len(i) > 0
  BY DEF SendFree, PlainSteps
<1>2. /\ {depth, equity, Line, bars \o j} \subseteq Seq(PlainSteps)
      /\ SendsOnce(depth) /\ SendsOnce(equity) /\ SendsOnce(Line)
  BY DEF PlainSteps, SendsOnce, Sending, OptionLine
<1>3. /\ LoadTradingSchedule.steps = Qualify \o a
      /\ LoadBondYieldHistory.steps = Qualify \o T(b)
      /\ LoadHistoricalTicks.steps = c \o T(d)
      /\ LoadOptionChains.steps = c \o Qualify \o a
      /\ UnqualifiedOptionError.steps = e \o asked \o g
  BY DEF LoadTradingSchedule, LoadBondYieldHistory, LoadHistoricalTicks,
         LoadOptionChains, UnqualifiedOptionError, Plain
<1>4. /\ LoadOptionAnalytics.steps = e \o Line
      /\ LoadUnderlyingSnapshotPrice.steps = Qualify \o Line
      /\ LoadMarketDepthSnapshot.steps = Qualify \o depth
      /\ EquityReference.steps = h \o Qualify \o equity
      /\ SubscribeRealtimeBars.steps = bars \o T(i) \o j
  BY DEF LoadOptionAnalytics, LoadUnderlyingSnapshotPrice,
         LoadMarketDepthSnapshot, EquityReference, SubscribeRealtimeBars
<1>5. bars \in Seq(PlainSteps) /\ Len(bars) = 4
      /\ \A k \in 1..4 : bars[k] \in Sending <=> k = 4
  BY DEF PlainSteps, Sending
<1> HIDE DEF a, b, c, d, e, f, g, h, i, j, depth, equity, bars, Qualify, Line
<1>6. /\ T(b) \in Seq(SendFree) /\ T(d) \in Seq(SendFree) /\ T(i) \in Seq(SendFree)
      /\ asked \in Seq(SendFree) /\ Qualify \in Seq(SendFree)
  <2>1. Rounds \in Nat \ {0} /\ 2 \in Nat \ {0}  BY FeedNumbers
  <2>2. \A n \in Nat \ {0}, s \in Seq(SendFree) :
           Len(s) > 0 => Times(n, s) \in Seq(SendFree)
    BY FreeJoins
  <2>3. T(b) \in Seq(SendFree) /\ T(d) \in Seq(SendFree) /\ T(i) \in Seq(SendFree)
    BY <1>1, <2>1, <2>2
  <2>4. asked \in Seq(SendFree)  BY <1>1, <2>1, <2>2
  <2>5. QED  BY <2>3, <2>4, FreeJoins DEF Qualify
<1> HIDE DEF T, asked
<1>7. /\ Ranked(LoadTradingSchedule.steps) /\ Ranked(LoadBondYieldHistory.steps)
      /\ Ranked(LoadHistoricalTicks.steps) /\ Ranked(LoadOptionChains.steps)
      /\ Ranked(UnqualifiedOptionError.steps)
  BY <1>1, <1>3, <1>6, FreeJoins, FreeIsRanked
<1>8. /\ SendsOnce(e \o Line) /\ SendsOnce(Qualify \o Line) /\ SendsOnce(Qualify \o depth)
      /\ SendsOnce(h \o Qualify \o equity)
  BY <1>1, <1>2, <1>6, FreeJoins, OnceAfterFree
<1>9. \A s \in {e \o Line, Qualify \o Line, Qualify \o depth, h \o Qualify \o equity} :
         Len(s) \in Nat
  <2>1. \A s \in Seq(SendFree) : s \in Seq(PlainSteps)  BY Wider DEF SendFree
  <2>2. \A s, t \in Seq(PlainSteps) : s \o t \in Seq(PlainSteps)  BY ConcatShape
  <2>3. QED  BY <1>1, <1>2, <1>6, <2>1, <2>2
<1>10. Ranked(bars \o T(i) \o j)
  <2> DEFINE t == T(i)
             u == bars \o t
             v == u \o j
  <2>1. t \in Seq(SendFree) /\ j \in Seq(SendFree)  BY <1>1, <1>6
  <2> HIDE DEF t
  <2>2. Len(j) = 1 /\ j[1] = "check"  BY DEF j
  <2>3. t \in Seq(PlainSteps) /\ j \in Seq(PlainSteps)  BY <2>1, Wider DEF SendFree
  <2>4. \A k \in 1..Len(t) : t[k] \notin Sending  BY <2>1, FreeSendsNothing
  <2>5. /\ u \in Seq(PlainSteps) /\ Len(u) = 4 + Len(t) /\ Len(t) \in Nat
        /\ \A k \in 1..4 : u[k] = bars[k]
        /\ \A k \in 1..Len(t) : u[4 + k] = t[k]
    <3>1. /\ u \in Seq(PlainSteps) /\ Len(u) = Len(bars) + Len(t) /\ Len(t) \in Nat
          /\ \A k \in 1..Len(bars) : u[k] = bars[k]
          /\ \A k \in 1..Len(t) : u[Len(bars) + k] = t[k]
      <4>1. bars \in Seq(PlainSteps) /\ t \in Seq(PlainSteps)  BY <1>5, <2>3
      <4>2. u \in Seq(PlainSteps) /\ Len(u) = Len(bars) + Len(t)  BY <4>1, ConcatShape
      <4>3. \A k \in 1..Len(bars) : u[k] = bars[k]  BY <4>1, ConcatShape
      <4>4. \A k \in 1..Len(t) : u[Len(bars) + k] = t[k]  BY <4>1, ConcatShape
      <4>5. QED  BY <4>1, <4>2, <4>3, <4>4
    <3>2. Len(bars) = 4  BY <1>5
    <3> HIDE DEF u
    <3>3. QED  BY <3>1, <3>2
  <2>6. \A k \in 1..Len(u) : u[k] \in Sending => k = 4
    <3> HIDE DEF u
    <3> SUFFICES ASSUME NEW k \in 1..Len(u), k # 4 PROVE u[k] \notin Sending  OBVIOUS
    <3>1. CASE k \in 1..4  BY <1>5, <2>5, <3>1
    <3>2. CASE k \notin 1..4
      <4>1. k - 4 \in 1..Len(t) /\ 4 + (k - 4) = k  BY <2>5, <3>2
      <4>2. QED  BY <2>4, <2>5, <4>1
    <3>3. QED  BY <3>1, <3>2
  <2> HIDE DEF u
  <2>7. /\ Len(v) = Len(u) + 1
        /\ \A k \in 1..Len(u) : v[k] = u[k]
        /\ v[Len(u) + 1] = "check"
    <3>1. /\ Len(v) = Len(u) + Len(j)
          /\ \A k \in 1..Len(u) : v[k] = u[k]
          /\ \A k \in 1..Len(j) : v[Len(u) + k] = j[k]
      <4>1. u \in Seq(PlainSteps) /\ j \in Seq(PlainSteps)  BY <2>3, <2>5
      <4>2. Len(v) = Len(u) + Len(j)  BY <4>1, ConcatShape
      <4>3. \A k \in 1..Len(u) : v[k] = u[k]  BY <4>1, ConcatShape
      <4>4. \A k \in 1..Len(j) : v[Len(u) + k] = j[k]  BY <4>1, ConcatShape
      <4>5. QED  BY <4>2, <4>3, <4>4
    <3> HIDE DEF v
    <3>2. Len(j) = 1 /\ j[1] = "check" /\ 1 \in 1..1  BY <2>2
    <3>3. QED  BY <3>1, <3>2
  <2> HIDE DEF v
  <2>8. \A k \in 1..Len(v) : v[k] \in Sending => k = 4
    BY <2>5, <2>6, <2>7 DEF Sending
  <2>9. SendsOnce(v)  BY <2>5, <2>7, <2>8 DEF SendsOnce
  <2>10. Len(v) \in Nat  BY <2>5, <2>7
  <2>11. QED  BY <2>9, <2>10, OnceIsRanked DEF u, v, t
<1>11. /\ Ranked(LoadOptionAnalytics.steps)
       /\ Ranked(LoadUnderlyingSnapshotPrice.steps)
       /\ Ranked(LoadMarketDepthSnapshot.steps) /\ Ranked(EquityReference.steps)
  BY <1>4, <1>8, <1>9, OnceIsRanked
<1>12. QED  BY <1>4, <1>7, <1>10, <1>11

\* w is s, of length m, followed by t, of length n; v is s, of length p, n times.
Joined(w, S, s, m, t, n) ==
    /\ w \in Seq(S) /\ Len(w) = m + n
    /\ \A i \in 1..m : w[i] = s[i]
    /\ \A i \in 1..n : w[m + i] = t[i]
Repeated(v, S, n, s, p) ==
    /\ v \in Seq(S) /\ Len(v) = n * p
    /\ \A i \in 1..(n * p) : v[i] = s[1 + ((i - 1) % p)]

LEMMA JoinedAt ==
    \A S : \A s, t \in Seq(S) : \A m, n :
        m = Len(s) /\ n = Len(t) => Joined(s \o t, S, s, m, t, n)
BY ConcatShape DEF Joined

LEMMA RepeatedAt ==
    \A S : \A s \in Seq(S) : \A n \in Nat \ {0} : \A p :
        p = Len(s) /\ p > 0 => Repeated(Times(n, s), S, n, s, p)
BY TimesShape DEF Repeated

\* The batches send once a round.
LEMMA BatchRanks ==
    /\ Ranked(CaptureFXOptionSnapshots.steps)
    /\ Ranked(CaptureEquitySnapshots.steps)
<1>0. Rounds \in Nat \ {0}  BY FeedNumbers
<1>1. Ranked(CaptureFXOptionSnapshots.steps)
  <2> DEFINE c == <<"connect">>
             u == <<"call">> \o OptionLine \o <<"tidy">>
             v == Times(Rounds, u)
             s == c \o v
             L == Rounds * 6
  <2>1. /\ u \in Seq(PlainSteps) /\ Len(u) = 6
        /\ \A i \in 1..6 : u[i] \in Sending <=> i = 4
    <3> DEFINE x == <<"call">>
               y == OptionLine
               z == <<"tidy">>
               xy == x \o y
    <3>1. /\ x \in Seq(PlainSteps) /\ 1 = Len(x) /\ x[1] \notin Sending
          /\ y \in Seq(PlainSteps) /\ 4 = Len(y) /\ \A i \in 1..4 : y[i] \in Sending <=> i = 3
          /\ z \in Seq(PlainSteps) /\ 1 = Len(z) /\ z[1] \notin Sending
      BY DEF PlainSteps, Sending, OptionLine
    <3>2. u = xy \o z  OBVIOUS
    <3> HIDE DEF x, y, z, u
    <3>3. Joined(xy, PlainSteps, x, 1, y, 4)  BY <3>1, JoinedAt
    <3> HIDE DEF xy
    <3>4. /\ xy \in Seq(PlainSteps) /\ 5 = Len(xy) /\ xy[1] = x[1]
          /\ \A i \in 2..5 : xy[i] = y[i - 1]
      <4>1. \A i \in 2..5 : i - 1 \in 1..4 /\ 1 + (i - 1) = i  OBVIOUS
      <4>2. QED  BY <3>3, <4>1 DEF Joined
    <3>5. Joined(xy \o z, PlainSteps, xy, 5, z, 1)  BY <3>1, <3>4, JoinedAt
    <3>6. /\ u \in Seq(PlainSteps) /\ Len(u) = 6 /\ u[6] = z[1]
          /\ \A i \in 1..5 : u[i] = xy[i]
      BY <3>2, <3>5 DEF Joined
    <3>7. \A i \in 1..6 : u[i] \in Sending <=> i = 4
      BY <3>1, <3>4, <3>6
    <3>8. QED  BY <3>6, <3>7
  <2>2. c \in Seq(PlainSteps) /\ Len(c) = 1 /\ c[1] \notin Sending
    BY DEF PlainSteps, Sending
  <2> HIDE DEF c, u
  <2>3. /\ v \in Seq(PlainSteps) /\ Len(v) = L
        /\ \A i \in 1..L : v[i] = u[1 + ((i - 1) % 6)]
    <3>1. u \in Seq(PlainSteps) /\ 6 = Len(u) /\ 6 > 0  BY <2>1
    <3>2. Repeated(v, PlainSteps, Rounds, u, 6)  BY ONLY <1>0, <3>1, RepeatedAt
    <3> HIDE DEF v
    <3>3. QED  BY <3>2 DEF Repeated
  <2>4. L \in Nat /\ L = 6 * Rounds /\ L > 0  BY <1>0
  <2> HIDE DEF v, L
  <2>5. Len(s) = 1 + L /\ s[1] = c[1] /\ \A i \in 1..L : s[1 + i] = v[i]
    <3>1. 1 = Len(c) /\ L = Len(v)  BY <2>2, <2>3
    <3>2. Joined(s, PlainSteps, c, 1, v, L)  BY <2>2, <2>3, <3>1, JoinedAt
    <3> HIDE DEF s
    <3>3. QED  BY <3>2 DEF Joined
  <2>6. \A i \in 1..L : s[1 + i] \in Sending <=> i % 6 = 4
    <3> HIDE DEF s
    <3> TAKE i \in 1..L
    <3>1. (i - 1) % 6 \in 0..5 /\ i \in Nat  BY <2>4
    <3>2. s[1 + i] = u[1 + ((i - 1) % 6)]  BY <2>3, <2>5
    <3>3. 1 + ((i - 1) % 6) = 4 <=> i % 6 = 4  BY <2>4
    <3>4. QED  BY <2>1, <3>1, <3>2, <3>3
  <2>7. s = CaptureFXOptionSnapshots.steps
    BY DEF CaptureFXOptionSnapshots, s, c, v, u
  <2> HIDE DEF s
  <2>8. \A k \in 1..Len(s) : s[k] \in Sending =>
           k < Len(s) /\ (k + 1) % 6 = 0 /\ k \in Nat /\ (k + 1) \div 6 \in 1..Rounds
    <3> TAKE k \in 1..Len(s)
    <3> HAVE s[k] \in Sending
    <3>1. k # 1  BY <2>2, <2>5
    <3>2. k - 1 \in 1..L /\ 1 + (k - 1) = k  BY <2>4, <2>5, <3>1
    <3>3. (k - 1) % 6 = 4  BY <2>6, <3>2
    <3>4. k - 1 \in 1..6 * Rounds /\ k \in Int /\ Len(s) = 1 + 6 * Rounds
      BY <2>4, <2>5, <3>2
    <3>5. k < Len(s) /\ (k + 1) % 6 = 0 /\ k \in Nat  BY <1>0, <3>3, <3>4
    <3>6. (k + 1) \div 6 \in 1..Rounds  BY <1>0, <3>3, <3>4
    <3>7. QED  BY <3>5, <3>6
  <2>9. PICK rank : rank = [k \in 1..Len(s) |-> (k + 1) \div 6]  OBVIOUS
  <2>10. Numbered(s, rank)
    <3> SUFFICES ASSUME NEW i \in 1..Len(s), s[i] \in Sending
                 PROVE  /\ i < Len(s) /\ rank[i] \in 1..Rounds
                        /\ \A j \in 1..Len(s) : i < j /\ s[j] \in Sending => rank[i] < rank[j]
      BY DEF Numbered
    <3>1. i < Len(s) /\ rank[i] \in 1..Rounds  BY <2>8, <2>9
    <3>2. ASSUME NEW j \in 1..Len(s), i < j, s[j] \in Sending PROVE rank[i] < rank[j]
      <4>1. /\ (i + 1) % 6 = 0 /\ (j + 1) % 6 = 0 /\ i \in Nat /\ j \in Nat
            /\ rank[i] = (i + 1) \div 6 /\ rank[j] = (j + 1) \div 6
        BY <2>8, <2>9, <3>2
      <4>2. QED  BY <3>2, <4>1
    <3>3. QED  BY <3>1, <3>2
  <2>11. QED  BY <2>7, <2>10 DEF Ranked
<1>2. Ranked(CaptureEquitySnapshots.steps)
  <2> DEFINE c == <<"session">>
             u == <<"line", "slot", "check?", "send?">>
             w == <<"wait", "keep">>
             v == Times(Rounds, u)
             s == c \o v
             t == s \o w
             L == Rounds * 4
             S == RegisteredSteps
  <2>1. /\ u \in Seq(S) /\ Len(u) = 4
        /\ \A i \in 1..4 : u[i] \in Sending <=> i = 4
    BY DEF RegisteredSteps, Unsent, Sending
  <2>2. c \in Seq(S) /\ Len(c) = 1 /\ c[1] \notin Sending
    BY DEF RegisteredSteps, Sending
  <2>3. w \in Seq(S) /\ Len(w) = 2 /\ \A i \in 1..2 : w[i] \notin Sending
    BY DEF RegisteredSteps, Sending
  <2> HIDE DEF c, u, w, S
  <2>4. /\ v \in Seq(S) /\ Len(v) = L
        /\ \A i \in 1..L : v[i] = u[1 + ((i - 1) % 4)]
    <3>1. u \in Seq(S) /\ 4 = Len(u) /\ 4 > 0  BY <2>1
    <3>2. Repeated(v, S, Rounds, u, 4)  BY ONLY <1>0, <3>1, RepeatedAt
    <3> HIDE DEF v
    <3>3. QED  BY <3>2 DEF Repeated
  <2>5. L \in Nat /\ L = 4 * Rounds /\ L > 0  BY <1>0
  <2> HIDE DEF v, L
  <2>6. s \in Seq(S) /\ Len(s) = 1 + L /\ s[1] = c[1] /\ \A i \in 1..L : s[1 + i] = v[i]
    <3>1. 1 = Len(c) /\ L = Len(v)  BY <2>2, <2>4
    <3>2. Joined(s, S, c, 1, v, L)  BY <2>2, <2>4, <3>1, JoinedAt
    <3> HIDE DEF s
    <3>3. QED  BY <3>2 DEF Joined
  <2> HIDE DEF s
  <2>7. /\ Len(t) = L + 3 /\ \A i \in 1..(L + 1) : t[i] = s[i]
        /\ \A i \in 1..2 : t[L + 1 + i] = w[i]
    <3>1. L + 1 = Len(s) /\ 2 = Len(w)  BY <2>3, <2>5, <2>6
    <3>2. Joined(t, S, s, L + 1, w, 2)  BY <2>3, <2>6, <3>1, JoinedAt
    <3> HIDE DEF t
    <3>3. QED  BY <2>5, <3>2 DEF Joined
  <2>8. t = CaptureEquitySnapshots.steps
    BY DEF CaptureEquitySnapshots, t, s, c, v, u, w
  <2> HIDE DEF t
  <2>9. \A i \in 1..L : t[1 + i] \in Sending => i % 4 = 0
    <3> TAKE i \in 1..L
    <3>1. (i - 1) % 4 \in 0..3 /\ i \in Nat /\ 1 + i \in 1..(L + 1)  BY <2>5
    <3>2. t[1 + i] = u[1 + ((i - 1) % 4)]  BY <2>4, <2>6, <2>7, <3>1
    <3>3. 1 + ((i - 1) % 4) = 4 => i % 4 = 0  BY <2>5
    <3>4. QED  BY <2>1, <3>1, <3>2, <3>3
  <2>10. \A k \in 1..Len(t) : t[k] \in Sending =>
           k < Len(t) /\ (k - 1) % 4 = 0 /\ k \in Nat /\ (k - 1) \div 4 \in 1..Rounds
    <3> TAKE k \in 1..Len(t)
    <3> HAVE t[k] \in Sending
    <3>1. k # 1
      <4>1. 1 \in 1..(L + 1)  BY <2>5
      <4>2. QED  BY <2>2, <2>6, <2>7, <4>1
    <3>2. k \in 1..(L + 1)
      <4>1. CASE k \notin 1..(L + 1)
        <5>1. k - L - 1 \in 1..2 /\ L + 1 + (k - L - 1) = k  BY <2>5, <2>7, <4>1
        <5>2. QED  BY <2>3, <2>7, <5>1
      <4>2. QED  BY <4>1
    <3>3. k - 1 \in 1..L /\ 1 + (k - 1) = k  BY <2>5, <3>1, <3>2
    <3>4. (k - 1) % 4 = 0  BY <2>9, <3>3
    <3>5. QED  BY <1>0, <2>5, <2>7, <3>3, <3>4
  <2>11. PICK rank : rank = [k \in 1..Len(t) |-> (k - 1) \div 4]  OBVIOUS
  <2>12. Numbered(t, rank)
    <3> SUFFICES ASSUME NEW i \in 1..Len(t), t[i] \in Sending
                 PROVE  /\ i < Len(t) /\ rank[i] \in 1..Rounds
                        /\ \A j \in 1..Len(t) : i < j /\ t[j] \in Sending => rank[i] < rank[j]
      BY DEF Numbered
    <3>1. i < Len(t) /\ rank[i] \in 1..Rounds  BY <2>10, <2>11
    <3>2. ASSUME NEW j \in 1..Len(t), i < j, t[j] \in Sending PROVE rank[i] < rank[j]
      <4>1. /\ (i - 1) % 4 = 0 /\ (j - 1) % 4 = 0 /\ i \in Nat /\ j \in Nat
            /\ rank[i] = (i - 1) \div 4 /\ rank[j] = (j - 1) \div 4
        BY <2>10, <2>11, <3>2
      <4>2. QED  BY <3>2, <4>1
    <3>3. QED  BY <3>1, <3>2
  <2>13. QED  BY <2>8, <2>12 DEF Ranked
<1>3. QED  BY <1>1, <1>2

LEMMA MethodRanks == \A m \in DOMAIN Method : Ranked(Method[m].steps)
<1> USE ShortRanks, LongRanks, BatchRanks
<1>1. QED
  BY DEF Method, LoadAccountSummary, LoadLivePositions, LoadWSHMetadata,
     LoadNewsProviders, LoadHistoricalNews, LoadNewsArticle,
     SearchContracts, ScanContracts, RunMarketScanner, LoadMarketRule,
     LoadSmartComponents, CalculateIV, CalculateOptionPrice,
     SearchMatchingSymbols, RequestHistogram, GetDepthExchanges,
     GetScannerParameters, ScanMarket, GetServerTime

\* The leases that a request may cut off when it ends, and those it may lose.
MayCut(q, end) ==
    \/ Feed!CareOf(q) = "late" /\ end = "cancelled"
    \/ Feed!CareOf(q) = "ticker" /\ end = "cancelled" /\ ~Feed!HasTicker(q)
    \/ Feed!CareOf(q) = "depth" /\ end # "ok"
Lost(q) ==
    /\ q.cut > 0 => q.st = "over" /\ MayCut(q, q.end)
    /\ q.expired > 0 => Feed!Shielded(q)

\* What a step does to what is bounded: at most one lease more, if there is a
\* line, and one send more, at a step that sends; and what it does to the
\* leases that nobody releases.
Moves(q, p) ==
    /\ p.m = q.m /\ p.at >= q.at
    /\ p.own \in {q.own, fSession} /\ p.via \in {q.via, fSession}
    /\ \/ Feed!Leases(p) <= Feed!Leases(q)
       \/ Feed!Leases(p) = Feed!Leases(q) + 1 /\ Feed!LinesInUse < MaxLines
    /\ \/ p.sent <= q.sent
       \/ p.sent = q.sent + 1 /\ NextStep(q) \in Sending /\ p.at > q.at
    /\ p.cut \in {0, q.cut} \/ (p.st = "over" /\ MayCut(p, p.end))
    /\ p.expired > 0 => q.expired > 0 \/ Feed!Shielded(p)

LEMMA LeasesCounted ==
    \A q \in FeedRecord : Feed!Leases(q) \in Nat /\ Feed!Leases(q) = q.lines + q.cut + q.expired
BY DEF Feed!Leases, FeedRecord

\* A request keeps its ticker.
LEMMA ShieldStays ==
    ASSUME NEW q \in FeedRecord, NEW p, p.at \in Nat, p.m = q.m, p.at >= q.at,
           Feed!Shielded(q)
    PROVE  Feed!Shielded(p)
<1>1. Feed!Steps(p) = Feed!Steps(q) /\ Feed!CareOf(p) = Feed!CareOf(q)
  BY DEF Feed!Steps, Feed!CareOf
<1>2. 1..(q.at - 1) \subseteq 1..(p.at - 1)  BY DEF FeedRecord
<1>3. QED  BY <1>1, <1>2 DEF Feed!Shielded, Feed!HasTicker

\* A request that closes keeps its place and its lines, and sends nothing.
LEMMA ClosedStays ==
    ASSUME NEW q \in FeedRecord, NEW end, NEW c, c = Feed!Close(q, end)
    PROVE  /\ c.m = q.m /\ c.at = q.at /\ c.own = q.own /\ c.via = q.via
           /\ c.lines = q.lines /\ c.cut = q.cut /\ c.expired = q.expired
           /\ c.sent \in {q.sent, 0}
BY DEF Feed!Close, FeedRecord

LEMMA EndMoves ==
    ASSUME NEW q \in FeedRecord, NEW p \in FeedRecord, Moves(q, p), p.cut = q.cut
    PROVE  /\ \A end : Moves(q, Feed!Close(p, end))
           /\ Moves(q, Feed!Advance(p))
           /\ \A st, end : Moves(q, [p EXCEPT !.st = st, !.end = end])
           /\ \A st : Moves(q, [p EXCEPT !.st = st])
           /\ \A end : Moves(q, [p EXCEPT !.end = end])
<1>1. ASSUME NEW a, a.m = p.m, a.at \in {p.at, p.at + 1}, a.own = p.own, a.via = p.via,
             a.lines = p.lines, a.cut = p.cut, a.expired = p.expired,
             a.sent \in {p.sent, 0}
      PROVE  Moves(q, a)
  <2>1. a.at \in Nat /\ a.at >= p.at /\ (p.at > q.at => a.at > q.at) /\ a.at >= q.at
    BY <1>1 DEF Moves, FeedRecord
  <2>2. Feed!Shielded(p) => Feed!Shielded(a)  BY <1>1, <2>1, ShieldStays
  <2>3. Feed!Leases(a) = Feed!Leases(p)  BY <1>1 DEF Feed!Leases
  <2>4. /\ a.sent <= p.sent /\ p.sent \in Nat /\ q.sent \in Nat
        /\ p.sent <= q.sent => a.sent <= q.sent
        /\ a.sent = p.sent \/ a.sent <= q.sent
    BY <1>1 DEF FeedRecord
  <2>5. QED  BY <1>1, <2>1, <2>2, <2>3, <2>4 DEF Moves
<1>2. ASSUME NEW end PROVE Moves(q, Feed!Close(p, end))
  <2>1. PICK c : c = Feed!Close(p, end)  OBVIOUS
  <2>2. Moves(q, c)  BY <1>1, <2>1, ClosedStays
  <2>3. QED  BY <2>1, <2>2
<1>3. Moves(q, Feed!Advance(p))
  <2>1. CASE p.at = Len(Feed!Steps(p))  BY <1>2, <2>1 DEF Feed!Advance
  <2>2. CASE p.at # Len(Feed!Steps(p))
    <3>1. PICK a : a = [p EXCEPT !.at = @ + 1]  OBVIOUS
    <3>2. Moves(q, a)  BY <1>1, <3>1 DEF FeedRecord
    <3>3. QED  BY <2>2, <3>1, <3>2 DEF Feed!Advance
  <2>3. QED  BY <2>1, <2>2
<1>4. ASSUME NEW st, NEW end PROVE Moves(q, [p EXCEPT !.st = st, !.end = end])
  <2>1. PICK a : a = [p EXCEPT !.st = st, !.end = end]  OBVIOUS
  <2>2. /\ a.m = p.m /\ a.at = p.at /\ a.own = p.own /\ a.via = p.via /\ a.lines = p.lines
        /\ a.cut = p.cut /\ a.expired = p.expired /\ a.sent = p.sent
    BY <2>1 DEF FeedRecord
  <2>3. Moves(q, a)  BY <1>1, <2>2
  <2>4. QED  BY <2>1, <2>3
<1>5. ASSUME NEW st PROVE Moves(q, [p EXCEPT !.st = st])
  <2>1. PICK a : a = [p EXCEPT !.st = st]  OBVIOUS
  <2>2. Moves(q, a)  BY <1>1, <2>1 DEF FeedRecord
  <2>3. QED  BY <2>1, <2>2
<1>6. ASSUME NEW end PROVE Moves(q, [p EXCEPT !.end = end])
  <2>1. PICK a : a = [p EXCEPT !.end = end]  OBVIOUS
  <2>2. Moves(q, a)  BY <1>1, <2>1 DEF FeedRecord
  <2>3. QED  BY <2>1, <2>2
<1>7. QED  BY <1>2, <1>3, <1>4, <1>5, <1>6

\* The states a step builds its next one from.
LEMMA Moved ==
    ASSUME FeedInv, NEW r \in Tasks
    PROVE  LET q == fReq[r]
               Ok(p) == p \in FeedRecord /\ Moves(q, p) /\ p.cut = q.cut
           IN
           /\ q.at \in 1..Len(Method[q.m].steps)
           /\ Ok(q) /\ Ok([q EXCEPT !.st = "run"])
           /\ Ok([q EXCEPT !.st = "flight", !.via = fSession])
           /\ Ok([q EXCEPT !.own = fSession])
           /\ Ok([q EXCEPT !.at = @ + 1])
           /\ Ok([q EXCEPT !.at = Len(Method[q.m].steps)])
           /\ Ok([q EXCEPT !.sent = 0]) /\ Ok([q EXCEPT !.lines = 0])
           /\ q.lines > 0 => Ok([q EXCEPT !.lines = @ - 1])
           /\ Feed!LinesInUse < MaxLines => Ok([q EXCEPT !.lines = @ + 1])
<1> DEFINE q == fReq[r]
           Ok(p) == p \in FeedRecord /\ Moves(q, p) /\ p.cut = q.cut
<1>1. /\ q \in FeedRecord /\ q.at \in 1..Len(Method[q.m].steps)
      /\ Len(Method[q.m].steps) \in Nat /\ fSession \in Nat
  BY StepKnown DEF FeedInv, Fits, Base
<1> HIDE DEF q
<1>2. ASSUME NEW p \in FeedRecord, p.m = q.m, p.at >= q.at, p.own \in {q.own, fSession},
             p.via \in {q.via, fSession}, p.sent <= q.sent,
             p.cut = q.cut, p.expired = q.expired,
             p.lines <= q.lines \/ (p.lines = q.lines + 1 /\ Feed!LinesInUse < MaxLines)
      PROVE  Ok(p)
  <2>1. /\ q.lines \in Nat /\ q.cut \in Nat /\ q.expired \in Nat /\ p.lines \in Nat
        /\ Feed!Leases(q) = q.lines + q.cut + q.expired
        /\ Feed!Leases(p) = p.lines + q.cut + q.expired
    BY <1>1, <1>2, LeasesCounted DEF FeedRecord
  <2>2. \/ Feed!Leases(p) <= Feed!Leases(q)
        \/ Feed!Leases(p) = Feed!Leases(q) + 1 /\ Feed!LinesInUse < MaxLines
    <3> HIDE DEF Ok
    <3>1. CASE p.lines <= q.lines  BY <2>1, <3>1
    <3>2. CASE p.lines = q.lines + 1 /\ Feed!LinesInUse < MaxLines  BY <2>1, <3>2
    <3> QED  BY <1>2, <3>1, <3>2
  <2> QED  BY <1>2, <2>2 DEF Moves
<1> DEFINE Alike(p) ==
        /\ p \in FeedRecord /\ p.m = q.m /\ p.at >= q.at /\ p.own \in {q.own, fSession}
        /\ p.via \in {q.via, fSession} /\ p.sent <= q.sent
        /\ p.cut = q.cut /\ p.expired = q.expired
<1>3. /\ Alike(q) /\ Alike([q EXCEPT !.st = "run"]) /\ Alike([q EXCEPT !.at = @ + 1])
      /\ Alike([q EXCEPT !.own = fSession]) /\ Alike([q EXCEPT !.sent = 0])
      /\ Alike([q EXCEPT !.lines = 0]) /\ Alike([q EXCEPT !.lines = @ + 1])
  <2> USE <1>1 DEF FeedRecord
  <2>1. Alike(q) /\ Alike([q EXCEPT !.st = "run"])  OBVIOUS
  <2>2. Alike([q EXCEPT !.at = @ + 1])  OBVIOUS
  <2>3. Alike([q EXCEPT !.own = fSession]) /\ Alike([q EXCEPT !.sent = 0])  OBVIOUS
  <2>4. Alike([q EXCEPT !.lines = 0]) /\ Alike([q EXCEPT !.lines = @ + 1])  OBVIOUS
  <2> QED  BY <2>1, <2>2, <2>3, <2>4
<1>4. /\ Ok(q) /\ Ok([q EXCEPT !.st = "run"]) /\ Ok([q EXCEPT !.at = @ + 1])
      /\ Ok([q EXCEPT !.own = fSession]) /\ Ok([q EXCEPT !.sent = 0])
  <2>1. q.lines <= q.lines  BY <1>1 DEF FeedRecord
  <2> QED  BY <1>1, <1>2, <1>3, <2>1 DEF FeedRecord
<1>5. Ok([q EXCEPT !.st = "flight", !.via = fSession])
  <2>1. PICK p : p = [q EXCEPT !.st = "flight", !.via = fSession]  OBVIOUS
  <2>2. /\ p \in FeedRecord /\ p.m = q.m /\ p.at = q.at /\ p.own = q.own /\ p.via = fSession
        /\ p.lines = q.lines /\ p.sent = q.sent /\ p.cut = q.cut /\ p.expired = q.expired
    BY <1>1, <2>1 DEF FeedRecord
  <2>3. Alike(p) /\ p.lines <= q.lines  BY <1>1, <2>2 DEF FeedRecord
  <2> QED  BY <1>2, <2>1, <2>3
<1>6. Ok([q EXCEPT !.at = Len(Method[q.m].steps)])
  <2>1. PICK last : last = Len(Method[q.m].steps)  OBVIOUS
  <2>2. last \in Nat /\ q.at <= last  BY <1>1, <2>1 DEF FeedRecord
  <2>3. PICK p : p = [q EXCEPT !.at = last]  OBVIOUS
  <2>4. Alike(p) /\ p.lines <= q.lines  BY <1>1, <2>2, <2>3 DEF FeedRecord
  <2> QED  BY <1>2, <2>1, <2>3, <2>4
<1>7. Ok([q EXCEPT !.lines = 0])
  <2>1. PICK p : p = [q EXCEPT !.lines = 0]  OBVIOUS
  <2>2. p.lines <= q.lines  BY <1>1, <2>1 DEF FeedRecord
  <2> QED  BY <1>2, <1>3, <2>1, <2>2
<1>8. ASSUME q.lines > 0 PROVE Ok([q EXCEPT !.lines = @ - 1])
  <2>1. PICK p : p = [q EXCEPT !.lines = @ - 1]  OBVIOUS
  <2>2. q.lines - 1 \in Nat  BY <1>1, <1>8 DEF FeedRecord
  <2>3. Alike(p) /\ p.lines <= q.lines  BY <1>1, <2>1, <2>2 DEF FeedRecord
  <2> QED  BY <1>2, <2>1, <2>3
<1>9. ASSUME Feed!LinesInUse < MaxLines PROVE Ok([q EXCEPT !.lines = @ + 1])
  <2>1. PICK p : p = [q EXCEPT !.lines = @ + 1]  OBVIOUS
  <2>2. p.lines = q.lines + 1  BY <1>1, <2>1 DEF FeedRecord
  <2> QED  BY <1>2, <1>3, <1>9, <2>1, <2>2
<1> QED
  BY <1>1, <1>4, <1>5, <1>6, <1>7, <1>8, <1>9 DEF q

\* Every step of a request moves it so.
LEMMA NextSymbolMoves ==
    ASSUME FeedInv, NEW r \in Tasks, Feed!At(r, {"check?", "send?"}),
           Feed!Becomes(r, Feed!NextSymbol(fReq[r]))
    PROVE  Moves(fReq[r], Feed!NextSymbol(fReq[r]))
<1> DEFINE q == fReq[r]
           s == Method[q.m].steps
           Fst(i) == s[i] = "send?" /\ \A j \in q.at..(i - 1) : s[j] # "send?"
           k == CHOOSE i \in q.at..Len(s) : Fst(i)
<1>1. /\ Base(q) /\ NextStep(q) \in {"check?", "send?"}
      /\ ~Registered(q) => NextStep(q) \in PlainSteps
  BY Running
<1>2. Registered(q)  BY <1>1 DEF PlainSteps
<1> HIDE DEF q
<1>3. q \in FeedRecord /\ q.at \in 1..Len(s) /\ Len(s) \in Nat \ {0} /\ s[q.at] = NextStep(q)
  BY <1>1, StepKnown DEF Base, NextStep
<1>4. \E i \in q.at..Len(s) : Fst(i)
  <2>1. CASE NextStep(q) = "send?"
    <3>1. q.at \in q.at..Len(s) /\ q.at..(q.at - 1) = {}  BY <1>3 DEF FeedRecord
    <3>2. QED  BY <1>3, <2>1, <3>1
  <2>2. CASE NextStep(q) = "check?"
    <3>1. q.at + 1 \in 2..Len(s) /\ s[q.at + 1] = "send?"
      BY <1>1, <1>2, <2>2, RegisteredGoesOn
    <3>2. q.at + 1 \in q.at..Len(s) /\ q.at..(q.at + 1 - 1) = {q.at}
      BY <1>3, <3>1 DEF FeedRecord
    <3>3. QED  BY <1>3, <2>2, <3>1, <3>2
  <2>3. QED  BY <1>1, <2>1, <2>2
<1>5. k \in q.at..Len(s)  BY <1>4
<1>6. PICK p : p = Feed!NextSymbol(q)  OBVIOUS
<1>7. p = [q EXCEPT !.at = 1 + k, !.st = "free", !.end = "on"]
  BY <1>6 DEF Feed!NextSymbol, Feed!Steps
<1> HIDE DEF k, s
<1>8. /\ p.m = q.m /\ p.at = 1 + k /\ p.own = q.own /\ p.via = q.via
      /\ p.lines = q.lines /\ p.sent = q.sent /\ p.cut = q.cut /\ p.expired = q.expired
  BY <1>3, <1>7 DEF FeedRecord
<1>9. Moves(q, p)  BY <1>3, <1>5, <1>8 DEF Moves, FeedRecord, Feed!Leases
<1>10. QED  BY <1>6, <1>9 DEF q

LEMMA SendMoves ==
    ASSUME FeedInv, NEW r \in Tasks, Feed!Sends(r),
           Ranked(Method[fReq[r].m].steps)
    PROVE  \E p : Feed!Becomes(r, p) /\ Moves(fReq[r], p)
<1> DEFINE q == fReq[r]
           s == Method[q.m].steps
<1>1. Base(q) /\ NextStep(q) \in {"send", "send?"}  BY Running DEF Feed!Sends
<1>2. PICK p : p = [q EXCEPT !.sent = @ + 1, !.via = fSession]  OBVIOUS
<1>3. Feed!Becomes(r, Feed!Advance(p))  BY <1>2 DEF Feed!Sends
<1> HIDE DEF q
<1>4. q \in FeedRecord /\ q.at \in 1..Len(s) /\ s[q.at] \in Sending
  BY <1>1 DEF Base, NextStep, Sending
<1>5. q.at < Len(s)  BY <1>4 DEF q, Ranked, Numbered
<1>6. /\ p.m = q.m /\ p.at = q.at /\ p.own = q.own /\ p.via = fSession
      /\ p.lines = q.lines /\ p.sent = q.sent + 1 /\ p \in FeedRecord
      /\ p.cut = q.cut /\ p.expired = q.expired
  <2>1. fSession \in Nat /\ q.sent + 1 \in Nat  BY <1>4 DEF FeedInv, FeedRecord
  <2>2. QED  BY <1>2, <1>4, <2>1 DEF FeedRecord
<1>7. PICK a : a = Feed!Advance(p)  OBVIOUS
<1>8. a = [p EXCEPT !.at = @ + 1]
  <2>1. p.at # Len(Feed!Steps(p))  BY <1>4, <1>5, <1>6 DEF Feed!Steps, FeedRecord
  <2>2. QED  BY <1>7, <2>1 DEF Feed!Advance
<1>9. /\ a.m = q.m /\ a.at = q.at + 1 /\ a.own = q.own /\ a.via = fSession
      /\ a.lines = q.lines /\ a.sent = q.sent + 1
      /\ a.cut = q.cut /\ a.expired = q.expired
  BY <1>6, <1>8 DEF FeedRecord
<1>10. Moves(q, a)  BY <1>1, <1>4, <1>9 DEF Moves, FeedRecord, Sending, Feed!Leases
<1>11. QED  BY <1>3, <1>7, <1>10 DEF q

LEMMA AbandonMoves ==
    ASSUME NEW q \in FeedRecord, NEW p \in FeedRecord, Moves(q, p), NEW end,
           p.lines = 0 \/ MayCut(p, end)
    PROVE  Moves(q, Feed!Abandons(p, end))
<1>1. PICK a : a = Feed!Abandons(p, end)  OBVIOUS
<1>2. /\ a.m = p.m /\ a.at = p.at /\ a.own = p.own /\ a.via = p.via /\ a.sent = p.sent
      /\ a.lines = 0 /\ a.cut = p.lines /\ a.expired = p.expired
      /\ a.st = "over" /\ a.end = end
  BY <1>1 DEF Feed!Abandons, FeedRecord
<1>3. /\ Feed!Leases(a) <= Feed!Leases(p)
      /\ Feed!Leases(a) \in Nat /\ Feed!Leases(p) \in Nat /\ Feed!Leases(q) \in Nat
  BY <1>2 DEF FeedRecord, Feed!Leases
<1>4. /\ MayCut(p, end) => MayCut(a, a.end)
      /\ Feed!Shielded(p) => Feed!Shielded(a)
  BY <1>2
  DEF MayCut, Feed!Shielded, Feed!HasTicker, Feed!CareOf, Feed!Steps
<1>5. \/ Feed!Leases(a) <= Feed!Leases(q)
      \/ Feed!Leases(a) = Feed!Leases(q) + 1 /\ Feed!LinesInUse < MaxLines
  BY <1>3 DEF Moves
<1>6. a.cut = 0 \/ (a.st = "over" /\ MayCut(a, a.end))  BY <1>2, <1>4
<1>7. Moves(q, a)  BY <1>2, <1>4, <1>5, <1>6 DEF Moves
<1>8. QED  BY <1>1, <1>7

LEMMA InterruptMoves ==
    ASSUME FeedInv, NEW r \in Tasks, NEW end \in {"failed", "cancelled"},
           Feed!CareOf(fReq[r]) \in {"late", "ticker"} => end = "cancelled",
           Feed!Interrupted(r, end)
    PROVE  \E p : Feed!Becomes(r, p) /\ Moves(fReq[r], p)
<1> DEFINE q == fReq[r]
           Ok(p) == p \in FeedRecord /\ Moves(q, p) /\ p.cut = q.cut
           less == [q EXCEPT !.lines = @ - 1]
           none == [q EXCEPT !.sent = 0]
<1>1. Ok(q) /\ Ok(none) /\ (q.lines > 0 => Ok(less))  BY Moved
<1>2. q.st = "free" => q.lines > 0  BY DEF FeedInv, Fits
<1>3. \/ Feed!Becomes(r, Feed!Close(q, end))
      \/ Feed!CareOf(q) = "late" /\ Feed!Becomes(r, Feed!Abandons(q, end))
      \/ ~Feed!Shielded(q) /\ Feed!Becomes(r, Feed!Abandons(q, end))
      \/ q.st = "free" /\ Feed!Becomes(r, Feed!Close(less, end))
      \/ Feed!Becomes(r, [q EXCEPT !.end = end])
      \/ Feed!CareOf(q) = "depth" /\ Feed!Becomes(r, Feed!Abandons(none, end))
      \/ Feed!Becomes(r, Feed!Close(none, end))
  BY DEF Feed!Interrupted, Feed!Unprotected
<1>4. /\ Feed!CareOf(q) = "late" => MayCut(q, end)
      /\ ~Feed!Shielded(q) => q.lines = 0 \/ MayCut(q, end)
      /\ Feed!CareOf(q) = "depth" => MayCut(none, end)
  <2>1. Base(q)  BY DEF FeedInv, Fits
  <2>2. Feed!CareOf(q) \in Feed!Care /\ (Feed!CareOf(q) \in Careless => q.lines = 0)
    BY <2>1, StepKnown DEF Base, Feed!CareOf
  <2>3. Feed!CareOf(none) = Feed!CareOf(q)  BY <1>1 DEF Feed!CareOf, FeedRecord
  <2> HIDE DEF none, q
  <2>4. QED  BY <2>2, <2>3 DEF MayCut, Feed!Shielded, Feed!Care, Careless, q
<1> HIDE DEF less, none, q
<1>5. \A p \in FeedRecord : Moves(q, p) /\ p.cut = q.cut =>
         Moves(q, Feed!Close(p, end)) /\ Moves(q, [p EXCEPT !.end = end])
  BY <1>1, EndMoves
<1>6. \A p \in FeedRecord : Moves(q, p) /\ (p.lines = 0 \/ MayCut(p, end)) =>
         Moves(q, Feed!Abandons(p, end))
  BY <1>1, AbandonMoves
<1>7. QED  BY <1>1, <1>2, <1>3, <1>4, <1>5, <1>6 DEF q

LEMMA ExpiryMoves ==
    ASSUME FeedInv, NEW r \in Tasks, Feed!Expires(r) \/ Feed!LeaseExpires(r)
    PROVE  \E p : Feed!Becomes(r, p) /\ Moves(fReq[r], p)
<1> DEFINE q == fReq[r]
           end == IF q.end = "on" THEN "failed" ELSE q.end
           left == IF q.end = "on" THEN 1 ELSE q.lines
           Ok(p) == p \in FeedRecord /\ Moves(q, p) /\ p.cut = q.cut
           none == [q EXCEPT !.sent = 0]
<1>1. Ok(q) /\ Ok(none)  BY Moved
<1>2. q.st = "free" => q.lines > 0  BY DEF FeedInv, Fits
<1>3. \A p \in FeedRecord : Moves(q, p) /\ p.cut = q.cut => Moves(q, Feed!Close(p, end))
  BY <1>1, EndMoves
<1>4. CASE Feed!LeaseExpires(r)
  <2>1. PICK p : p = [q EXCEPT !.cut = 0, !.expired = 0]  OBVIOUS
  <2>2. Feed!Becomes(r, p)  BY <1>4, <2>1 DEF Feed!LeaseExpires
  <2>3. /\ p.m = q.m /\ p.at = q.at /\ p.own = q.own /\ p.via = q.via
        /\ p.lines = q.lines /\ p.sent = q.sent /\ p.cut = 0 /\ p.expired = 0
    BY <1>1, <2>1 DEF FeedRecord
  <2> HIDE DEF q
  <2>4. Moves(q, p)  BY <1>1, <2>3 DEF Moves, FeedRecord, Feed!Leases
  <2>5. QED  BY <2>2, <2>4 DEF q
<1>5. CASE Feed!Expires(r) /\ q.st = "undo"
  <2>1. Feed!Becomes(r, Feed!Close(none, end))  BY <1>5 DEF Feed!Expires
  <2> HIDE DEF none, end
  <2>2. QED  BY <1>1, <1>3, <2>1
<1>6. CASE Feed!Expires(r) /\ q.st = "free"
  <2>1. PICK n \in 1..left :
           Feed!Becomes(r, Feed!Close([q EXCEPT !.lines = @ - left, !.expired = @ + n], end))
    BY <1>6 DEF Feed!Expires
  <2>2. PICK p : p = [q EXCEPT !.lines = @ - left, !.expired = @ + n]  OBVIOUS
  <2>3. Feed!Becomes(r, Feed!Close(p, end))  BY <2>1, <2>2
  <2>4. Feed!Shielded(q)  BY <1>6 DEF Feed!Expires
  <2>5. /\ left \in Nat /\ q.lines - left \in Nat /\ q.expired + n \in Nat
        /\ n \in Nat /\ n <= left
    BY <1>1, <1>2, <1>6 DEF FeedRecord
  <2> HIDE DEF q, end, left, none
  <2>6. /\ p \in FeedRecord /\ p.m = q.m /\ p.at = q.at /\ p.own = q.own /\ p.via = q.via
        /\ p.lines = q.lines - left /\ p.sent = q.sent /\ p.cut = q.cut
        /\ p.expired = q.expired + n
    BY <1>1, <2>2, <2>5 DEF FeedRecord
  <2>7. Feed!Shielded(p)  BY <1>1, <2>4, <2>6, ShieldStays DEF FeedRecord
  <2>8. Moves(q, p)  BY <1>1, <2>5, <2>6, <2>7 DEF Moves, FeedRecord, Feed!Leases
  <2>9. QED  BY <1>3, <2>3, <2>6, <2>8 DEF q
<1>7. QED  BY <1>4, <1>5, <1>6 DEF Feed!Expires

LEMMA StepMoves ==
    ASSUME FeedInv, NEW r \in Tasks, Feed!Step(r), Ranked(Method[fReq[r].m].steps)
    PROVE  \E p : Feed!Becomes(r, p) /\ Moves(fReq[r], p)
<1> DEFINE q == fReq[r]
           last == Len(Method[q.m].steps)
           Ok(p) == p \in FeedRecord /\ Moves(q, p) /\ p.cut = q.cut
           run == [q EXCEPT !.st = "run"]
           asked == [q EXCEPT !.st = "flight", !.via = fSession]
           captured == [q EXCEPT !.own = fSession]
           next == [q EXCEPT !.at = @ + 1]
           end == [q EXCEPT !.at = last]
           none == [q EXCEPT !.sent = 0]
           free == [q EXCEPT !.lines = 0]
           less == [q EXCEPT !.lines = @ - 1]
           more == [q EXCEPT !.lines = @ + 1]
           Ends(p) ==
               /\ \A e : Moves(q, Feed!Close(p, e))
               /\ Moves(q, Feed!Advance(p))
               /\ Moves(q, [p EXCEPT !.st = "kept", !.end = "ok"])
               /\ Moves(q, [p EXCEPT !.st = "run"])
<1>1. /\ Ok(q) /\ Ok(run) /\ Ok(asked) /\ Ok(captured) /\ Ok(next) /\ Ok(end)
      /\ Ok(none) /\ Ok(free)
      /\ q.lines > 0 => Ok(less)
      /\ Feed!LinesInUse < MaxLines => Ok(more)
  BY Moved
<1>2. q.st = "free" => q.lines > 0  BY DEF FeedInv, Fits
<1> DEFINE P == \E p : Feed!Becomes(r, p) /\ Moves(q, p)
           Closes(p) == \E e : Feed!Becomes(r, Feed!Close(p, e))
           Advances(p) == Feed!Becomes(r, Feed!Advance(p))
<1>3. \A p : Ok(p) => Ends(p)  BY <1>1, EndMoves
<1>4. \A p : Ok(p) /\ (Closes(p) \/ Advances(p)) => P  BY <1>3
<1>5. ASSUME Feed!Begin(r) \/ Feed!EnsureConnected(r) \/ Feed!CaptureSession(r) PROVE P
  <2>1. Feed!Becomes(r, run) \/ Advances(q) \/ Closes(q) \/ Advances(captured)
    BY <1>5 DEF Feed!Begin, Feed!EnsureConnected, Feed!CaptureSession, Feed!Fails
  <2> HIDE DEF run, captured, Closes, Advances
  <2>2. QED  BY <1>1, <1>4, <2>1
<1>6. ASSUME Feed!Waits(r) \/ Feed!Asks(r) \/ Feed!Skips(r) PROVE P
  <2>1. Feed!Becomes(r, asked) \/ Advances(q) \/ Closes(q) \/ Feed!Becomes(r, end)
    BY <1>6 DEF Feed!Waits, Feed!Asks, Feed!Skips, Feed!Fails, Feed!Steps
  <2> HIDE DEF asked, end, Closes, Advances
  <2>2. QED  BY <1>1, <1>4, <2>1
<1>7. ASSUME Feed!Answered(r) \/ Feed!Refused(r) PROVE P
  <2>1. Advances(run) \/ Closes(q)
    BY <1>7 DEF Feed!Answered, Feed!Refused, Feed!Fails
  <2> HIDE DEF run, Closes, Advances
  <2>2. QED  BY <1>1, <1>4, <2>1
<1>8. ASSUME Feed!AcquireLine(r) PROVE P
  <2>1. Feed!LinesInUse < MaxLines /\ Advances(more)  BY <1>8 DEF Feed!AcquireLine
  <2> HIDE DEF more, Closes, Advances
  <2>2. QED  BY <1>1, <1>4, <2>1
<1>9. ASSUME Feed!RequireSession(r) \/ Feed!SendFails(r) PROVE P
  <2>1. \/ Advances(q) \/ Closes(q)
        \/ Feed!At(r, {"check?", "send?"}) /\ Feed!Becomes(r, Feed!NextSymbol(q))
    BY <1>9 DEF Feed!RequireSession, Feed!SendFails, Feed!Fails, Feed!At
  <2> HIDE DEF Closes, Advances
  <2>2. QED  BY <1>1, <1>4, <2>1, NextSymbolMoves
<1>10. ASSUME Feed!Tidies(r) PROVE P
  <2>1. Closes(q) \/ Closes(next)  BY <1>10 DEF Feed!Tidies
  <2> HIDE DEF next, Closes, Advances
  <2>2. QED  BY <1>1, <1>4, <2>1
<1>11. ASSUME Feed!Keeps(r) \/ Feed!Unsubscribes(r) \/ Feed!CancelsSubscription(r) PROVE P
  <2>1. \/ Closes(q) \/ Closes(none)
        \/ Feed!Becomes(r, [q EXCEPT !.st = "kept", !.end = "ok"])
    BY <1>11 DEF Feed!Keeps, Feed!Unsubscribes, Feed!CancelsSubscription, Feed!Fails
  <2> HIDE DEF none, Closes, Advances
  <2>2. QED  BY <1>1, <1>3, <1>4, <2>1
<1>12. ASSUME Feed!ReleasesLines(r) PROVE P
  <2>1. CASE q.end = "on"
    <3>1. q.lines > 0 /\ Feed!Becomes(r, [less EXCEPT !.st = "run"])
      BY <1>2, <1>12, <2>1 DEF Feed!ReleasesLines
    <3> HIDE DEF less
    <3>2. QED  BY <1>1, <1>3, <3>1
  <2>2. CASE q.end # "on"
    <3>1. Closes(free)  BY <1>12, <2>2 DEF Feed!ReleasesLines
    <3> HIDE DEF free, Closes, Advances
    <3>2. QED  BY <1>1, <1>4, <3>1
  <2>3. QED  BY <2>1, <2>2
<1>13. ASSUME Feed!Cancelled(r) \/ Feed!TimesOut(r) PROVE P
  <2>1. CASE Feed!Cancelled(r)  BY <2>1, InterruptMoves DEF Feed!Cancelled
  <2>2. CASE Feed!TimesOut(r)
    <3>1. Method["equity_reference"].care = "retained"
      BY DEF Method, EquityReference
    <3>2. Feed!CareOf(q) \notin {"late", "ticker"}
      BY <2>2, <3>1 DEF Feed!TimesOut, Feed!CareOf
    <3>3. QED  BY <2>2, <3>2, InterruptMoves DEF Feed!TimesOut
  <2>3. QED  BY <1>13, <2>1, <2>2
<1>14. QED
  BY <1>5, <1>6, <1>7, <1>8, <1>9, <1>10, <1>11, <1>12, <1>13, SendMoves, ExpiryMoves
  DEF Feed!Step

\* What FeedInv leaves open of the types: the bounds.
Held == UNION {{r} \X (1..Feed!Leases(fReq[r])) : r \in Tasks}
Bounded(q) ==
    /\ q.own <= FeedSessions /\ q.via <= FeedSessions /\ q.sent <= Rounds
    /\ \E rank : /\ Numbered(Method[q.m].steps, rank)
                 /\ \A i \in q.at..Len(Method[q.m].steps) :
                       Method[q.m].steps[i] \in Sending => q.sent < rank[i]

FeedBounds ==
    /\ fSession <= FeedSessions /\ (~fUp => fSession < FeedSessions)
    /\ \A r \in Tasks : Bounded(fReq[r]) /\ Lost(fReq[r])
    /\ IsFiniteSet(Held) /\ Cardinality(Held) <= MaxLines

LEMMA FeedCounting == \A S : Feed!Cardinality(S) = Cardinality(S)
BY DEF Feed!Cardinality, Cardinality

\* The sends a request has behind it are numbered below those before it.
LEMMA StaysBounded ==
    ASSUME FeedInv, FeedBounds, NEW q \in FeedRecord, NEW p \in FeedRecord,
           q.at \in 1..Len(Method[q.m].steps), Len(Method[q.m].steps) \in Nat,
           Bounded(q), Moves(q, p)
    PROVE  Bounded(p)
<1> DEFINE s == Method[q.m].steps
<1>1. PICK rank : /\ Numbered(s, rank)
                  /\ \A i \in q.at..Len(s) : s[i] \in Sending => q.sent < rank[i]
  BY DEF Bounded
<1>2. /\ p.m = q.m /\ q.at \in 1..Len(s) /\ p.at >= q.at /\ Len(s) \in Nat
      /\ q.sent \in Nat /\ p.sent \in Nat /\ p.at \in Nat /\ q.at \in Nat
      /\ \/ p.sent <= q.sent
         \/ p.sent = q.sent + 1 /\ s[q.at] \in Sending /\ p.at > q.at
  BY DEF Moves, NextStep, FeedRecord
<1>3. p.own <= FeedSessions /\ p.via <= FeedSessions
  <2>1. fSession \in Nat /\ fSession <= FeedSessions  BY DEF FeedInv, FeedBounds
  <2>2. q.own <= FeedSessions /\ q.via <= FeedSessions /\ q.sent <= Rounds  BY DEF Bounded
  <2>3. p.own \in {q.own, fSession} /\ p.via \in {q.via, fSession}  BY DEF Moves
  <2>4. QED  BY <2>1, <2>2, <2>3
<1> HIDE DEF s
<1>4. \A i \in 1..Len(s) : s[i] \in Sending =>
         /\ rank[i] \in 1..Rounds
         /\ \A j \in 1..Len(s) : i < j /\ s[j] \in Sending => rank[i] < rank[j]
  BY <1>1 DEF Numbered
<1>5. CASE p.sent <= q.sent
  <2>1. \A i \in p.at..Len(s) : i \in q.at..Len(s) /\ i \in 1..Len(s)  BY <1>2
  <2>2. \A i \in p.at..Len(s) : s[i] \in Sending => p.sent < rank[i]
    BY <1>1, <1>2, <1>4, <1>5, <2>1, FeedNumbers
  <2>3. p.sent <= Rounds /\ p.own <= FeedSessions /\ p.via <= FeedSessions
    <3>1. q.sent <= Rounds  BY DEF Bounded
    <3>2. QED  BY <1>2, <1>3, <1>5, <3>1, FeedNumbers
  <2>4. QED  BY <1>1, <1>2, <2>2, <2>3 DEF Bounded, s
<1>6. CASE p.sent = q.sent + 1 /\ s[q.at] \in Sending /\ p.at > q.at
  <2>1. rank[q.at] \in 1..Rounds /\ q.sent < rank[q.at]  BY <1>1, <1>2, <1>4, <1>6
  <2>2. \A i \in p.at..Len(s) : i \in 1..Len(s) /\ q.at < i  BY <1>2, <1>6
  <2>3. \A i \in p.at..Len(s) : s[i] \in Sending => p.sent < rank[i]
    BY <1>2, <1>4, <1>6, <2>1, <2>2, FeedNumbers
  <2>4. p.sent <= Rounds  BY <1>2, <1>6, <2>1, FeedNumbers
  <2>5. QED  BY <1>1, <1>2, <1>3, <2>3, <2>4 DEF Bounded, s
<1>7. QED  BY <1>2, <1>5, <1>6

LEMMA FeedRecords ==
    ASSUME FeedInv, NEW r \in Tasks
    PROVE  /\ fReq[r] \in FeedRecord
           /\ fReq[r].at \in 1..Len(Method[fReq[r].m].steps)
           /\ Len(Method[fReq[r].m].steps) \in Nat
           /\ Ranked(Method[fReq[r].m].steps)
BY StepKnown, MethodRanks DEF FeedInv, Fits, Base

\* What a request that is over may still do.
LEMMA OverRests ==
    ASSUME NEW r \in Tasks, Feed!Step(r), fReq[r].st = "over" PROVE Feed!LeaseExpires(r)
BY DEF Feed!Step, Feed!Begin, Feed!EnsureConnected, Feed!CaptureSession, Feed!RequireSession,
       Feed!Asks, Feed!Skips, Feed!Answered, Feed!Refused, Feed!AcquireLine, Feed!Waits,
       Feed!Sends, Feed!SendFails, Feed!Tidies, Feed!Keeps, Feed!Unsubscribes,
       Feed!CancelsSubscription, Feed!ReleasesLines, Feed!Cancelled, Feed!TimesOut,
       Feed!Interrupted, Feed!Expires, Feed!At

\* A lease is lost only where the code leaves one to its time to live.
LEMMA StaysLost ==
    ASSUME NEW q \in FeedRecord, NEW p \in FeedRecord, Moves(q, p), Lost(q),
           q.st = "over" => p.cut = 0
    PROVE  Lost(p)
<1>1. p.cut = 0 \/ (p.st = "over" /\ MayCut(p, p.end))
  <2>1. q.st # "over" => q.cut = 0  BY DEF Lost, FeedRecord
  <2> QED BY <2>1 DEF Moves
<1>2. p.expired > 0 => Feed!Shielded(p)
  <2>1. Feed!Shielded(q) => Feed!Shielded(p)  BY ShieldStays DEF Moves, FeedRecord
  <2> QED BY <2>1 DEF Moves, Lost
<1> QED BY <1>1, <1>2 DEF Lost, FeedRecord

LEMMA StepBounds ==
    ASSUME FeedInv, FeedInv', FeedBounds, NEW r \in Tasks, Feed!Step(r)
    PROVE  FeedBounds'
<1> DEFINE q == fReq[r]
<1>1. PICK p : Feed!Becomes(r, p) /\ Moves(q, p)  BY StepMoves, FeedRecords
<1>2. /\ fUp' = fUp /\ fSession' = fSession
      /\ \A k \in Tasks : fReq'[k] = IF k = r THEN p ELSE fReq[k]
  <2>1. fReq = [k \in Tasks |-> fReq[k]]  BY DEF FeedInv
  <2>2. QED  BY <1>1, <2>1 DEF Feed!Becomes
<1>3. fReq'[r] = p /\ p \in FeedRecord
  <2>1. \A k \in Tasks : fReq'[k] \in FeedRecord  BY DEF FeedInv, Fits, Base
  <2>2. QED  BY <1>2, <2>1
<1>4. Bounded(p)  BY <1>1, FeedRecords, <1>3, StaysBounded DEF FeedBounds
<1>5. Lost(p)
  <2>1. q \in FeedRecord  BY FeedRecords
  <2>2. ASSUME q.st = "over" PROVE p.cut = 0
    <3>1. Feed!Becomes(r, [q EXCEPT !.cut = 0, !.expired = 0])
      BY <2>2, OverRests DEF Feed!LeaseExpires
    <3>2. fReq'[r] = [q EXCEPT !.cut = 0, !.expired = 0]
      BY <3>1 DEF Feed!Becomes, FeedInv
    <3>3. QED  BY <1>3, <2>1, <3>2 DEF FeedRecord
  <2>3. QED  BY <1>1, <1>3, <2>1, <2>2, StaysLost DEF FeedBounds
<1>6. \A k \in Tasks : Bounded(fReq'[k]) /\ Lost(fReq'[k])
  BY <1>2, <1>4, <1>5 DEF FeedBounds
<1>7. IsFiniteSet(Held') /\ Cardinality(Held') <= MaxLines
  <2> DEFINE m == Feed!Leases(q)
             n == Feed!Leases(p)
  <2>1. m \in Nat /\ n \in Nat  BY <1>3, FeedRecords, LeasesCounted
  <2>2. /\ \A k \in Tasks \ {r} : Feed!Leases(fReq'[k]) = Feed!Leases(fReq[k])
        /\ Feed!Leases(fReq'[r]) = n /\ Feed!Leases(fReq[r]) = m
    BY <1>2
  <2>3. n <= m \/ (n = m + 1 /\ Feed!LinesInUse < MaxLines)  BY <1>1 DEF Moves
  <2> HIDE DEF q, m, n
  <2>4. CASE n <= m
    <3>1. 1..n \subseteq 1..m  BY <2>1, <2>4
    <3>2. Held' \subseteq Held  BY <2>2, <3>1 DEF Held
    <3>3. QED  BY <3>2, Smaller, FeedNumbers DEF FeedBounds
  <2>5. CASE n = m + 1 /\ Feed!LinesInUse < MaxLines
    <3>1. 1..n = (1..m) \cup {m + 1}  BY <2>1, <2>5
    <3>2. Held' \subseteq Held \cup {<<r, m + 1>>}  BY <2>2, <3>1 DEF Held
    <3>3. Cardinality(Held) < MaxLines  BY <2>5, FeedCounting DEF Feed!LinesInUse, Held
    <3>4. QED  BY <3>2, <3>3, OneMore, FeedNumbers DEF FeedBounds
  <2>6. QED  BY <2>3, <2>4, <2>5
<1>8. QED  BY <1>2, <1>6, <1>7 DEF FeedBounds

LEMMA EndedBounds ==
    ASSUME FeedInv, FeedInv', FeedBounds, Feed!SessionEnds PROVE FeedBounds'
<1>1. /\ fSession < FeedSessions /\ fSession' = fSession
      /\ \A r \in Tasks : fReq'[r] = Feed!SessionEnded(fReq[r])
  BY DEF Feed!SessionEnds
<1>2. ASSUME NEW r \in Tasks
      PROVE  /\ Moves(fReq[r], fReq'[r])
             /\ Feed!Leases(fReq'[r]) <= Feed!Leases(fReq[r])
             /\ fReq'[r] \in FeedRecord /\ Lost(fReq'[r])
  <2> DEFINE q == fReq[r]
             p == fReq'[r]
  <2>1. q \in FeedRecord /\ p = Feed!SessionEnded(q)  BY <1>1, FeedRecords
  <2>2. p \in FeedRecord /\ Lost(q)  BY DEF FeedInv, Fits, Base, FeedBounds
  <2>3. \/ p = q
        \/ /\ p = [q EXCEPT !.lines = @ - q.sent, !.sent = 0,
                             !.st = IF @ = "kept" THEN "over" ELSE @]
           /\ q.st # "over"
    BY <2>1 DEF Feed!SessionEnded
  <2> HIDE DEF q, p
  <2>4. /\ p.m = q.m /\ p.at = q.at /\ p.own = q.own /\ p.via = q.via
        /\ p.lines \in {q.lines, q.lines - q.sent} /\ p.sent \in {q.sent, 0}
        /\ p.cut = q.cut /\ p.expired = q.expired
    BY <2>1, <2>3 DEF FeedRecord
  <2>5. Feed!Leases(p) <= Feed!Leases(q)  BY <2>1, <2>4 DEF FeedRecord, Feed!Leases
  <2>6. Moves(q, p)  BY <2>1, <2>4, <2>5 DEF Moves, FeedRecord
  <2>7. Lost(p)
    <3>1. CASE p = q  BY <2>2, <3>1
    <3>2. CASE q.st # "over"  BY <2>1, <2>2, <2>6, <3>2, StaysLost
    <3>3. QED  BY <2>3, <3>1, <3>2
  <2>8. QED  BY <2>2, <2>5, <2>6, <2>7 DEF q, p
<1>3. \A r \in Tasks : Bounded(fReq'[r]) /\ Lost(fReq'[r])
  BY <1>2, FeedRecords, StaysBounded DEF FeedBounds
<1>4. Held' \subseteq Held
  <2>1. \A r \in Tasks : 1..Feed!Leases(fReq'[r]) \subseteq 1..Feed!Leases(fReq[r])
    <3> TAKE r \in Tasks
    <3>1. Feed!Leases(fReq'[r]) \in Nat /\ Feed!Leases(fReq[r]) \in Nat
      BY <1>2, FeedRecords, LeasesCounted
    <3>2. QED  BY <1>2, <3>1
  <2>2. QED  BY <2>1 DEF Held
<1>5. IsFiniteSet(Held') /\ Cardinality(Held') <= MaxLines
  BY <1>4, Smaller, FeedNumbers DEF FeedBounds
<1>6. fSession' <= FeedSessions  BY <1>1, FeedNumbers DEF FeedInv
<1>7. QED  BY <1>1, <1>3, <1>5, <1>6 DEF FeedBounds

LEMMA BegunBounds == ASSUME FeedInv, FeedBounds, Feed!SessionBegins PROVE FeedBounds'
<1>1. ~fUp /\ fUp' = TRUE /\ fSession' = fSession + 1 /\ fReq' = fReq
  BY DEF Feed!SessionBegins
<1>2. fSession' <= FeedSessions  BY <1>1, FeedNumbers DEF FeedInv, FeedBounds
<1>3. Held' = Held  BY <1>1 DEF Held
<1>4. \A r \in Tasks : Bounded(fReq'[r]) /\ Lost(fReq'[r])  BY <1>1 DEF FeedBounds
<1>5. QED  BY <1>1, <1>2, <1>3, <1>4 DEF FeedBounds

LEMMA FirstBounds == SuiteInit => FeedBounds
<1> SUFFICES ASSUME SuiteInit PROVE FeedBounds  OBVIOUS
<1>1. FeedInv /\ Feed!Init  BY FeedInit DEF SuiteInit
<1>2. PICK ask : fReq = [r \in Tasks |->
                            [m |-> ask[r], at |-> 1, own |-> 0, via |-> 0, lines |-> 0,
                             sent |-> 0, cut |-> 0, expired |-> 0, st |-> "idle",
                             end |-> "none"]]
  BY <1>1 DEF Feed!Init
<1>3. ASSUME NEW r \in Tasks
      PROVE  Bounded(fReq[r]) /\ Lost(fReq[r]) /\ Feed!Leases(fReq[r]) = 0
  <2> DEFINE q == fReq[r]
             s == Method[q.m].steps
  <2>1. /\ q.at = 1 /\ q.own = 0 /\ q.via = 0 /\ q.lines = 0 /\ q.sent = 0
        /\ q.cut = 0 /\ q.expired = 0
    BY <1>2
  <2>2. PICK rank : Numbered(s, rank)  BY <1>1, FeedRecords DEF Ranked
  <2>3. \A i \in q.at..Len(s) : s[i] \in Sending => q.sent < rank[i]
    <3>1. \A i \in 1..Len(s) : s[i] \in Sending => rank[i] \in 1..Rounds
      BY <2>2 DEF Numbered
    <3> HIDE DEF q, s
    <3>2. QED  BY <2>1, <3>1, FeedNumbers
  <2> HIDE DEF q
  <2>4. Bounded(q)  BY <2>1, <2>2, <2>3, FeedNumbers DEF Bounded, q
  <2>5. Lost(q) /\ Feed!Leases(q) = 0  BY <2>1 DEF Lost, Feed!Leases
  <2>6. QED  BY <2>4, <2>5 DEF q
<1>4. Held = {}
  <2>1. \A r \in Tasks : 1..Feed!Leases(fReq[r]) = {}  BY <1>3
  <2>2. QED  BY <2>1 DEF Held
<1>5. IsFiniteSet(Held) /\ Cardinality(Held) = 0  BY <1>4, FS_EmptySet
<1>6. fSession = 1 /\ fUp  BY <1>1 DEF Feed!Init
<1>7. QED  BY <1>3, <1>5, <1>6, FeedNumbers DEF FeedBounds

LEMMA FeedBounded ==
    ASSUME FeedInv, FeedInv', FeedBounds, [Feed!Next]_feedVars PROVE FeedBounds'
<1>1. CASE UNCHANGED feedVars
  BY <1>1 DEF feedVars, FeedBounds, Held, Bounded, Lost
<1>2. CASE Feed!Next  BY <1>2, StepBounds, EndedBounds, BegunBounds DEF Feed!Next
<1>3. QED  BY <1>1, <1>2

LEMMA FeedTypes == ASSUME FeedInv, FeedBounds PROVE Feed!TypeOK
<1>1. ASSUME NEW r \in Tasks PROVE fReq[r] \in Feed!Record
  <2> DEFINE q == fReq[r]
             n == Feed!Leases(q)
             mine == {r} \X (1..n)
  <2>1. q \in FeedRecord /\ Bounded(q)  BY FeedRecords DEF FeedBounds
  <2>2. n \in Nat  BY <2>1 DEF FeedRecord, Feed!Leases
  <2>3. n <= MaxLines
    <3>1. mine \subseteq Held  BY DEF Held
    <3> HIDE DEF q, n, mine
    <3>2. IsFiniteSet(mine) /\ Cardinality(mine) <= MaxLines
      BY <3>1, Smaller, FeedNumbers DEF FeedBounds
    <3>3. Cardinality(mine) = n
      <4>1. IsFiniteSet({r}) /\ Cardinality({r}) = 1  BY FS_Singleton
      <4>2. IsFiniteSet(1..n) /\ Cardinality(1..n) = n  BY <2>2, FS_Interval
      <4>3. Cardinality(mine) = Cardinality({r}) * Cardinality(1..n)
        BY <4>1, <4>2, FS_Product DEF mine
      <4>4. QED  BY <2>2, <4>1, <4>2, <4>3
    <3>4. QED  BY <3>2, <3>3
  <2>4. q.lines \in 0..MaxLines /\ q.cut \in 0..MaxLines /\ q.expired \in 0..MaxLines
    BY <2>1, <2>3, FeedNumbers DEF FeedRecord, Feed!Leases
  <2> HIDE DEF q, n, mine
  <2>5. QED
    BY <2>1, <2>4, FeedNumbers DEF FeedRecord, FeedEnds, Bounded, Feed!Record, q
<1>2. fSession \in 1..FeedSessions  BY FeedNumbers DEF FeedInv, FeedBounds
<1>3. fReq \in [Tasks -> Feed!Record]  BY <1>1 DEF FeedInv
<1>4. QED  BY <1>2, <1>3 DEF Feed!TypeOK, FeedInv

\* HistoricalRange.
LEMMA RangeTypesStart == History!Init => History!TypeOK
BY RangeNumbers DEF History!Init, History!TypeOK, History!Ranges, History!Time

LEMMA RangeTypes ==
    ASSUME RangeInv, RangeInv', History!TypeOK, [History!Next]_rangeVars
    PROVE  History!TypeOK'
<1> USE RangeNumbers DEF History!TypeOK, History!Time
<1>1. /\ gRequest' = gRequest /\ gTraded' = gTraded
      /\ gChunkEnd' \in Nat /\ gRequest.end \in 0..LastTime /\ gChunkEnd' <= gRequest.end
  <2>1. gRequest' = gRequest /\ gTraded' = gTraded
    BY DEF History!Next, History!Reject, History!EmptyRange, History!Plan, History!LoadOnce,
           History!LoadChunk, History!LastChunk, rangeVars
  <2>2. gChunkEnd' \in 0..gRequest'.end /\ gRequest.end \in 0..LastTime  BY DEF RangeInv
  <2>3. QED  BY <2>1, <2>2
<1>2. gChunkEnd' \in 0..LastTime  BY <1>1
<1>3. gAllBars' \subseteq gTraded \cup gAllBars
  <2>1. \A lo, hi : \A reply \in History!Replies(lo, hi) : reply \subseteq gTraded
    BY DEF History!Replies
  <2>2. QED
    BY <2>1
    DEF History!Next, History!Reject, History!EmptyRange, History!Plan, History!LoadOnce,
        History!LoadChunk, History!LastChunk, rangeVars
<1>4. gChunks' = gChunks \/ (gChunks < MaxChunks /\ gChunks' = gChunks + 1)
  BY DEF History!Next, History!Reject, History!EmptyRange, History!Plan, History!LoadOnce,
         History!LoadChunk, History!LastChunk, History!PagesLeft, rangeVars
<1>5. gPhase' \in {"asked", "paging", "direct", "done", "rejected"}
  BY DEF History!Next, History!Reject, History!EmptyRange, History!Plan, History!LoadOnce,
         History!LoadChunk, History!LastChunk, rangeVars
<1>6. QED  BY <1>1, <1>2, <1>3, <1>4, <1>5


-----------------------------------------------------------------------------
\* HistoricalPacing: what a guard keeps to by itself, and the types.

\* A guard looks at its own table, which is within the limits whatever is sent
\* again or through the other guard; what is sent was recorded by one of them.
TablesWithin ==
    \A g \in Pool!Both : Events(hTable[g], hNow) /\ WithinLimits(hTable[g], hNow)

SendsAreRecorded ==
    \A e \in hSent : \E g \in Pool!Both : \E r \in hTable[g] : r.call = e.call /\ r.at <= e.at

TablesInv ==
    /\ hNow \in Nat /\ TablesWithin /\ SendsAreRecorded
    /\ \A c \in Calls :
          hPc[c] \in {"limiter", "flight"} => \E r \in hTable[hGuard[c]] : r.call = c

LEMMA PacingBounds ==
    /\ PoolTime \in Nat /\ LimitsTime \in Nat /\ PoolOutages \in Nat
    /\ PoolAttempts \in Nat \ {0} /\ PoolPermits \in Nat \ {0} /\ LimitsPermits \in Nat \ {0}
BY PartsAssumption DEF Pool!PacingAssumption, Limits!PacingAssumption

LEMMA SameGuard ==
    /\ Pool!Both = {"redis", "local"} /\ Limits!Both = Pool!Both
    /\ \A events, c : Pool!RequiredWait(events, c) = Limits!RequiredWait(events, c)
BY DEF Pool!Both, Limits!Both, Pool!RequiredWait, Limits!RequiredWait,
       Pool!WindowWaits, Limits!WindowWaits, Pool!CooldownWaits, Limits!CooldownWaits,
       Pool!BurstWaits, Limits!BurstWaits, Pool!Recent, Limits!Recent,
       Pool!SameSeries, Limits!SameSeries, Pool!SameContract, Limits!SameContract,
       Pool!Load, Limits!Load, Pool!Places, Limits!Places, Pool!Left, Limits!Left,
       Pool!Max, Limits!Max, Pool!Min, Limits!Min, Pool!Cardinality, Limits!Cardinality

LEMMA TablesStart == Pool!Init => TablesInv
BY NothingIsWithin, SameGuard
   DEF Pool!Init, TablesInv, TablesWithin, SendsAreRecorded

\* A guard records a request that it makes wait no longer.
LEMMA RecordingKeeps ==
    ASSUME hNow \in Nat, TablesWithin, hTable \in [Pool!Both -> SUBSET Pool!Event],
           NEW g \in Pool!Both, NEW c \in Calls,
           NEW e, e = [call |-> c, attempt |-> 1, at |-> hNow],
           Pool!RequiredWait(hTable[g], c) = 0,
           hTable' = [hTable EXCEPT ![g] = @ \cup {e}], hNow' = hNow
    PROVE  /\ TablesWithin' /\ e \in hTable'[g]
           /\ \A h \in Pool!Both : hTable[h] \subseteq hTable'[h]
<1>1. e.call = c /\ e.at = hNow  OBVIOUS
<1>2. Events(hTable[g], hNow) /\ WithinLimits(hTable[g], hNow)  BY DEF TablesWithin
<1>3. HasRoom(hTable[g], hNow, c)  BY <1>2, SameGuard, SlotHasRoom
<1>4. hTable'[g] = hTable[g] \cup {e}  OBVIOUS
<1>5. Events(hTable'[g], hNow) /\ WithinLimits(hTable'[g], hNow)
  BY <1>1, <1>2, <1>3, <1>4, OneMoreIsWithin
<1>6. \A h \in Pool!Both : h # g => hTable'[h] = hTable[h]  OBVIOUS
<1>7. QED  BY <1>4, <1>5, <1>6 DEF TablesWithin

\* The tables grow, and nothing is sent.
LEMMA GrowingKeeps ==
    ASSUME TablesInv, TablesWithin', UNCHANGED <<hNow, hSent>>,
           \A h \in Pool!Both : hTable[h] \subseteq hTable'[h],
           hGuard \in [Calls -> Pool!Both],
           \A c \in Calls : hPc'[c] \in {"limiter", "flight"} =>
               \/ hPc[c] \in {"limiter", "flight"} /\ hGuard'[c] = hGuard[c]
               \/ \E r \in hTable'[hGuard'[c]] : r.call = c
    PROVE  TablesInv'
<1>1. SendsAreRecorded'  BY DEF TablesInv, SendsAreRecorded
<1>2. ASSUME NEW c \in Calls, hPc'[c] \in {"limiter", "flight"}
      PROVE  \E r \in hTable'[hGuard'[c]] : r.call = c
  <2>1. CASE hPc[c] \in {"limiter", "flight"} /\ hGuard'[c] = hGuard[c]
    <3>1. PICK r \in hTable[hGuard[c]] : r.call = c  BY <2>1 DEF TablesInv
    <3>2. hGuard[c] \in Pool!Both  OBVIOUS
    <3>3. QED  BY <2>1, <3>1, <3>2
  <2>2. QED  BY <1>2, <2>1
<1>3. QED  BY <1>1, <1>2 DEF TablesInv

LEMMA TablesKeep ==
    ASSUME TablesInv, PoolInv, Pool!TypeOK, [Pool!Next]_pacingVars PROVE TablesInv'
<1>0. /\ hNow \in Nat /\ TablesWithin /\ SendsAreRecorded
      /\ hTable \in [Pool!Both -> SUBSET Pool!Event]
      /\ hGuard \in [Calls -> Pool!Both] /\ hPc \in [Calls -> Stages]
  BY DEF TablesInv, PoolInv, Pool!TypeOK
<1>1. CASE Pool!Tick
  <2>1. TablesWithin'  BY <1>0, <1>1, LaterIsWithin DEF Pool!Tick, Events, TablesWithin
  <2>2. QED  BY <1>0, <1>1, <2>1 DEF Pool!Tick, TablesInv, SendsAreRecorded
<1>2. ASSUME NEW c \in Calls, Pool!GetsSlot(c) PROVE TablesInv'
  <2>1. PICK e : e = [call |-> c, attempt |-> 1, at |-> hNow]  OBVIOUS
  <2>2. PICK g \in Pool!Both : g = hGuard[c]  BY <1>0
  <2>3. /\ hTable' = [hTable EXCEPT ![g] = @ \cup {e}] /\ hPc' = [hPc EXCEPT ![c] = "limiter"]
        /\ Pool!RequiredWait(hTable[g], c) = 0 /\ UNCHANGED <<hNow, hSent, hGuard>>
    BY <1>2, <2>1, <2>2 DEF Pool!GetsSlot, Pool!Records, Pool!Goes
  <2>4. /\ TablesWithin' /\ e \in hTable'[g] /\ e.call = c
        /\ \A h \in Pool!Both : hTable[h] \subseteq hTable'[h]
    BY <1>0, <2>1, <2>3, RecordingKeeps
  <2>5. QED  BY <1>0, <2>2, <2>3, <2>4, GrowingKeeps
<1>3. ASSUME NEW c \in Calls, Pool!FallsBack(c) PROVE TablesInv'
  <2>1. PICK e : e = [call |-> c, attempt |-> 1, at |-> hNow]  OBVIOUS
  <2>2. /\ hPc' = [hPc EXCEPT ![c] = "permit"] /\ UNCHANGED <<hNow, hSent>>
        /\ hGuard' = [hGuard EXCEPT ![c] = "local"]
        /\ \/ hTable' = hTable
           \/ /\ Pool!RequiredWait(hTable["redis"], c) = 0
              /\ hTable' = [hTable EXCEPT !["redis"] = @ \cup {e}]
    BY <1>3, <2>1 DEF Pool!FallsBack, Pool!Records, Pool!Goes
  <2>3. "redis" \in Pool!Both  BY SameGuard
  <2>4. TablesWithin' /\ \A h \in Pool!Both : hTable[h] \subseteq hTable'[h]
    <3>1. CASE hTable' = hTable  BY <1>0, <2>2, <3>1 DEF TablesWithin
    <3>2. CASE hTable' # hTable  BY <1>0, <2>1, <2>2, <2>3, <3>2, RecordingKeeps
    <3>3. QED  BY <3>1, <3>2
  <2>5. QED  BY <1>0, <2>2, <2>4, GrowingKeeps
<1>4. ASSUME NEW c \in Calls, Pool!SendsRequest(c) PROVE TablesInv'
  <2>1. PICK e : e = [call |-> c, attempt |-> hAttempt[c], at |-> hNow]  OBVIOUS
  <2>2. /\ hPc[c] = "limiter" /\ hPc' = [hPc EXCEPT ![c] = "flight"]
        /\ hSent' = hSent \cup {e} /\ UNCHANGED <<hNow, hGuard, hTable>>
    BY <1>4, <2>1 DEF Pool!SendsRequest, Pool!Goes
  <2>3. PICK g \in Pool!Both : g = hGuard[c]  BY <1>0
  <2>4. PICK r \in hTable[g] : r.call = c  BY <2>2, <2>3 DEF TablesInv
  <2>5. r.at <= hNow  BY <1>0, <2>4 DEF TablesWithin, Events
  <2>6. SendsAreRecorded'  BY <1>0, <2>1, <2>2, <2>4, <2>5 DEF SendsAreRecorded
  <2>7. TablesWithin'  BY <1>0, <2>2 DEF TablesWithin
  <2>8. QED  BY <1>0, <2>2, <2>6, <2>7 DEF TablesInv
<1>5. ASSUME NEW c \in Calls,
             \/ Pool!Asks(c) \/ Pool!TakesPermit(c) \/ Pool!Sleeps(c)
             \/ Pool!Ends(c) \/ Pool!Cancelled(c) \/ Pool!Resends(c)
      PROVE  TablesInv'
  <2>1. /\ UNCHANGED <<hNow, hSent, hGuard, hTable>>
        /\ \A d \in Calls : hPc'[d] \in {"limiter", "flight"} => hPc[d] \in {"limiter", "flight"}
    BY <1>0, <1>5
       DEF Pool!Asks, Pool!TakesPermit, Pool!Sleeps, Pool!Ends, Pool!Cancelled, Pool!Resends,
           Pool!Goes, Pool!Release
  <2>2. TablesWithin'  BY <1>0, <2>1 DEF TablesWithin
  <2>3. QED  BY <1>0, <2>1, <2>2, GrowingKeeps
<1>6. CASE UNCHANGED pacingVars
  <2>1. TablesWithin'  BY <1>0, <1>6 DEF TablesWithin, pacingVars
  <2>2. QED  BY <1>0, <1>6, <2>1, GrowingKeeps DEF pacingVars
<1>7. QED  BY <1>1, <1>2, <1>3, <1>4, <1>5, <1>6 DEF Pool!Next

LEMMA PoolTypesStart == Pool!Init => Pool!TypeOK
BY PacingBounds, PacingNumbers, SameGuard DEF Pool!Init, Pool!TypeOK, Stages

LEMMA PoolTypes ==
    ASSUME Pool!TypeOK, PoolInv', TablesInv, [Pool!Next]_pacingVars PROVE Pool!TypeOK'
<1> USE PacingBounds DEF Pool!TypeOK, Pool!Goes, Stages
<1>1. /\ hPc' \in [Calls -> Stages]
      /\ hGuard' \in [Calls -> Pool!Both] /\ hMode' \in [Calls -> Pool!Both \cup {"none"}]
      /\ hPermits' \in [Pool!Both -> Nat]
  BY DEF PoolInv
<1> DEFINE Rest ==
        /\ hNow' \in 0..PoolTime /\ hWake' \in [Calls -> Nat]
        /\ hAttempt' \in [Calls -> 1..PoolAttempts]
        /\ hTable' \in [Pool!Both -> SUBSET Pool!Event] /\ hSent' \subseteq Pool!Event
        /\ hOutages' \in 0..PoolOutages
<1>2. CASE Pool!Tick  BY <1>2 DEF Pool!Tick
<1>3. ASSUME NEW c \in Calls, Pool!GetsSlot(c) PROVE Rest
  <2>1. PICK e : e = [call |-> c, attempt |-> 1, at |-> hNow]  OBVIOUS
  <2>2. e \in Pool!Event  BY <2>1 DEF Pool!Event
  <2>3. /\ hTable' = [hTable EXCEPT ![hGuard[c]] = @ \cup {e}]
        /\ UNCHANGED <<hNow, hWake, hAttempt, hSent, hOutages>>
    BY <1>3, <2>1 DEF Pool!GetsSlot, Pool!Records
  <2>4. QED  BY <2>2, <2>3
<1>4. ASSUME NEW c \in Calls, Pool!Sleeps(c) PROVE Rest
  <2>1. Pool!RequiredWait(hTable[hGuard[c]], c) \in Nat
    BY SameGuard, SlotHasRoom DEF TablesInv, TablesWithin
  <2>2. QED  BY <1>4, <2>1 DEF Pool!Sleeps
<1>5. ASSUME NEW c \in Calls, Pool!SendsRequest(c) PROVE Rest
  <2>1. PICK e : e = [call |-> c, attempt |-> hAttempt[c], at |-> hNow]  OBVIOUS
  <2>2. e \in Pool!Event  BY <2>1 DEF Pool!Event
  <2>3. hSent' = hSent \cup {e} /\ UNCHANGED <<hNow, hWake, hAttempt, hTable, hOutages>>
    BY <1>5, <2>1 DEF Pool!SendsRequest
  <2>4. QED  BY <2>2, <2>3
<1>6. ASSUME NEW c \in Calls, Pool!FallsBack(c) PROVE Rest
  <2>1. PICK e : e = [call |-> c, attempt |-> 1, at |-> hNow]  OBVIOUS
  <2>2. e \in Pool!Event  BY <2>1 DEF Pool!Event
  <2>3. /\ \/ hTable' = hTable
           \/ hTable' = [hTable EXCEPT ![hGuard[c]] = @ \cup {e}]
        /\ hOutages < PoolOutages /\ hOutages' = hOutages + 1
        /\ UNCHANGED <<hNow, hWake, hAttempt, hSent>>
    BY <1>6, <2>1 DEF Pool!FallsBack, Pool!Records
  <2>4. QED  BY <2>2, <2>3
<1>7. ASSUME NEW c \in Calls,
             \/ Pool!Asks(c) \/ Pool!TakesPermit(c) \/ Pool!Ends(c) \/ Pool!Resends(c)
             \/ Pool!Cancelled(c)
      PROVE  Rest
  BY <1>7 DEF Pool!Asks, Pool!TakesPermit, Pool!Ends, Pool!Resends, Pool!Cancelled
<1>8. CASE UNCHANGED pacingVars  BY <1>8 DEF pacingVars
<1>9. Rest  BY <1>2, <1>3, <1>4, <1>5, <1>6, <1>7, <1>8 DEF Pool!Next
<1>10. QED  BY <1>1, <1>9

LEMMA LimitsTypesStart == Limits!Init => Limits!TypeOK
BY PacingBounds, PacingNumbers, SameGuard DEF Limits!Init, Limits!TypeOK, Stages

LEMMA LimitsTypes ==
    ASSUME Limits!TypeOK, LimitsInv, [Limits!Next]_pacingVars PROVE Limits!TypeOK'
<1> USE PacingBounds DEF Limits!TypeOK, Limits!Goes
<1>1. CASE Limits!Tick  BY <1>1 DEF Limits!Tick
<1>2. ASSUME NEW c \in Calls, Limits!GetsSlot(c) PROVE Limits!TypeOK'
  <2>1. PICK e : e = [call |-> c, attempt |-> 1, at |-> hNow]  OBVIOUS
  <2>2. e \in Limits!Event  BY <2>1 DEF Limits!Event
  <2>3. /\ hTable' = [hTable EXCEPT ![hGuard[c]] = @ \cup {e}]
        /\ hMode' = [hMode EXCEPT ![c] = hGuard[c]] /\ hPc' = [hPc EXCEPT ![c] = "limiter"]
        /\ UNCHANGED <<hNow, hGuard, hWake, hAttempt, hPermits, hSent, hOutages>>
    BY <1>2, <2>1 DEF Limits!GetsSlot, Limits!Records
  <2>4. QED  BY <2>2, <2>3
<1>3. ASSUME NEW c \in Calls, Limits!Sleeps(c) PROVE Limits!TypeOK'
  <2>1. hTable[hGuard[c]] = Grants  BY DEF LimitsInv, GrantsInv, Grants
  <2>2. Limits!RequiredWait(hTable[hGuard[c]], c) \in Nat
    BY <2>1, SlotHasRoom DEF LimitsInv, GrantsInv
  <2>3. QED  BY <1>3, <2>2 DEF Limits!Sleeps
<1>4. ASSUME NEW c \in Calls, Limits!Asks(c) \/ Limits!TakesPermit(c) PROVE Limits!TypeOK'
  BY <1>4 DEF Limits!Asks, Limits!TakesPermit
<1>5. ASSUME NEW c \in Calls, Limits!Ends(c) \/ Limits!Cancelled(c) PROVE Limits!TypeOK'
  <2> DEFINE g == IF First = "local" THEN "local" ELSE hMode[c]
  <2>1. /\ hPermits' = IF g = "none" THEN hPermits ELSE [hPermits EXCEPT ![g] = @ + 1]
        /\ hMode' = [hMode EXCEPT ![c] = "none"] /\ hPc' = [hPc EXCEPT ![c] = "done"]
        /\ UNCHANGED <<hNow, hGuard, hWake, hAttempt, hTable, hSent, hOutages>>
    BY <1>5 DEF Limits!Ends, Limits!Cancelled, Limits!Release
  <2>2. g = "none" \/ g \in Limits!Both  BY SameGuard
  <2> HIDE DEF g
  <2>3. QED  BY <2>1, <2>2
<1>6. ASSUME NEW c \in Calls, Limits!FallsBack(c) \/ Limits!Resends(c) PROVE FALSE
  BY <1>6 DEF Limits!FallsBack, Limits!Resends, LimitsInv, GrantsInv
<1>7. ASSUME NEW c \in Calls, Limits!SendsRequest(c) PROVE Limits!TypeOK'
  <2>1. PICK e : e = [call |-> c, attempt |-> hAttempt[c], at |-> hNow]  OBVIOUS
  <2>2. e \in Limits!Event  BY <2>1 DEF Limits!Event
  <2>3. hSent' = hSent \cup {e} /\ hPc' = [hPc EXCEPT ![c] = "flight"]
        /\ UNCHANGED <<hNow, hGuard, hMode, hWake, hAttempt, hPermits, hTable, hOutages>>
    BY <1>7, <2>1 DEF Limits!SendsRequest
  <2>4. QED  BY <2>2, <2>3
<1>8. CASE UNCHANGED pacingVars  BY <1>8 DEF pacingVars
<1>9. QED  BY <1>1, <1>2, <1>3, <1>4, <1>5, <1>6, <1>7, <1>8 DEF Limits!Next

-----------------------------------------------------------------------------
\* All parts together.

GatewayInv ==
    /\ Inv /\ TypeOK
    /\ RangeInv /\ History!TypeOK
    /\ part = "limits" => LimitsInv /\ Limits!TypeOK
    /\ part = "pool" => PoolInv /\ TablesInv /\ Pool!TypeOK
    /\ FeedInv /\ FeedBounds

LEMMA GatewayStarts == SuiteInit => GatewayInv
<1> SUFFICES ASSUME SuiteInit PROVE GatewayInv  OBVIOUS
<1>1. Inv /\ TypeOK  BY InitInv, InitTypes DEF SuiteInit
<1>2. RangeInv /\ History!TypeOK  BY RangeStarts, RangeTypesStart DEF SuiteInit
<1>3. part = "limits" => LimitsInv /\ Limits!TypeOK
  BY LimitsStart, LimitsTypesStart DEF SuiteInit
<1>4. part = "pool" => PoolInv /\ TablesInv /\ Pool!TypeOK
  BY PoolStarts, TablesStart, PoolTypesStart DEF SuiteInit
<1>5. FeedInv /\ FeedBounds  BY FeedInit, FirstBounds
<1>6. QED  BY <1>1, <1>2, <1>3, <1>4, <1>5 DEF GatewayInv

LEMMA GatewayKeeps ==
    GatewayInv /\ [SuiteNext]_<<part, rateVars, pacingVars, feedVars, rangeVars>> => GatewayInv'
<1> SUFFICES ASSUME GatewayInv,
                    [SuiteNext]_<<part, rateVars, pacingVars, feedVars, rangeVars>>
             PROVE  GatewayInv'
  OBVIOUS
<1>1. /\ part' = part /\ [Next]_rateVars /\ [Feed!Next]_feedVars /\ [History!Next]_rangeVars
      /\ part = "limits" => [Limits!Next]_pacingVars
      /\ part = "pool" => [Pool!Next]_pacingVars
  BY DEF SuiteNext, RateSuite, LimitsSuite, PoolSuite, FeedSuite, RangeSuite
<1>2. Inv' /\ TypeOK'
  <2>1. [Next]_vars  BY <1>1 DEF rateVars, vars
  <2>2. QED  BY <2>1, NextInv, NextTypes DEF GatewayInv
<1>3. RangeInv' /\ History!TypeOK'  BY <1>1, RangeKeeps, RangeTypes DEF GatewayInv
<1>4. part' = "limits" => LimitsInv' /\ Limits!TypeOK'
  BY <1>1, LimitsKeep, LimitsTypes DEF GatewayInv
<1>5. part' = "pool" => PoolInv' /\ TablesInv' /\ Pool!TypeOK'
  BY <1>1, PoolKeeps, TablesKeep, PoolTypes DEF GatewayInv
<1>6. FeedInv' /\ FeedBounds'
  BY <1>1, FeedKept, FeedBounded DEF GatewayInv
<1>7. QED  BY <1>2, <1>3, <1>4, <1>5, <1>6 DEF GatewayInv

LEMMA GatewayInvariant == SuiteSpec => []GatewayInv
BY GatewayStarts, GatewayKeeps, PTL DEF SuiteSpec

(* Every part of the gateway's traffic keeps its types, with every bound they
   state: the attempts and sessions, the lines and subscriptions of a request,
   the pages of a range. *)
THEOREM GatewayIsTyped == SuiteSpec => []TypesOK
<1>1. GatewayInv => TypesOK  BY FeedTypes DEF GatewayInv, TypesOK
<1>2. QED  BY <1>1, GatewayInvariant, PTL

(* The requests of the process never hold more market-data lines together
   than the limiter has, whatever they are, and whatever ends or abandons
   them on the way (market_data_line). *)
THEOREM LinesAreNotOverbooked == SuiteSpec => [](Feed!LinesInUse <= MaxLines)
<1>1. GatewayInv => Feed!LinesInUse <= MaxLines
  BY FeedCounting DEF GatewayInv, FeedBounds, Held, Feed!LinesInUse
<1>2. QED  BY <1>1, GatewayInvariant, PTL

(* A request that is over holds no line and has left no subscription at the
   gateway, for every number of tasks, lines and rounds and every choice of
   methods; and a lease that nobody released is one of those the code leaves to
   their time to live, which the property names. *)
THEOREM CleanupIsAlwaysComplete == SuiteSpec => []CleanupIsComplete
<1>1. GatewayInv => CleanupIsComplete
  <2> SUFFICES ASSUME FeedInv, FeedBounds, NEW r \in Tasks, fReq[r].st = "over"
               PROVE  LET q == fReq[r] IN
                      /\ q.lines = 0
                      /\ q.cut > 0 => MayCut(q, q.end)
                      /\ q.expired > 0 => Feed!Shielded(q)
                      /\ Feed!Live(q) > 0 => Feed!CareOf(q) = "late" /\ q.end = "cancelled"
    BY DEF GatewayInv, CleanupIsComplete, Feed!CleanupIsComplete, MayCut, Feed!Shielded
  <2>1. Fits(fReq[r]) /\ Lost(fReq[r])  BY DEF FeedInv, FeedBounds
  <2>2. QED  BY <2>1 DEF Fits, Lost, Feed!CareOf, Feed!Live
<1>2. QED  BY <1>1, GatewayInvariant, PTL

(* What each guard has recorded itself is within the three limits, and whatever
   is sent, and sent again, one of them recorded for that call before. *)
RecordedWithinLimits ==
    part = "pool" =>
        /\ \A g \in Pool!Both : WithinLimits(hTable[g], hNow)
        /\ \A e \in hSent :
              \E g \in Pool!Both : \E r \in hTable[g] : r.call = e.call /\ r.at <= e.at

(* Each guard keeps to its limits through any failures of Redis, retries and
   cancellations of calls that have their slot.  What goes beyond them at IBKR
   is then what the two guards do not tell each other, what the message limiter
   holds back and lets go later, and what with_retry sends again without asking
   them. *)
THEOREM GuardsKeepTheirLimits == SuiteSpec => []RecordedWithinLimits
<1>1. GatewayInv => RecordedWithinLimits
  BY DEF GatewayInv, TablesInv, TablesWithin, SendsAreRecorded, RecordedWithinLimits
<1>2. QED  BY <1>1, GatewayInvariant, PTL
=============================================================================
