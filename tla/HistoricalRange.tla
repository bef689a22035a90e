--------------------------- MODULE HistoricalRange ---------------------------
(***************************************************************************)
(* The paginated load of historical bars (src/feeds/ibkr_historical.py):   *)
(* a range, or a duration too long for one IBKR request, is fetched in     *)
(* chunks from its end backwards.  A bar is its timestamp; a chunk is as   *)
(* long as IBKR allows for the bar size.                                   *)
(*                                                                         *)
(* IBKR answers with the bars that exist in the span it was asked for.  A  *)
(* duration string is rounded up to days, months or years and counts       *)
(* trading days, so a reply may begin before the chunk does.               *)
(***************************************************************************)
EXTENDS Naturals, FiniteSetsExt

CONSTANTS
    LastTime,       \* timestamps are 0..LastTime
    Chunk,          \* _IBKR_MAX_DURATION_BY_BAR_SIZE, in bars
    MaxChunks,      \* IBKR_HISTORICAL_MAX_CHUNKS
    Slack           \* how much longer than the chunk a duration may be

RangeAssumption ==
    /\ {LastTime, Chunk, MaxChunks} \subseteq Nat \ {0}
    /\ Slack \in Nat

VARIABLES
    request,        \* what the caller asks for
    traded,         \* the bars that exist
    phase,          \* "asked", "paging", "direct", "done" or "rejected"
    chunkEnd, chunks, allBars

vars == <<request, traded, phase, chunkEnd, chunks, allBars>>

Time == 0..LastTime
Ranges == [start : Time, end : Time, paged : BOOLEAN]

TypeOK ==
    /\ request \in Ranges /\ traded \subseteq Time
    /\ phase \in {"asked", "paging", "direct", "done", "rejected"}
    /\ chunkEnd \in Time /\ chunks \in 0..MaxChunks
    /\ allBars \subseteq Time

(* paged: start_datetime is given; otherwise the duration is end - start. *)
Init ==
    /\ request \in {w \in Ranges : w.start <= w.end}
    /\ traded \in SUBSET Time
    /\ phase = "asked" /\ chunkEnd = request.end
    /\ chunks = 0 /\ allBars = {}

-----------------------------------------------------------------------------

Total == request.end - request.start
CeilDiv(a, b) == (a + b - 1) \div b
EstimatedChunks == Max({1, CeilDiv(Total, Chunk)})

(* What IBKR returns for a span: everything from lo, or a little earlier. *)
Replies(lo, hi) ==
    {{t \in traded : lo <= t + early /\ t < hi} : early \in 0..Slack}

NeedsChunks == request.paged \/ Total > Chunk
TooLarge == NeedsChunks /\ Total > 0 /\ EstimatedChunks > MaxChunks

Reject ==
    /\ phase = "asked" /\ TooLarge
    /\ phase' = "rejected"
    /\ UNCHANGED <<request, traded, chunkEnd, chunks, allBars>>

EmptyRange ==
    /\ phase = "asked" /\ request.paged /\ Total = 0
    /\ phase' = "done"
    /\ UNCHANGED <<request, traded, chunkEnd, chunks, allBars>>

Plan ==
    /\ phase = "asked" /\ ~TooLarge /\ (request.paged => Total > 0)
    /\ phase' = IF NeedsChunks THEN "paging" ELSE "direct"
    /\ UNCHANGED <<request, traded, chunkEnd, chunks, allBars>>

LoadOnce ==
    /\ phase = "direct"
    /\ allBars' \in Replies(request.start, request.end)
    /\ phase' = "done"
    /\ UNCHANGED <<request, traded, chunkEnd, chunks>>

ChunkStart == IF chunkEnd - request.start > Chunk THEN chunkEnd - Chunk
              ELSE request.start
PagesLeft == chunkEnd > request.start /\ chunks < MaxChunks

(* Mutant: an empty chunk is taken for a closed market and the next skipped. *)
ChunkEndSkips(bars) ==
    IF bars # {} THEN Min(bars)
    ELSE IF ChunkStart > Chunk THEN ChunkStart - Chunk ELSE 0
NextChunkEnd(bars) == IF bars = {} THEN ChunkStart ELSE Min(bars)

LoadChunk ==
    /\ phase = "paging" /\ PagesLeft
    /\ \E reply \in Replies(ChunkStart, chunkEnd) :
          LET bars == {t \in reply : t >= request.start} IN
          /\ allBars' = bars \cup allBars
          /\ chunks' = chunks + 1
          /\ IF bars # {} /\ Min(bars) <= ChunkStart
             THEN phase' = "done" /\ UNCHANGED chunkEnd
             ELSE chunkEnd' = NextChunkEnd(bars) /\ UNCHANGED phase
    /\ UNCHANGED <<request, traded>>

LastChunk ==
    /\ phase = "paging" /\ ~PagesLeft
    /\ phase' = "done"
    /\ UNCHANGED <<request, traded, chunkEnd, chunks, allBars>>

Next ==
    \/ Reject \/ EmptyRange \/ Plan \/ LoadOnce
    \/ LoadChunk \/ LastChunk

Spec == Init /\ [][Next]_vars

-----------------------------------------------------------------------------

Wanted == {t \in traded : request.start <= t /\ t < request.end}

(* However the chunks fall on sessions, nights and holidays, and however far
   back a reply reaches, what has been loaded has no hole: from the earliest
   bar loaded to the end of the range every bar that exists is there. *)
HistoryHasNoHoles ==
    \A t \in Wanted : (\E bar \in allBars : bar <= t) => t \in allBars

(* "Paginated historical OHLCV fetch across a date range." (the docstring of
   load_historical_ohlcv_range): a load that was not rejected and did not use
   up its chunks returns every bar of the range that exists. *)
RangeIsComplete ==
    phase = "done" => chunks = MaxChunks \/ Wanted \subseteq allBars
=============================================================================
