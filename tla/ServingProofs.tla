---------------------------- MODULE ServingProofs ----------------------------
(***************************************************************************)
(* Proofs about what serves the clients: the streams, the state the MCP    *)
(* sessions share, and the order operations.  They hold for any streams,   *)
(* queue length and limits on updates, any MCP sessions and tools, and any *)
(* calls of any operations with any number of legs.  At the end the types  *)
(* of all of them, with the counts that bound each other.                  *)
(***************************************************************************)
EXTENDS MCServing, RestRequestsProofs, FiniteSetTheorems, TLAPS

-----------------------------------------------------------------------------
\* StreamingTickers.

StreamRecord ==
    [pc : {"none", "made", "subscribe", "test", "get", "close", "unsubscribe",
           "pop", "over", "dropped"},
     own : Nat, line : {"none", "held", "cleanup"}, queue : Seq({"update", "end"}),
     producer : BOOLEAN, watcher : BOOLEAN, stop : BOOLEAN, old : BOOLEAN,
     sent : Nat, late : Nat]

\* What a stream holds by where its generator is, and what it sends after it
\* was stopped: one more update, if it already waits for it.
StreamFits(q) ==
    /\ q \in StreamRecord
    /\ q.pc \notin {"test", "get", "close"} => ~q.producer /\ ~q.watcher
    /\ q.pc \in {"none", "made", "subscribe"} => q.line = "none"
    /\ q.pc \in {"pop", "over"} => q.line # "held"
    /\ ~q.stop => q.late = 0
    /\ q.late <= 1
    /\ q.late = 1 => q.pc \notin {"none", "made", "subscribe", "get"}

StreamsInv ==
    /\ tSession \in Nat
    /\ tSubscriptions \subseteq Streams /\ IsFiniteSet(tSubscriptions)
    /\ tActive = Cardinality(tSubscriptions)
    /\ tStream \in [Streams -> StreamRecord]
    /\ \A s \in Streams : StreamFits(tStream[s])
    /\ \A s \in Streams : tStream[s].pc \in {"none", "over"} => s \notin tSubscriptions

LEMMA StreamsStart == Ticker!Init => StreamsInv
<1> SUFFICES ASSUME Ticker!Init PROVE StreamsInv  OBVIOUS
<1> USE DEF Ticker!Init
<1>1. Ticker!NoStream \in StreamRecord BY DEF Ticker!NoStream, StreamRecord
<1>2. StreamFits(Ticker!NoStream) BY <1>1 DEF StreamFits, Ticker!NoStream
<1>3. IsFiniteSet(tSubscriptions) /\ Cardinality(tSubscriptions) = 0 BY FS_EmptySet
<1> QED BY <1>1, <1>2, <1>3 DEF StreamsInv

\* A step that changes one stream and not the registry.
LEMMA OneStreamMoves ==
    ASSUME StreamsInv, NEW s \in Streams, NEW q, Ticker!Becomes(s, q), StreamFits(q),
           UNCHANGED <<tSession, tSubscriptions, tActive>>,
           q.pc \in {"none", "over"} => s \notin tSubscriptions
    PROVE  StreamsInv'
<1>1. tStream' = [tStream EXCEPT ![s] = q] BY DEF Ticker!Becomes
<1>2. q \in StreamRecord BY DEF StreamFits
<1>3. tStream' \in [Streams -> StreamRecord] BY <1>1, <1>2 DEF StreamsInv
<1>4. \A x \in Streams : tStream'[x] = IF x = s THEN q ELSE tStream[x]
  BY <1>1 DEF StreamsInv
<1>5. \A x \in Streams : StreamFits(tStream'[x]) BY <1>4 DEF StreamsInv
<1>6. \A x \in Streams : tStream'[x].pc \in {"none", "over"} => x \notin tSubscriptions
  BY <1>4 DEF StreamsInv
<1> QED BY <1>3, <1>5, <1>6 DEF StreamsInv

\* The gauge follows a subscription that leaves.
LEMMA PopCounts ==
    ASSUME StreamsInv, NEW s \in Streams, Ticker!Pop(s)
    PROVE  /\ tSubscriptions' \subseteq Streams /\ IsFiniteSet(tSubscriptions')
           /\ tActive' = Cardinality(tSubscriptions')
           /\ tSubscriptions' = tSubscriptions \ {s}
<1>1. tSubscriptions' = tSubscriptions \ {s} BY DEF Ticker!Pop
<1>2. /\ IsFiniteSet(tSubscriptions \ {s}) /\ Cardinality(tSubscriptions) \in Nat
      /\ Cardinality(tSubscriptions \ {s}) =
            IF s \in tSubscriptions THEN Cardinality(tSubscriptions) - 1
                                    ELSE Cardinality(tSubscriptions)
  BY FS_RemoveElement, FS_CardinalityType DEF StreamsInv
<1> QED BY <1>1, <1>2 DEF StreamsInv, Ticker!Pop

LEMMA PopMoves ==
    ASSUME StreamsInv, NEW s \in Streams, NEW q, Ticker!Pop(s), Ticker!Becomes(s, q),
           StreamFits(q), UNCHANGED tSession
    PROVE  StreamsInv'
<1>1. tStream' = [tStream EXCEPT ![s] = q] BY DEF Ticker!Becomes
<1>2. q \in StreamRecord BY DEF StreamFits
<1>3. tStream' \in [Streams -> StreamRecord] BY <1>1, <1>2 DEF StreamsInv
<1>4. \A x \in Streams : tStream'[x] = IF x = s THEN q ELSE tStream[x]
  BY <1>1 DEF StreamsInv
<1>5. \A x \in Streams : StreamFits(tStream'[x]) BY <1>4 DEF StreamsInv
<1>6. \A x \in Streams : tStream'[x].pc \in {"none", "over"} => x \notin tSubscriptions'
  BY <1>4, PopCounts DEF StreamsInv
<1> QED BY <1>3, <1>5, <1>6, PopCounts DEF StreamsInv

LEMMA Queues ==
    ASSUME NEW queue \in Seq({"update", "end"}), NEW x \in {"update", "end"}
    PROVE  /\ Ticker!Put(queue, x) \in Seq({"update", "end"})
           /\ queue # <<>> => Tail(queue) \in Seq({"update", "end"})
<1>1. queue # <<>> => Tail(queue) \in Seq({"update", "end"}) OBVIOUS
<1>2. CASE Len(queue) = QueueSize
  <2>1. queue # <<>> BY <1>2, PartsAssumption DEF Ticker!StreamAssumption
  <2> QED BY <1>1, <1>2, <2>1 DEF Ticker!Put
<1>3. CASE Len(queue) # QueueSize BY <1>3 DEF Ticker!Put
<1> QED BY <1>1, <1>2, <1>3

\* One step of a generator or of its helpers.
LEMMA GeneratorMoves ==
    ASSUME StreamsInv, NEW s \in Streams, Ticker!Generator(s), ~Ticker!Pops(s)
    PROVE  StreamsInv'
<1> DEFINE q == tStream[s]
<1>1. StreamFits(q) /\ q \in StreamRecord BY DEF StreamsInv, StreamFits
<1>2. tSession \in Nat BY DEF StreamsInv
<1>3. q.queue \in Seq({"update", "end"}) BY <1>1 DEF StreamRecord
<1>4. UNCHANGED <<tSession, tSubscriptions, tActive>>
  BY DEF Ticker!Generator, Ticker!Begins, Ticker!Subscribed, Ticker!SubscribeFails,
     Ticker!Produces, Ticker!StopsOnSessionEnd, Ticker!Loops, Ticker!KeepsAlive,
     Ticker!Sends, Ticker!Closes, Ticker!Unsubscribes, Ticker!CleansUp,
     Ticker!Gateway, Ticker!Registry
<1>5. ASSUME NEW p \in StreamRecord, Ticker!Becomes(s, p), StreamFits(p),
             p.pc \notin {"none", "over"} \/ p.pc = q.pc
      PROVE  StreamsInv'
  BY <1>4, <1>5, OneStreamMoves DEF StreamsInv
<1> USE DEF Ticker!At
<1>6. CASE Ticker!Begins(s)
  <2>1. PICK p : p = [q EXCEPT !.pc = "subscribe"] OBVIOUS
  <2>2. p \in StreamRecord BY <1>1, <2>1 DEF StreamRecord
  <2>3. StreamFits(p) /\ p.pc = "subscribe"
    BY <1>1, <1>6, <2>1, <2>2 DEF StreamFits, StreamRecord, Ticker!Begins
  <2> QED BY <1>5, <1>6, <2>1, <2>2, <2>3 DEF Ticker!Begins
<1>7. CASE Ticker!Subscribed(s)
  <2>1. PICK p : p = [q EXCEPT !.pc = "test", !.own = tSession, !.line = "held",
                               !.producer = TRUE, !.watcher = TRUE] OBVIOUS
  <2>2. p \in StreamRecord BY <1>1, <1>2, <2>1 DEF StreamRecord
  <2>3. StreamFits(p) /\ p.pc = "test"
    BY <1>1, <1>7, <2>1, <2>2 DEF StreamFits, StreamRecord, Ticker!Subscribed
  <2> QED BY <1>5, <1>7, <2>1, <2>2, <2>3 DEF Ticker!Subscribed
<1>8. CASE Ticker!SubscribeFails(s)
  <2>1. PICK p : p = [q EXCEPT !.pc = "pop"] OBVIOUS
  <2>2. p \in StreamRecord BY <1>1, <2>1 DEF StreamRecord
  <2>3. StreamFits(p) /\ p.pc = "pop"
    BY <1>1, <1>8, <2>1, <2>2 DEF StreamFits, StreamRecord, Ticker!SubscribeFails
  <2> QED BY <1>5, <1>8, <2>1, <2>2, <2>3 DEF Ticker!SubscribeFails
<1>9. CASE Ticker!Produces(s)
  <2>1. CASE q.stop \/ Ticker!Ended(s)
    <3>1. PICK p : p = [q EXCEPT !.producer = FALSE] OBVIOUS
    <3>2. p \in StreamRecord BY <1>1, <3>1 DEF StreamRecord
    <3>3. StreamFits(p) /\ p.pc = q.pc BY <1>1, <3>1, <3>2 DEF StreamFits, StreamRecord
    <3> QED BY <1>5, <1>9, <2>1, <3>1, <3>2, <3>3 DEF Ticker!Produces
  <2>2. CASE ~(q.stop \/ Ticker!Ended(s))
    <3>1. PICK queue : queue = Ticker!Put(q.queue, "update") OBVIOUS
    <3>2. queue \in Seq({"update", "end"}) BY <1>3, <3>1, Queues
    <3>3. PICK p : p = [q EXCEPT !.queue = queue] OBVIOUS
    <3>4. p \in StreamRecord BY <1>1, <3>2, <3>3 DEF StreamRecord
    <3>5. StreamFits(p) /\ p.pc = q.pc BY <1>1, <3>3, <3>4 DEF StreamFits, StreamRecord
    <3>6. Ticker!Becomes(s, p) BY <1>9, <2>2, <3>1, <3>3 DEF Ticker!Produces
    <3> QED BY <1>5, <3>4, <3>5, <3>6
  <2> QED BY <2>1, <2>2
<1>10. CASE Ticker!StopsOnSessionEnd(s)
  <2>1. PICK queue : queue = Ticker!Put(q.queue, "end") OBVIOUS
  <2>2. queue \in Seq({"update", "end"}) BY <1>3, <2>1, Queues
  <2>3. PICK p : p = [q EXCEPT !.watcher = FALSE, !.stop = TRUE, !.queue = queue] OBVIOUS
  <2>4. p \in StreamRecord BY <1>1, <2>2, <2>3 DEF StreamRecord
  <2>5. StreamFits(p) /\ p.pc = q.pc BY <1>1, <2>3, <2>4 DEF StreamFits, StreamRecord
  <2>6. Ticker!Becomes(s, p) BY <1>10, <2>1, <2>3 DEF Ticker!StopsOnSessionEnd
  <2> QED BY <1>5, <2>4, <2>5, <2>6
<1>11. CASE Ticker!Loops(s)
  <2>1. PICK pc \in {"close", "get"} :
            (pc = "get" => ~q.stop) /\ Ticker!Becomes(s, [q EXCEPT !.pc = pc])
    BY <1>11 DEF Ticker!Loops
  <2>2. PICK p : p = [q EXCEPT !.pc = pc] OBVIOUS
  <2>3. p \in StreamRecord BY <1>1, <2>1, <2>2 DEF StreamRecord
  <2>4. StreamFits(p) /\ p.pc = pc
    BY <1>1, <1>11, <2>1, <2>2, <2>3 DEF StreamFits, StreamRecord, Ticker!Loops
  <2> QED BY <1>5, <2>1, <2>2, <2>3, <2>4
<1>12. CASE Ticker!KeepsAlive(s)
  <2>1. PICK p : p = [q EXCEPT !.pc = "test"] OBVIOUS
  <2>2. p \in StreamRecord BY <1>1, <2>1 DEF StreamRecord
  <2>3. StreamFits(p) /\ p.pc = "test"
    BY <1>1, <1>12, <2>1, <2>2 DEF StreamFits, StreamRecord, Ticker!KeepsAlive
  <2> QED BY <1>5, <1>12, <2>1, <2>2, <2>3 DEF Ticker!KeepsAlive
<1>13. CASE Ticker!Sends(s)
  <2>1. PICK queue : queue = Tail(q.queue) OBVIOUS
  <2>2. queue \in Seq({"update", "end"})
    BY <1>3, <1>13, <2>1, Queues DEF Ticker!Sends
  <2>3. PICK w : w = [q EXCEPT !.queue = queue] OBVIOUS
  <2>4. w \in StreamRecord BY <1>1, <2>2, <2>3 DEF StreamRecord
  <2>5. StreamFits(w) /\ w.pc = "get" /\ q.pc = "get"
    BY <1>1, <1>13, <2>3, <2>4 DEF StreamFits, StreamRecord, Ticker!Sends
  <2>6. \/ Ticker!Becomes(s, [w EXCEPT !.pc = "close"])
        \/ Ticker!Becomes(s, [w EXCEPT !.pc = "test", !.sent = @ + 1,
                                       !.late = IF w.stop THEN @ + 1 ELSE @])
    BY <1>13, <2>1, <2>3 DEF Ticker!Sends
  <2>7. CASE Ticker!Becomes(s, [w EXCEPT !.pc = "close"])
    <3>1. PICK p : p = [w EXCEPT !.pc = "close"] OBVIOUS
    <3>2. p \in StreamRecord BY <2>4, <3>1 DEF StreamRecord
    <3>3. StreamFits(p) /\ p.pc = "close"
      BY <2>4, <2>5, <3>1, <3>2 DEF StreamFits, StreamRecord
    <3> QED BY <1>5, <2>7, <3>1, <3>2, <3>3
  <2>8. CASE Ticker!Becomes(s, [w EXCEPT !.pc = "test", !.sent = @ + 1,
                                         !.late = IF w.stop THEN @ + 1 ELSE @])
    <3>1. w.late = 0 /\ w.sent + 1 \in Nat BY <2>4, <2>5 DEF StreamFits, StreamRecord
    <3>2. PICK late : late = IF w.stop THEN 1 ELSE 0 OBVIOUS
    <3>3. PICK p : p = [w EXCEPT !.pc = "test", !.sent = w.sent + 1, !.late = late]
      OBVIOUS
    <3>4. p \in StreamRecord BY <2>4, <3>1, <3>2, <3>3 DEF StreamRecord
    <3>5. StreamFits(p) /\ p.pc = "test"
      BY <2>4, <2>5, <3>2, <3>3, <3>4 DEF StreamFits, StreamRecord
    <3>6. p = [w EXCEPT !.pc = "test", !.sent = @ + 1, !.late = IF w.stop THEN @ + 1 ELSE @]
      BY <2>4, <3>1, <3>2, <3>3 DEF StreamRecord
    <3> QED BY <1>5, <2>8, <3>4, <3>5, <3>6
  <2> QED BY <2>6, <2>7, <2>8
<1>14. CASE Ticker!Closes(s)
  <2>1. PICK p : p = [q EXCEPT !.pc = "unsubscribe", !.producer = FALSE,
                               !.watcher = FALSE] OBVIOUS
  <2>2. p \in StreamRecord BY <1>1, <2>1 DEF StreamRecord
  <2>3. StreamFits(p) /\ p.pc = "unsubscribe"
    BY <1>1, <1>14, <2>1, <2>2 DEF StreamFits, StreamRecord, Ticker!Closes
  <2> QED BY <1>5, <1>14, <2>1, <2>2, <2>3 DEF Ticker!Closes
<1>15. CASE Ticker!Unsubscribes(s)
  <2>1. PICK line \in {"none", "cleanup"} :
            Ticker!Becomes(s, [q EXCEPT !.pc = "pop", !.line = line])
    <3>1. q.line \in {"none", "held", "cleanup"} BY <1>1 DEF StreamRecord
    <3> QED BY <1>15, <3>1 DEF Ticker!Unsubscribes
  <2>2. PICK p : p = [q EXCEPT !.pc = "pop", !.line = line] OBVIOUS
  <2>3. p \in StreamRecord BY <1>1, <2>1, <2>2 DEF StreamRecord
  <2>4. StreamFits(p) /\ p.pc = "pop"
    BY <1>1, <1>15, <2>1, <2>2, <2>3 DEF StreamFits, StreamRecord, Ticker!Unsubscribes
  <2> QED BY <1>5, <2>1, <2>2, <2>3, <2>4
<1>16. CASE Ticker!CleansUp(s)
  <2>1. PICK p : p = [q EXCEPT !.line = "none"] OBVIOUS
  <2>2. p \in StreamRecord BY <1>1, <2>1 DEF StreamRecord
  <2>3. StreamFits(p) /\ p.pc = q.pc BY <1>1, <2>1, <2>2 DEF StreamFits, StreamRecord
  <2> QED BY <1>5, <1>16, <2>1, <2>2, <2>3 DEF Ticker!CleansUp
<1> QED
  BY <1>6, <1>7, <1>8, <1>9, <1>10, <1>11, <1>12, <1>13, <1>14, <1>15, <1>16
  DEF Ticker!Generator

\* POST /ticker, the client, DELETE, the clock.
LEMMA RequestMoves ==
    ASSUME StreamsInv, NEW s \in Streams,
           \/ Ticker!StreamTicker(s) \/ Ticker!Pops(s) \/ Ticker!ClientGone(s)
           \/ Ticker!StopSubscription(s) \/ Ticker!GrowsOld(s)
    PROVE  StreamsInv'
<1> DEFINE q == tStream[s]
<1>1. StreamFits(q) /\ q \in StreamRecord BY DEF StreamsInv, StreamFits
<1> USE DEF Ticker!At, Ticker!Gateway, Ticker!Registry
<1>2. CASE Ticker!StreamTicker(s)
  <2>1. PICK p : p = [q EXCEPT !.pc = "made"] OBVIOUS
  <2>2. p \in StreamRecord BY <1>1, <2>1 DEF StreamRecord
  <2>3. StreamFits(p) /\ p.pc = "made"
    BY <1>1, <1>2, <2>1, <2>2 DEF StreamFits, StreamRecord, Ticker!StreamTicker
  <2>4. tStream' = [tStream EXCEPT ![s] = p] /\ tSession' = tSession
    BY <1>2, <2>1 DEF Ticker!StreamTicker, Ticker!Becomes
  <2>5. s \notin tSubscriptions BY <1>2 DEF Ticker!StreamTicker, StreamsInv
  <2>6. /\ tSubscriptions' = tSubscriptions \cup {s} /\ tActive' = tActive + 1
    BY <1>2 DEF Ticker!StreamTicker
  <2>7. IsFiniteSet(tSubscriptions') /\ tActive' = Cardinality(tSubscriptions')
    BY <2>5, <2>6, FS_AddElement DEF StreamsInv
  <2>8. \A x \in Streams : tStream'[x] = IF x = s THEN p ELSE tStream[x]
    BY <2>4 DEF StreamsInv
  <2>9. tStream' \in [Streams -> StreamRecord] BY <2>2, <2>4 DEF StreamsInv
  <2>10. \A x \in Streams : StreamFits(tStream'[x]) BY <2>3, <2>8 DEF StreamsInv
  <2>11. \A x \in Streams : tStream'[x].pc \in {"none", "over"} => x \notin tSubscriptions'
    BY <2>3, <2>6, <2>8 DEF StreamsInv
  <2> QED BY <2>4, <2>6, <2>7, <2>9, <2>10, <2>11 DEF StreamsInv
<1>3. CASE Ticker!Pops(s)
  <2>1. PICK p : p = [q EXCEPT !.pc = "over"] OBVIOUS
  <2>2. p \in StreamRecord BY <1>1, <2>1 DEF StreamRecord
  <2>3. StreamFits(p)
    BY <1>1, <1>3, <2>1, <2>2 DEF StreamFits, StreamRecord, Ticker!Pops
  <2> QED BY <1>3, <2>1, <2>3, PopMoves DEF Ticker!Pops
<1>4. CASE Ticker!ClientGone(s)
  <2>1. PICK pc \in {"dropped", "pop", "close"} :
            /\ pc = "dropped" => q.pc = "made"
            /\ pc = "pop" => q.pc = "subscribe"
            /\ pc = "close" => q.pc \in {"test", "get"}
            /\ Ticker!Becomes(s, [q EXCEPT !.pc = pc])
    BY <1>4 DEF Ticker!ClientGone
  <2>2. PICK p : p = [q EXCEPT !.pc = pc] OBVIOUS
  <2>3. p \in StreamRecord BY <1>1, <2>1, <2>2 DEF StreamRecord
  <2>4. StreamFits(p) /\ p.pc = pc
    BY <1>1, <2>1, <2>2, <2>3 DEF StreamFits, StreamRecord
  <2> QED BY <1>4, <2>1, <2>2, <2>4, OneStreamMoves DEF Ticker!ClientGone
<1>5. CASE Ticker!StopSubscription(s)
  <2>1. PICK p : p = [q EXCEPT !.stop = TRUE] OBVIOUS
  <2>2. p \in StreamRecord BY <1>1, <2>1 DEF StreamRecord
  <2>3. StreamFits(p) BY <1>1, <2>1, <2>2 DEF StreamFits, StreamRecord
  <2> QED BY <1>5, <2>1, <2>3, PopMoves DEF Ticker!StopSubscription
<1>6. CASE Ticker!GrowsOld(s)
  <2>1. PICK p : p = [q EXCEPT !.old = TRUE] OBVIOUS
  <2>2. p \in StreamRecord BY <1>1, <2>1 DEF StreamRecord
  <2>3. StreamFits(p) /\ p.pc = q.pc BY <1>1, <2>1, <2>2 DEF StreamFits, StreamRecord
  <2>4. p.pc \in {"none", "over"} => s \notin tSubscriptions BY <2>3 DEF StreamsInv
  <2> QED BY <1>6, <2>1, <2>3, <2>4, OneStreamMoves DEF Ticker!GrowsOld
<1> QED BY <1>2, <1>3, <1>4, <1>5, <1>6

LEMMA ExpiryMoves == ASSUME StreamsInv, Ticker!RemoveExpired PROVE StreamsInv'
<1> DEFINE expired == {s \in tSubscriptions : tStream[s].old}
<1> HIDE DEF expired
<1>1. expired \subseteq tSubscriptions BY DEF expired
<1>2. /\ tSubscriptions' = tSubscriptions \ expired /\ tSession' = tSession
      /\ tActive' = tActive - Ticker!Cardinality(expired)
      /\ tStream' = [s \in Streams |-> IF s \in expired THEN [tStream[s] EXCEPT !.stop = TRUE]
                                                        ELSE tStream[s]]
  BY DEF Ticker!RemoveExpired, expired, Ticker!Gateway
<1>3. Ticker!Cardinality(expired) = Cardinality(expired)
  BY DEF Ticker!Cardinality, Cardinality
<1>4. IsFiniteSet(tSubscriptions) BY DEF StreamsInv
<1>5. IsFiniteSet(expired) /\ IsFiniteSet(tSubscriptions \ expired)
  BY <1>1, <1>4, FS_Subset
<1>6. tSubscriptions \cap expired = expired BY <1>1
<1>7. Cardinality(tSubscriptions \ expired) = Cardinality(tSubscriptions) - Cardinality(expired)
  BY <1>4, <1>6, FS_Difference
<1>8. \A s \in Streams : /\ tStream'[s] \in StreamRecord /\ StreamFits(tStream'[s])
                         /\ tStream'[s].pc = tStream[s].pc
  <2> SUFFICES ASSUME NEW s \in Streams
               PROVE  /\ tStream'[s] \in StreamRecord /\ StreamFits(tStream'[s])
                      /\ tStream'[s].pc = tStream[s].pc
    OBVIOUS
  <2>1. StreamFits(tStream[s]) /\ tStream[s] \in StreamRecord BY DEF StreamsInv, StreamFits
  <2>2. PICK p : p = [tStream[s] EXCEPT !.stop = TRUE] OBVIOUS
  <2>3. p \in StreamRecord BY <2>1, <2>2 DEF StreamRecord
  <2>4. StreamFits(p) /\ p.pc = tStream[s].pc
    BY <2>1, <2>2, <2>3 DEF StreamFits, StreamRecord
  <2> QED BY <1>2, <2>1, <2>2, <2>3, <2>4
<1>9. tStream' \in [Streams -> StreamRecord]
  <2>1. tStream' = [s \in Streams |-> tStream'[s]] BY <1>2
  <2> QED BY <1>8, <2>1
<1> QED BY <1>2, <1>3, <1>5, <1>7, <1>8, <1>9 DEF StreamsInv

LEMMA SessionMoves ==
    ASSUME StreamsInv, Ticker!SessionEnds \/ Ticker!SessionBegins PROVE StreamsInv'
<1> USE DEF Ticker!Registry
<1>1. CASE Ticker!SessionEnds
  <2>1. /\ tStream' = [s \in Streams |-> [tStream[s] EXCEPT !.line = "none"]]
        /\ UNCHANGED <<tSession, tSubscriptions, tActive>>
    BY <1>1 DEF Ticker!SessionEnds
  <2>2. \A s \in Streams : /\ tStream'[s] \in StreamRecord /\ StreamFits(tStream'[s])
                           /\ tStream'[s].pc = tStream[s].pc
    <3> SUFFICES ASSUME NEW s \in Streams
                 PROVE  /\ tStream'[s] \in StreamRecord /\ StreamFits(tStream'[s])
                        /\ tStream'[s].pc = tStream[s].pc
      OBVIOUS
    <3>1. StreamFits(tStream[s]) /\ tStream[s] \in StreamRecord BY DEF StreamsInv, StreamFits
    <3>2. PICK p : p = [tStream[s] EXCEPT !.line = "none"] OBVIOUS
    <3>3. p \in StreamRecord BY <3>1, <3>2 DEF StreamRecord
    <3>4. StreamFits(p) /\ p.pc = tStream[s].pc
      BY <3>1, <3>2, <3>3 DEF StreamFits, StreamRecord
    <3> QED BY <2>1, <3>2, <3>3, <3>4
  <2>3. tStream' \in [Streams -> StreamRecord]
    <3>1. tStream' = [s \in Streams |-> tStream'[s]] BY <2>1
    <3> QED BY <2>2, <3>1
  <2> QED BY <2>1, <2>2, <2>3 DEF StreamsInv
<1>2. CASE Ticker!SessionBegins
  BY <1>2 DEF Ticker!SessionBegins, StreamsInv
<1> QED BY <1>1, <1>2

LEMMA StreamsStep ==
    StreamsInv /\ [SuiteNext]_<<part, vars, orderVars, streamVars, mcpVars>> => StreamsInv'
<1> SUFFICES ASSUME StreamsInv, [SuiteNext]_<<part, vars, orderVars, streamVars, mcpVars>>
             PROVE  StreamsInv'
  OBVIOUS
<1>1. CASE Ticker!Next
  BY <1>1, GeneratorMoves, RequestMoves, ExpiryMoves, SessionMoves DEF Ticker!Next
<1>2. CASE UNCHANGED streamVars BY <1>2 DEF streamVars, StreamsInv
<1> QED
  BY <1>1, <1>2
  DEF SuiteNext, RoutesSuite, GuardedSuite, OrdersSuite, StreamsSuite, McpSuite

(* However a stream ends and in whatever order its client, DELETE, the age
   limit and the end of its session come: it leaves nothing behind, the gauge
   counts the registry, and after it was stopped it sends at most one update
   more, for any streams, queue and limits (event_generator). *)
THEOREM StreamsAlwaysEnd == SuiteSpec => []StreamsEnd
<1>1. SuiteSpec => []StreamsInv
  <2>1. SuiteInit => StreamsInv BY StreamsStart DEF SuiteInit
  <2> QED BY <2>1, StreamsStep, PTL DEF SuiteSpec
<1>2. StreamsInv => StreamsEnd
  <2> SUFFICES ASSUME StreamsInv PROVE Ticker!StreamsCleanUp /\ Ticker!StopIsPrompt
    BY DEF StreamsEnd
  <2>1. tActive = Ticker!Cardinality(tSubscriptions)
    BY DEF StreamsInv, Ticker!Cardinality, Cardinality
  <2> QED
    BY <2>1 DEF StreamsInv, StreamFits, Ticker!StreamsCleanUp, Ticker!StopIsPrompt, Ticker!At
<1> QED BY <1>1, <1>2, PTL

-----------------------------------------------------------------------------
\* McpServer.

McpSession ==
    [pc : {"out", "build", "wait", "reuse", "in", "close", "over", "failed"},
     st : Server!States \cup {0}, tool : DOMAIN Server!Tool \cup {"none"}, at : Nat,
     placed : Nat]

McpState ==
    [life : {"none", "building", "open", "closing", "closed", "leaked"},
     redis : BOOLEAN, refs : Nat, closing : BOOLEAN,
     task : {"none", "sleep", "cancelling", "close", "again", "done", "cancelled"},
     reuse : BOOLEAN]

Holding(st) == {x \in Clients : mSess[x].pc \in {"reuse", "in"} /\ mSess[x].st = st}

McpTyped ==
    /\ mCurrent \in Server!States \cup {0}
    /\ mState \in [Server!States -> McpState]
    /\ mSess \in [Clients -> McpSession]

\* What a session has to do with a state.
SessionsFit ==
    \A s \in Clients :
        LET q == mSess[s] IN
        /\ q.pc \in {"build", "wait", "reuse", "in", "close"} => q.st \in Server!States
        /\ q.pc \in {"reuse", "in"} => q.st = mCurrent /\ ~mState[mCurrent].closing
        /\ q.pc = "build" => mCurrent = 0 /\ mState[q.st].life = "building"
        /\ q.pc = "close" => q.st # mCurrent /\ mState[q.st].life \in {"closing", "closed"}

OneBuilder == \A s, x \in Clients : mSess[s].pc = "build" /\ mSess[x].pc = "build" => s = x

\* The current state is open until it closes, and counts its sessions; one
\* that is not built yet has no task.
StatesFit ==
    /\ mCurrent # 0 =>
          /\ mState[mCurrent].life = IF mState[mCurrent].closing THEN "closing" ELSE "open"
          /\ IsFiniteSet(Holding(mCurrent))
          /\ mState[mCurrent].refs = Cardinality(Holding(mCurrent))
    /\ \A st \in Server!States :
          /\ mState[st].life \in {"none", "building"} =>
                mState[st].task = "none" /\ ~mState[st].closing
          /\ mState[st].task \in {"close", "again"} => mState[st].closing

\* Who uses the client id.
Connects(st) == mState[st].life \in {"building", "open", "closing"}
OneConnects ==
    mDelayed => \A st \in Server!States : Connects(st) =>
        st = mCurrent \/ \E s \in Clients : mSess[s].pc = "build" /\ mSess[s].st = st

McpInv == McpTyped /\ SessionsFit /\ OneBuilder /\ StatesFit /\ OneConnects

LEMMA McpNumbers == 0 \notin Server!States /\ Server!NoState = 0 /\ Server!NoTool = "none"
BY PartsAssumption DEF Server!McpAssumption, Server!States, Server!NoState, Server!NoTool

LEMMA McpStarts == Server!Init => McpInv
<1> SUFFICES ASSUME Server!Init PROVE McpInv  OBVIOUS
<1> USE McpNumbers DEF Server!Init
<1>1. McpTyped BY DEF McpTyped, McpSession, McpState
<1>2. SessionsFit /\ OneBuilder BY DEF SessionsFit, OneBuilder
<1>3. StatesFit BY DEF StatesFit
<1>4. OneConnects BY DEF OneConnects, Connects
<1> QED BY <1>1, <1>2, <1>3, <1>4 DEF McpInv

LEMMA SessionTurns ==
    ASSUME McpTyped, NEW s \in Clients, NEW q \in McpSession, Server!Becomes(s, q)
    PROVE  /\ mSess' \in [Clients -> McpSession]
           /\ \A x \in Clients : mSess'[x] = IF x = s THEN q ELSE mSess[x]
BY DEF McpTyped, Server!Becomes

LEMMA StateTurns ==
    ASSUME McpTyped, NEW st \in Server!States, NEW q \in McpState, Server!Turns(st, q)
    PROVE  /\ mState' \in [Server!States -> McpState]
           /\ \A x \in Server!States : mState'[x] = IF x = st THEN q ELSE mState[x]
BY DEF McpTyped, Server!Turns

\* A step within a session leaves the states alone.
LEMMA SessionMovesOn ==
    ASSUME McpInv, NEW s \in Clients, NEW q \in McpSession, Server!Becomes(s, q),
           q.pc = mSess[s].pc \/ (mSess[s].pc = "reuse" /\ q.pc = "in"),
           q.st = mSess[s].st,
           UNCHANGED <<mDelayed, mCurrent, mState>>
    PROVE  McpInv'
<1> USE DEF McpInv
<1>1. /\ mSess' \in [Clients -> McpSession]
      /\ \A x \in Clients : mSess'[x] = IF x = s THEN q ELSE mSess[x]
  BY SessionTurns
<1>2. McpTyped' BY <1>1 DEF McpTyped
<1>3. SessionsFit' BY <1>1 DEF SessionsFit
<1>4. OneBuilder' BY <1>1 DEF OneBuilder
<1>5. Holding(mCurrent)' = Holding(mCurrent) BY <1>1 DEF Holding
<1>6. StatesFit' BY <1>5 DEF StatesFit
<1>7. OneConnects' BY <1>1 DEF OneConnects, Connects
<1> QED BY <1>2, <1>3, <1>4, <1>6, <1>7

\* A session that neither builds nor holds a state comes or goes.
LEMMA OutsiderMoves ==
    ASSUME McpInv, NEW s \in Clients, NEW q \in McpSession, Server!Becomes(s, q),
           mSess[s].pc \notin {"build", "reuse", "in"},
           q.pc \in {"out", "wait", "over", "failed"}, q.pc = "wait" => q.st \in Server!States,
           UNCHANGED <<mDelayed, mCurrent, mState>>
    PROVE  McpInv'
<1> USE DEF McpInv
<1>1. /\ mSess' \in [Clients -> McpSession]
      /\ \A x \in Clients : mSess'[x] = IF x = s THEN q ELSE mSess[x]
  BY SessionTurns
<1>2. McpTyped' BY <1>1 DEF McpTyped
<1>3. SessionsFit' BY <1>1 DEF SessionsFit
<1>4. OneBuilder' BY <1>1 DEF OneBuilder
<1>5. Holding(mCurrent)' = Holding(mCurrent) BY <1>1 DEF Holding
<1>6. StatesFit' BY <1>5 DEF StatesFit
<1>7. OneConnects' BY <1>1 DEF OneConnects, Connects
<1> QED BY <1>2, <1>3, <1>4, <1>6, <1>7

LEMMA BuildBegins ==
    ASSUME McpInv, NEW s \in Clients, Server!StartBuild(s), UNCHANGED mDelayed
    PROVE  McpInv'
<1> USE McpNumbers DEF McpInv
<1>1. mCurrent = 0 /\ mCurrent' = 0 /\ (\A x \in Clients : mSess[x].pc # "build")
  BY DEF Server!StartBuild, Server!Locked, Server!At
<1>2. PICK st \in Server!States :
          /\ mState[st].life = "none"
          /\ Server!Turns(st, [mState[st] EXCEPT !.life = "building"])
          /\ Server!Becomes(s, [mSess[s] EXCEPT !.pc = "build", !.st = st])
  BY DEF Server!StartBuild
<1>3. PICK r : r = [mState[st] EXCEPT !.life = "building"] OBVIOUS
<1>4. PICK q : q = [mSess[s] EXCEPT !.pc = "build", !.st = st] OBVIOUS
<1>5. mState[st] \in McpState /\ mSess[s] \in McpSession BY DEF McpTyped
<1>6. r \in McpState /\ q \in McpSession BY <1>3, <1>4, <1>5 DEF McpState, McpSession
<1>7. /\ r.life = "building" /\ r.task = mState[st].task /\ r.closing = mState[st].closing
      /\ q.pc = "build" /\ q.st = st
  BY <1>3, <1>4, <1>5 DEF McpState, McpSession
<1>8. /\ mState' \in [Server!States -> McpState]
      /\ \A x \in Server!States : mState'[x] = IF x = st THEN r ELSE mState[x]
  BY <1>2, <1>3, <1>6, StateTurns
<1>9. /\ mSess' \in [Clients -> McpSession]
      /\ \A x \in Clients : mSess'[x] = IF x = s THEN q ELSE mSess[x]
  BY <1>2, <1>4, <1>6, SessionTurns
<1>10. McpTyped' BY <1>1, <1>8, <1>9 DEF McpTyped
<1>11. \A x \in Clients : mSess[x].pc \notin {"build", "reuse", "in"}
  BY <1>1 DEF SessionsFit
<1>12. SessionsFit' BY <1>1, <1>2, <1>7, <1>8, <1>9, <1>11 DEF SessionsFit
<1>13. OneBuilder' BY <1>9, <1>11 DEF OneBuilder
<1>14. StatesFit' BY <1>1, <1>2, <1>7, <1>8 DEF StatesFit
<1>15. OneConnects' BY <1>1, <1>7, <1>8, <1>9, <1>11 DEF OneConnects, Connects
<1> QED BY <1>10, <1>12, <1>13, <1>14, <1>15

LEMMA BuildEnds ==
    ASSUME McpInv, NEW s \in Clients, Server!Built(s) \/ Server!BuildCancelled(s),
           UNCHANGED mDelayed
    PROVE  McpInv'
<1> USE McpNumbers DEF McpInv
<1> DEFINE st == mSess[s].st
<1>1. mSess[s].pc = "build" BY DEF Server!Built, Server!BuildCancelled, Server!At
<1>2. st \in Server!States /\ mCurrent = 0 /\ mState[st].life = "building"
  BY <1>1 DEF SessionsFit
<1>3. \A x \in Clients : mSess[x].pc \notin {"reuse", "in"} /\ (mSess[x].pc = "build" => x = s)
  BY <1>1, <1>2 DEF SessionsFit, OneBuilder
<1>4. mState[st] \in McpState /\ mSess[s] \in McpSession BY <1>2 DEF McpTyped
<1>5. mState[st].task = "none" /\ ~mState[st].closing BY <1>2 DEF StatesFit
<1>6. CASE Server!Built(s)
  <2>1. PICK redis \in BOOLEAN :
            Server!Turns(st, [mState[st] EXCEPT !.life = "open", !.redis = redis, !.refs = 1])
    BY <1>6 DEF Server!Built, Server!Mine
  <2>2. PICK r : r = [mState[st] EXCEPT !.life = "open", !.redis = redis, !.refs = 1]
    OBVIOUS
  <2>3. PICK q : q = [mSess[s] EXCEPT !.pc = "in"] OBVIOUS
  <2>4. r \in McpState /\ q \in McpSession
    BY <1>4, <2>2, <2>3 DEF McpState, McpSession
  <2>5. /\ r.life = "open" /\ r.task = "none" /\ ~r.closing /\ r.refs = 1
        /\ q.pc = "in" /\ q.st = st
    BY <1>4, <1>5, <2>2, <2>3 DEF McpState, McpSession
  <2>6. /\ mState' \in [Server!States -> McpState]
        /\ \A x \in Server!States : mState'[x] = IF x = st THEN r ELSE mState[x]
    BY <1>2, <2>1, <2>2, <2>4, StateTurns
  <2>7. /\ mSess' \in [Clients -> McpSession]
        /\ \A x \in Clients : mSess'[x] = IF x = s THEN q ELSE mSess[x]
    BY <1>6, <2>3, <2>4, SessionTurns DEF Server!Built
  <2>8. mCurrent' = st BY <1>6 DEF Server!Built
  <2>9. McpTyped' BY <1>2, <2>6, <2>7, <2>8 DEF McpTyped
  <2>10. \A x \in Clients : x # s /\ mSess[x].pc = "close" => mSess[x].st # st
    BY <1>2 DEF SessionsFit
  <2>11. SessionsFit' BY <1>2, <1>3, <2>5, <2>6, <2>7, <2>8, <2>10 DEF SessionsFit
  <2>12. OneBuilder' BY <1>3, <2>5, <2>7 DEF OneBuilder
  <2>13. Holding(mCurrent)' = {s} BY <1>3, <2>5, <2>7, <2>8 DEF Holding
  <2>14. IsFiniteSet({s}) /\ Cardinality({s}) = 1 BY FS_Singleton
  <2>15. StatesFit' BY <1>2, <2>5, <2>6, <2>8, <2>13, <2>14 DEF StatesFit
  <2>16. OneConnects' BY <1>2, <1>3, <2>6, <2>7, <2>8 DEF OneConnects, Connects
  <2> QED BY <2>9, <2>11, <2>12, <2>15, <2>16
<1>7. CASE Server!BuildCancelled(s)
  <2>1. PICK r : r = [mState[st] EXCEPT !.life = "leaked"] OBVIOUS
  <2>2. PICK q : q = [mSess[s] EXCEPT !.pc = "failed"] OBVIOUS
  <2>3. r \in McpState /\ q \in McpSession
    BY <1>4, <2>1, <2>2 DEF McpState, McpSession
  <2>4. r.life = "leaked" /\ r.task = "none" /\ q.pc = "failed"
    BY <1>4, <1>5, <2>1, <2>2 DEF McpState, McpSession
  <2>5. /\ mState' \in [Server!States -> McpState]
        /\ \A x \in Server!States : mState'[x] = IF x = st THEN r ELSE mState[x]
    BY <1>2, <1>7, <2>1, <2>3, StateTurns DEF Server!BuildCancelled, Server!Mine
  <2>6. /\ mSess' \in [Clients -> McpSession]
        /\ \A x \in Clients : mSess'[x] = IF x = s THEN q ELSE mSess[x]
    BY <1>7, <2>2, <2>3, SessionTurns DEF Server!BuildCancelled
  <2>7. mCurrent' = 0 BY <1>2, <1>7 DEF Server!BuildCancelled
  <2>8. McpTyped' BY <2>5, <2>6, <2>7 DEF McpTyped
  <2>9. \A x \in Clients : mSess[x].pc = "close" => mSess[x].st # st
    BY <1>2 DEF SessionsFit
  <2>10. SessionsFit' BY <1>2, <1>3, <2>4, <2>5, <2>6, <2>7, <2>9 DEF SessionsFit
  <2>11. OneBuilder' BY <1>3, <2>4, <2>6 DEF OneBuilder
  <2>12. StatesFit' BY <2>4, <2>5, <2>7 DEF StatesFit
  <2>13. OneConnects' BY <1>2, <1>3, <2>4, <2>5, <2>6, <2>7 DEF OneConnects, Connects
  <2> QED BY <2>8, <2>10, <2>11, <2>12, <2>13
<1> QED BY <1>6, <1>7

LEMMA StateTaken ==
    ASSUME McpInv, NEW s \in Clients, Server!Take(s), UNCHANGED mDelayed
    PROVE  McpInv'
<1> USE McpNumbers DEF McpInv
<1>1. /\ mSess[s].pc = "out" /\ mCurrent \in Server!States /\ mCurrent' = mCurrent
      /\ ~mState[mCurrent].closing /\ (\A x \in Clients : mSess[x].pc # "build")
  BY DEF Server!Take, Server!Locked, Server!At, McpTyped
<1>2. PICK idle \in BOOLEAN :
          /\ Server!Turns(mCurrent, [mState[mCurrent] EXCEPT
                !.refs = @ + 1, !.reuse = @ \/ idle,
                !.task = IF idle THEN "cancelling" ELSE @])
          /\ Server!Becomes(s, [mSess[s] EXCEPT !.pc = IF idle THEN "reuse" ELSE "in",
                                                !.st = mCurrent])
  BY DEF Server!Take
<1>3. PICK r : r = [mState[mCurrent] EXCEPT !.refs = @ + 1, !.reuse = @ \/ idle,
                                            !.task = IF idle THEN "cancelling" ELSE @]
  OBVIOUS
<1>4. PICK q : q = [mSess[s] EXCEPT !.pc = IF idle THEN "reuse" ELSE "in", !.st = mCurrent]
  OBVIOUS
<1>5. mState[mCurrent] \in McpState /\ mSess[s] \in McpSession BY <1>1 DEF McpTyped
<1>6. r \in McpState /\ q \in McpSession
  <2>1. mState[mCurrent].refs + 1 \in Nat BY <1>5 DEF McpState
  <2>2. PICK reuse \in BOOLEAN : reuse = (mState[mCurrent].reuse \/ idle) OBVIOUS
  <2>3. r = [mState[mCurrent] EXCEPT !.refs = mState[mCurrent].refs + 1, !.reuse = reuse,
                                     !.task = IF idle THEN "cancelling" ELSE @]
    BY <1>3, <1>5, <2>2 DEF McpState
  <2>4. r \in McpState BY <1>5, <2>1, <2>2, <2>3 DEF McpState
  <2> QED BY <1>1, <1>4, <1>5, <2>4 DEF McpSession
<1>7. /\ r.life = mState[mCurrent].life /\ r.task \in {mState[mCurrent].task, "cancelling"}
      /\ r.closing = mState[mCurrent].closing /\ r.refs = mState[mCurrent].refs + 1
      /\ q.pc \in {"reuse", "in"} /\ q.st = mCurrent
  BY <1>3, <1>4, <1>5 DEF McpState, McpSession
<1>8. /\ mState' \in [Server!States -> McpState]
      /\ \A x \in Server!States : mState'[x] = IF x = mCurrent THEN r ELSE mState[x]
  BY <1>1, <1>2, <1>3, <1>6, StateTurns
<1>9. /\ mSess' \in [Clients -> McpSession]
      /\ \A x \in Clients : mSess'[x] = IF x = s THEN q ELSE mSess[x]
  BY <1>2, <1>4, <1>6, SessionTurns
<1>10. McpTyped' BY <1>1, <1>8, <1>9 DEF McpTyped
<1>11. SessionsFit' BY <1>1, <1>7, <1>8, <1>9 DEF SessionsFit
<1>12. OneBuilder' BY <1>1, <1>7, <1>9 DEF OneBuilder
<1>13. Holding(mCurrent)' = Holding(mCurrent) \cup {s} /\ s \notin Holding(mCurrent)
  BY <1>1, <1>7, <1>9 DEF Holding
<1>14. /\ IsFiniteSet(Holding(mCurrent))
       /\ mState[mCurrent].refs = Cardinality(Holding(mCurrent))
  BY <1>1 DEF StatesFit
<1>15. /\ IsFiniteSet(Holding(mCurrent) \cup {s})
       /\ Cardinality(Holding(mCurrent) \cup {s}) = Cardinality(Holding(mCurrent)) + 1
  BY <1>13, <1>14, FS_AddElement
<1>16. StatesFit' BY <1>1, <1>7, <1>8, <1>13, <1>14, <1>15 DEF StatesFit
<1>17. OneConnects' BY <1>1, <1>7, <1>8, <1>9 DEF OneConnects, Connects
<1> QED BY <1>10, <1>11, <1>12, <1>16, <1>17

\* A step of one state alone: its task ends or is cancelled, or closes it.
LEMMA StateMoves ==
    ASSUME McpInv, NEW st \in Server!States, NEW r \in McpState, Server!Turns(st, r),
           UNCHANGED <<mDelayed, mSess>>,
           r.refs = mState[st].refs,
           mState[st].life \notin {"none", "building"}, r.life \notin {"none", "building"},
           r.task \in {"close", "again"} => r.closing,
           \/ r.life = mState[st].life /\ r.closing = mState[st].closing
           \/ /\ st = mCurrent /\ Holding(st) = {}
              /\ r.life = "closing" /\ r.closing /\ ~mState[st].closing
           \/ r.life = "closed" /\ mState[st].closing,
           mCurrent' = IF r.life = "closed" /\ mCurrent = st THEN 0 ELSE mCurrent
    PROVE  McpInv'
<1> USE McpNumbers DEF McpInv
<1>1. /\ mState' \in [Server!States -> McpState]
      /\ \A x \in Server!States : mState'[x] = IF x = st THEN r ELSE mState[x]
  BY StateTurns
<1>2. McpTyped' BY <1>1 DEF McpTyped
<1>3. SessionsFit'
  <2> SUFFICES ASSUME NEW s \in Clients
               PROVE  LET q == mSess[s] IN
                      /\ q.pc \in {"build", "wait", "reuse", "in", "close"} =>
                            q.st \in Server!States
                      /\ q.pc \in {"reuse", "in"} =>
                            q.st = mCurrent' /\ ~mState'[mCurrent'].closing
                      /\ q.pc = "build" => mCurrent' = 0 /\ mState'[q.st].life = "building"
                      /\ q.pc = "close" => q.st # mCurrent'
                                              /\ mState'[q.st].life \in {"closing", "closed"}
    BY DEF SessionsFit
  <2>1. CASE mSess[s].pc \in {"reuse", "in"}
    <3>1. /\ mSess[s].st = mCurrent /\ mCurrent \in Server!States
          /\ ~mState[mCurrent].closing /\ mState[mCurrent].life = "open"
      BY <2>1 DEF SessionsFit, StatesFit
    <3>2. Holding(mCurrent) # {} BY <2>1, <3>1 DEF Holding
    <3>3. mCurrent' = mCurrent /\ ~mState'[mCurrent].closing BY <1>1, <3>1, <3>2
    <3> QED BY <2>1, <3>1, <3>3
  <2>2. CASE mSess[s].pc = "build" BY <1>1, <2>2 DEF SessionsFit
  <2>3. CASE mSess[s].pc = "close" BY <1>1, <2>3 DEF SessionsFit
  <2>4. CASE mSess[s].pc \notin {"reuse", "in", "build", "close"} BY <2>4 DEF SessionsFit
  <2> QED BY <2>1, <2>2, <2>3, <2>4
<1>4. OneBuilder' BY DEF OneBuilder
<1>5. \A x : Holding(x)' = Holding(x) BY DEF Holding
<1>6. StatesFit'
  <2>1. \A x \in Server!States :
          /\ mState'[x].life \in {"none", "building"} =>
                mState'[x].task = "none" /\ ~mState'[x].closing
          /\ mState'[x].task \in {"close", "again"} => mState'[x].closing
    BY <1>1 DEF StatesFit
  <2>2. ASSUME mCurrent' # 0
        PROVE  /\ mState'[mCurrent'].life =
                    IF mState'[mCurrent'].closing THEN "closing" ELSE "open"
               /\ IsFiniteSet(Holding(mCurrent)')
               /\ mState'[mCurrent'].refs = Cardinality(Holding(mCurrent)')
    <3>1. mCurrent' = mCurrent /\ mCurrent \in Server!States BY <2>2 DEF McpTyped
    <3>2. /\ mState[mCurrent].life = IF mState[mCurrent].closing THEN "closing" ELSE "open"
          /\ IsFiniteSet(Holding(mCurrent))
          /\ mState[mCurrent].refs = Cardinality(Holding(mCurrent))
      BY <2>2, <3>1 DEF StatesFit
    <3>3. Holding(mCurrent)' = Holding(mCurrent) BY <3>1 DEF Holding
    <3>4. mState'[mCurrent].refs = mState[mCurrent].refs BY <1>1, <3>1
    <3>5. mState'[mCurrent].life = IF mState'[mCurrent].closing THEN "closing" ELSE "open"
      BY <1>1, <2>2, <3>1, <3>2
    <3> QED BY <3>1, <3>2, <3>3, <3>4, <3>5
  <2> QED BY <2>1, <2>2 DEF StatesFit
<1>7. OneConnects' BY <1>1 DEF OneConnects, Connects
<1> QED BY <1>2, <1>3, <1>4, <1>6, <1>7

LEMMA IdleTaskMoves ==
    ASSUME McpInv, NEW st \in Server!States, UNCHANGED mDelayed,
           Server!IdleCancelled(st) \/ Server!IdleElapsed(st) \/ Server!IdleCloses(st)
    PROVE  McpInv'
<1> USE McpNumbers DEF McpInv
<1>1. mState[st] \in McpState BY DEF McpTyped
<1>2. CASE Server!IdleCancelled(st)
  <2>0. PICK reuse \in {mState[st].reuse, FALSE} :
            Server!Turns(st, [mState[st] EXCEPT !.task = "cancelled", !.reuse = reuse])
    BY <1>2 DEF Server!IdleCancelled
  <2>1. PICK r : r = [mState[st] EXCEPT !.task = "cancelled", !.reuse = reuse] OBVIOUS
  <2>2. r \in McpState BY <1>1, <2>1 DEF McpState
  <2>3. /\ r.refs = mState[st].refs /\ r.life = mState[st].life /\ r.task = "cancelled"
        /\ r.closing = mState[st].closing /\ mState[st].task = "cancelling"
    BY <1>1, <1>2, <2>1 DEF McpState, Server!IdleCancelled
  <2>4. mState[st].life \notin {"none", "building"} BY <2>3 DEF StatesFit
  <2>5. /\ Server!Turns(st, r) /\ UNCHANGED <<mDelayed, mSess>> /\ mCurrent' = mCurrent
    BY <1>2, <2>0, <2>1 DEF Server!IdleCancelled
  <2>6. r.life # "closed" \/ mCurrent # st BY <2>3 DEF StatesFit
  <2> QED BY <2>2, <2>3, <2>4, <2>5, <2>6, StateMoves
<1>3. CASE Server!IdleElapsed(st)
  <2>1. mState[st].task = "sleep" /\ UNCHANGED <<mCurrent, mSess>>
    BY <1>3 DEF Server!IdleElapsed
  <2>2. mState[st].life \notin {"none", "building"} BY <2>1 DEF StatesFit
  <2>3. CASE mCurrent # st \/ mState[st].refs > 0
    <3>1. PICK r : r = [mState[st] EXCEPT !.task = "done"] OBVIOUS
    <3>2. r \in McpState BY <1>1, <3>1 DEF McpState
    <3>3. /\ r.refs = mState[st].refs /\ r.life = mState[st].life /\ r.task = "done"
          /\ r.closing = mState[st].closing
      BY <1>1, <3>1 DEF McpState
    <3>4. Server!Turns(st, r) BY <1>3, <2>3, <3>1 DEF Server!IdleElapsed
    <3>5. r.life # "closed" \/ mCurrent # st BY <3>3 DEF StatesFit
    <3> QED BY <2>1, <2>2, <3>2, <3>3, <3>4, <3>5, StateMoves
  <2>4. CASE ~(mCurrent # st \/ mState[st].refs > 0)
    <3>1. mState[st].refs = 0 /\ mCurrent = st BY <1>1, <2>4 DEF McpState
    <3>2. Holding(st) = {} BY <3>1, FS_EmptySet DEF StatesFit
    <3>3. PICK r : r = [mState[st] EXCEPT !.closing = TRUE, !.life = "closing",
                                          !.task = "close"] OBVIOUS
    <3>4. r \in McpState BY <1>1, <3>3 DEF McpState
    <3>5. /\ r.refs = mState[st].refs /\ r.life = "closing" /\ r.task = "close" /\ r.closing
      BY <1>1, <3>3 DEF McpState
    <3>6. Server!Turns(st, r) BY <1>3, <2>4, <3>3 DEF Server!IdleElapsed
    <3>7. CASE mState[st].closing
      <4>1. mState[st].life = "closing" BY <3>1, <3>7 DEF StatesFit
      <4> QED BY <2>1, <2>2, <3>4, <3>5, <3>6, <3>7, <4>1, StateMoves
    <3>8. CASE ~mState[st].closing
      BY <2>1, <2>2, <3>1, <3>2, <3>4, <3>5, <3>6, <3>8, StateMoves
    <3> QED BY <3>7, <3>8
  <2> QED BY <2>3, <2>4
<1>4. CASE Server!IdleCloses(st)
  <2>1. mState[st].task \in {"close", "again"} BY <1>4 DEF Server!IdleCloses
  <2>5. mState[st].closing /\ mState[st].life \notin {"none", "building"}
    BY <2>1 DEF StatesFit
  <2>6. UNCHANGED mSess BY <1>4 DEF Server!IdleCloses
  <2>7. CASE /\ Server!Turns(st, [mState[st] EXCEPT !.life = "closed",
                              !.task = IF @ = "close" THEN "done" ELSE "cancelled"])
             /\ mCurrent' = IF mCurrent = st THEN 0 ELSE mCurrent
    <3>1. PICK r : r = [mState[st] EXCEPT !.life = "closed",
                            !.task = IF @ = "close" THEN "done" ELSE "cancelled"] OBVIOUS
    <3>2. r \in McpState BY <1>1, <3>1 DEF McpState
    <3>3. /\ r.refs = mState[st].refs /\ r.life = "closed"
          /\ r.task \in {"done", "cancelled"}
      BY <1>1, <3>1 DEF McpState
    <3>4. Server!Turns(st, r) BY <2>7, <3>1
    <3> QED BY <2>5, <2>6, <2>7, <3>2, <3>3, <3>4, StateMoves
  <2>8. CASE /\ Server!Turns(st, [mState[st] EXCEPT !.task = "cancelled"])
             /\ UNCHANGED mCurrent
    <3>1. PICK r : r = [mState[st] EXCEPT !.task = "cancelled"] OBVIOUS
    <3>2. r \in McpState BY <1>1, <3>1 DEF McpState
    <3>3. /\ r.refs = mState[st].refs /\ r.life = mState[st].life /\ r.task = "cancelled"
          /\ r.closing = mState[st].closing
      BY <1>1, <3>1 DEF McpState
    <3>4. Server!Turns(st, r) BY <2>8, <3>1
    <3>5. r.life = "closed" => mCurrent # st BY <2>5, <3>3 DEF StatesFit
    <3> QED BY <2>5, <2>6, <2>8, <3>2, <3>3, <3>4, <3>5, StateMoves
  <2> QED BY <1>4, <2>7, <2>8 DEF Server!IdleCloses
<1> QED BY <1>2, <1>3, <1>4

LEMMA StateLeft ==
    ASSUME McpInv, NEW s \in Clients, Server!Leave(s), UNCHANGED mDelayed
    PROVE  McpInv'
<1> USE McpNumbers DEF McpInv
<1> DEFINE st == mCurrent
<1>1. mSess[s].pc = "in" /\ (\A x \in Clients : mSess[x].pc # "build")
  BY DEF Server!Leave, Server!Locked, Server!At
<1>2. /\ mSess[s].st = st /\ st \in Server!States /\ st # 0 /\ ~mState[st].closing
  BY <1>1 DEF SessionsFit
<1>3. /\ mState[st].life = "open" /\ IsFiniteSet(Holding(st))
      /\ mState[st].refs = Cardinality(Holding(st))
      /\ mState[st].task \notin {"close", "again"}
  BY <1>2 DEF StatesFit
<1>4. mState[st] \in McpState /\ mSess[s] \in McpSession BY <1>2 DEF McpTyped
<1>5. s \in Holding(st) BY <1>1, <1>2 DEF Holding
<1>6. /\ IsFiniteSet(Holding(st) \ {s})
      /\ Cardinality(Holding(st) \ {s}) = Cardinality(Holding(st)) - 1
  BY <1>3, <1>5, FS_RemoveElement
<1>7. Cardinality(Holding(st) \ {s}) \in Nat BY <1>6, FS_CardinalityType
<1>8. mState[st].refs - 1 \in Nat /\ mState[st].refs - 1 = Cardinality(Holding(st) \ {s})
  BY <1>3, <1>6, <1>7
<1>9. PICK now \in BOOLEAN : now = (mState[st].refs = 1 /\ ~mDelayed) OBVIOUS
<1>10. PICK task \in {"none", "sleep", "cancelling", "done", "cancelled"} :
          task = IF mState[st].refs = 1 /\ mDelayed THEN "sleep" ELSE mState[st].task
  BY <1>3, <1>4 DEF McpState
<1>11. PICK r : r = [mState[st] EXCEPT !.refs = @ - 1, !.task = task, !.closing = now,
                                       !.life = IF now THEN "closing" ELSE @]
  OBVIOUS
<1>12. PICK q : q = [Server!Idle(mSess[s]) EXCEPT !.pc = IF now THEN "close" ELSE "over"]
  OBVIOUS
<1>13. r \in McpState BY <1>4, <1>8, <1>11 DEF McpState
<1>14. Server!Idle(mSess[s]) \in McpSession /\ Server!Idle(mSess[s]).st = st
  BY <1>2, <1>4 DEF McpSession, Server!Idle
<1>15. q \in McpSession BY <1>12, <1>14 DEF McpSession
<1>16. /\ r.life = (IF now THEN "closing" ELSE "open") /\ r.task = task /\ r.closing = now
       /\ r.refs = mState[st].refs - 1
       /\ q.pc = (IF now THEN "close" ELSE "over") /\ q.st = st
  BY <1>3, <1>4, <1>11, <1>12, <1>14 DEF McpState, McpSession
<1>17. /\ Server!Turns(st, r) /\ Server!Becomes(s, q)
       /\ mCurrent' = IF now THEN 0 ELSE mCurrent
  BY <1>2, <1>9, <1>10, <1>11, <1>12 DEF Server!Leave
<1>18. /\ mState' \in [Server!States -> McpState]
       /\ \A x \in Server!States : mState'[x] = IF x = st THEN r ELSE mState[x]
  BY <1>2, <1>13, <1>17, StateTurns
<1>19. /\ mSess' \in [Clients -> McpSession]
       /\ \A x \in Clients : mSess'[x] = IF x = s THEN q ELSE mSess[x]
  BY <1>15, <1>17, SessionTurns
<1>20. McpTyped' BY <1>17, <1>18, <1>19 DEF McpTyped
<1>21. \A x \in Clients : x # s /\ mSess[x].pc \in {"reuse", "in"} => ~now
  <2> SUFFICES ASSUME NEW x \in Clients, x # s, mSess[x].pc \in {"reuse", "in"}, now
               PROVE  FALSE
    OBVIOUS
  <2>1. x \in Holding(st) \ {s} BY DEF Holding, SessionsFit
  <2>2. mState[st].refs = 1 BY <1>9
  <2>3. Cardinality(Holding(st) \ {s}) = 0 BY <1>8, <2>2
  <2> QED BY <1>6, <2>1, <2>3, FS_EmptySet
<1>22. SessionsFit' BY <1>1, <1>2, <1>16, <1>17, <1>18, <1>19, <1>21 DEF SessionsFit
<1>23. OneBuilder' BY <1>1, <1>16, <1>19 DEF OneBuilder
<1>24. Holding(mCurrent)' = Holding(st) \ {s} \/ now
  BY <1>16, <1>17, <1>19 DEF Holding
<1>25. StatesFit' BY <1>2, <1>6, <1>8, <1>16, <1>17, <1>18, <1>24 DEF StatesFit
<1>26. OneConnects' BY <1>1, <1>9, <1>16, <1>17, <1>18, <1>19 DEF OneConnects, Connects
<1> QED BY <1>20, <1>22, <1>23, <1>25, <1>26

LEMMA StateClosed ==
    ASSUME McpInv, NEW s \in Clients, Server!ClosesNow(s), UNCHANGED mDelayed
    PROVE  McpInv'
<1> USE McpNumbers DEF McpInv
<1> DEFINE st == mSess[s].st
<1>1. mSess[s].pc = "close" BY DEF Server!ClosesNow, Server!At
<1>2. /\ st \in Server!States /\ st # mCurrent /\ mState[st].life \in {"closing", "closed"}
  BY <1>1 DEF SessionsFit
<1>3. mState[st] \in McpState /\ mSess[s] \in McpSession BY <1>2 DEF McpTyped
<1>4. PICK r : /\ r \in McpState /\ r.life \in {mState[st].life, "closed"}
               /\ r.task = mState[st].task /\ r.closing = mState[st].closing
               /\ mState' = [mState EXCEPT ![st] = r]
  <2>1. CASE Server!Turns(st, [mState[st] EXCEPT !.life = "closed"])
    <3>1. PICK r : r = [mState[st] EXCEPT !.life = "closed"] OBVIOUS
    <3>2. /\ r \in McpState /\ r.life = "closed"
          /\ r.task = mState[st].task /\ r.closing = mState[st].closing
      BY <1>3, <3>1 DEF McpState
    <3> QED BY <2>1, <3>1, <3>2 DEF Server!Turns
  <2>2. CASE UNCHANGED mState
    <3>1. mState' = [mState EXCEPT ![st] = mState[st]] BY <1>2, <2>2 DEF McpTyped
    <3> QED BY <1>3, <3>1
  <2> QED BY <2>1, <2>2 DEF Server!ClosesNow, Server!Mine
<1>5. PICK q : q = [mSess[s] EXCEPT !.pc = "over"] OBVIOUS
<1>6. r \in McpState /\ q \in McpSession BY <1>3, <1>4, <1>5 DEF McpSession
<1>7. /\ r.life \in {mState[st].life, "closed"}
      /\ r.task = mState[st].task /\ r.closing = mState[st].closing
      /\ q.pc = "over"
  BY <1>3, <1>4, <1>5 DEF McpSession
<1>8. /\ mState' \in [Server!States -> McpState]
      /\ \A x \in Server!States : mState'[x] = IF x = st THEN r ELSE mState[x]
  BY <1>2, <1>4, <1>6 DEF McpTyped
<1>9. /\ mSess' \in [Clients -> McpSession]
      /\ \A x \in Clients : mSess'[x] = IF x = s THEN q ELSE mSess[x]
  BY <1>5, <1>6, SessionTurns DEF Server!ClosesNow
<1>10. mCurrent' = mCurrent BY DEF Server!ClosesNow
<1>11. McpTyped' BY <1>8, <1>9, <1>10 DEF McpTyped
<1>12. SessionsFit' BY <1>1, <1>2, <1>7, <1>8, <1>9, <1>10 DEF SessionsFit
<1>13. OneBuilder' BY <1>7, <1>9 DEF OneBuilder
<1>14. Holding(mCurrent)' = Holding(mCurrent) BY <1>1, <1>7, <1>9, <1>10 DEF Holding
<1>15. StatesFit'
  <2>1. mCurrent # 0 => mCurrent \in Server!States BY DEF McpTyped
  <2>2. mCurrent # 0 => mState'[mCurrent] = mState[mCurrent] BY <1>2, <1>8, <2>1
  <2>3. \A x \in Server!States :
          /\ mState'[x].life \in {"none", "building"} =>
                mState'[x].task = "none" /\ ~mState'[x].closing
          /\ mState'[x].task \in {"close", "again"} => mState'[x].closing
    BY <1>2, <1>7, <1>8 DEF StatesFit
  <2> QED BY <1>10, <1>14, <2>2, <2>3 DEF StatesFit
<1>16. OneConnects' BY <1>1, <1>7, <1>8, <1>9, <1>10 DEF OneConnects, Connects
<1> QED BY <1>11, <1>12, <1>13, <1>15, <1>16

LEMMA WaitMoves ==
    ASSUME McpInv, NEW s \in Clients, UNCHANGED mDelayed,
           \/ Server!WaitForClose(s) \/ Server!CloseAwaited(s) \/ Server!WaitCancelled(s)
    PROVE  McpInv'
<1> USE McpNumbers DEF McpInv
<1>1. mSess[s] \in McpSession BY DEF McpTyped
<1>2. CASE Server!WaitForClose(s)
  <2>1. mSess[s].pc = "out" /\ mCurrent \in Server!States
    BY <1>2 DEF Server!WaitForClose, Server!At, McpTyped
  <2>2. PICK q : q = [mSess[s] EXCEPT !.pc = "wait", !.st = mCurrent] OBVIOUS
  <2>3. q \in McpSession /\ q.pc = "wait" /\ q.st = mCurrent
    BY <1>1, <2>1, <2>2 DEF McpSession
  <2>4. Server!Becomes(s, q) /\ UNCHANGED <<mCurrent, mState>>
    BY <1>2, <2>2 DEF Server!WaitForClose
  <2> QED BY <2>1, <2>3, <2>4, OutsiderMoves
<1>3. CASE Server!CloseAwaited(s)
  <2>1. mSess[s].pc = "wait" BY <1>3 DEF Server!CloseAwaited, Server!At
  <2>2. PICK pc \in {"out", "failed"} :
            Server!Becomes(s, [mSess[s] EXCEPT !.st = 0, !.pc = pc])
    BY <1>3 DEF Server!CloseAwaited
  <2>3. PICK q : q = [mSess[s] EXCEPT !.st = 0, !.pc = pc] OBVIOUS
  <2>4. q \in McpSession /\ q.pc \in {"out", "failed"} BY <1>1, <2>2, <2>3 DEF McpSession
  <2>5. UNCHANGED <<mCurrent, mState>> BY <1>3 DEF Server!CloseAwaited
  <2> QED BY <2>1, <2>2, <2>3, <2>4, <2>5, OutsiderMoves
<1>4. CASE Server!WaitCancelled(s)
  <2> DEFINE st == mSess[s].st
  <2>1. mSess[s].pc = "wait" /\ mCurrent' = mCurrent
    BY <1>4 DEF Server!WaitCancelled, Server!At
  <2>2. st \in Server!States BY <2>1 DEF SessionsFit
  <2>3. CASE UNCHANGED mSess /\ mState[st].task \in {"close", "again"}
               /\ Server!Turns(st, [mState[st] EXCEPT
                     !.task = IF @ = "close" /\ ~mState[st].reuse
                              THEN "again" ELSE "cancelled",
                     !.reuse = FALSE])
    <3>1. mState[st] \in McpState BY <2>2 DEF McpTyped
    <3>2. PICK r : r = [mState[st] EXCEPT
                     !.task = IF @ = "close" /\ ~mState[st].reuse
                              THEN "again" ELSE "cancelled",
                     !.reuse = FALSE]
      OBVIOUS
    <3>3. r \in McpState BY <3>1, <3>2 DEF McpState
    <3>4. r.refs = mState[st].refs /\ r.life = mState[st].life /\ r.closing = mState[st].closing
      BY <3>1, <3>2 DEF McpState
    <3>5. mState[st].closing /\ mState[st].life \notin {"none", "building"}
      BY <2>2, <2>3 DEF StatesFit
    <3>6. r.life # "closed" \/ mCurrent # st BY <3>4, <3>5, <2>2 DEF StatesFit
    <3> QED BY <2>1, <2>2, <2>3, <3>2, <3>3, <3>4, <3>5, <3>6, StateMoves
  <2>4. CASE UNCHANGED mState /\ Server!Becomes(s, [mSess[s] EXCEPT !.pc = "failed"])
    <3>1. PICK q : q = [mSess[s] EXCEPT !.pc = "failed"] OBVIOUS
    <3>2. q \in McpSession /\ q.pc = "failed" BY <1>1, <3>1 DEF McpSession
    <3> QED BY <2>1, <2>4, <3>1, <3>2, OutsiderMoves
  <2> QED BY <1>4, <2>3, <2>4 DEF Server!WaitCancelled, Server!Mine
<1> QED BY <1>2, <1>3, <1>4

LEMMA ToolMoves ==
    ASSUME McpInv, NEW s \in Clients, UNCHANGED mDelayed,
           \/ Server!Taken(s) \/ Server!CallTool(s) \/ Server!LooksAtFlags(s)
           \/ Server!AsksOrChecks(s) \/ Server!CallsStore(s) \/ Server!SkipsLeg(s)
           \/ Server!Places(s) \/ Server!ToolEnds(s)
    PROVE  McpInv'
<1> USE McpNumbers DEF McpInv
<1> DEFINE q == mSess[s]
<1>1. q \in McpSession BY DEF McpTyped
<1>2. q.at + 1 \in Nat /\ q.at + 2 \in Nat /\ q.placed + 1 \in Nat BY <1>1 DEF McpSession
<1>3. UNCHANGED <<mCurrent, mState>>
  BY DEF Server!Taken, Server!CallTool, Server!LooksAtFlags, Server!AsksOrChecks,
     Server!CallsStore, Server!SkipsLeg, Server!Places, Server!ToolEnds, Server!Shared
<1>4. CASE Server!Taken(s)
  <2>1. PICK p : p = [q EXCEPT !.pc = "in"] OBVIOUS
  <2>2. p \in McpSession /\ p.pc = "in" /\ p.st = q.st BY <1>1, <2>1 DEF McpSession
  <2>3. q.pc = "reuse" /\ Server!Becomes(s, p)
    BY <1>4, <2>1 DEF Server!Taken, Server!At
  <2> QED BY <1>3, <2>2, <2>3, SessionMovesOn
<1>5. ASSUME NEW p \in McpSession, p.pc = q.pc, p.st = q.st, Server!Becomes(s, p)
      PROVE  McpInv'
  BY <1>3, <1>5, SessionMovesOn
<1>6. CASE Server!Answers(s)
  <2>1. PICK p : p = Server!Idle(q) OBVIOUS
  <2>2. p \in McpSession /\ p.pc = q.pc /\ p.st = q.st
    BY <1>1, <2>1 DEF McpSession, Server!Idle
  <2> QED BY <1>5, <1>6, <2>1, <2>2 DEF Server!Answers
<1>7. CASE Server!GoesOn(s)
  <2>1. PICK p : p = [q EXCEPT !.at = @ + 1] OBVIOUS
  <2>2. p \in McpSession /\ p.pc = q.pc /\ p.st = q.st BY <1>1, <1>2, <2>1 DEF McpSession
  <2> QED BY <1>5, <1>7, <2>1, <2>2 DEF Server!GoesOn
<1>8. CASE Server!Becomes(s, [q EXCEPT !.at = @ + 2])
  <2>1. PICK p : p = [q EXCEPT !.at = @ + 2] OBVIOUS
  <2>2. p \in McpSession /\ p.pc = q.pc /\ p.st = q.st BY <1>1, <1>2, <2>1 DEF McpSession
  <2> QED BY <1>5, <1>8, <2>1, <2>2
<1>9. CASE Server!Becomes(s, [q EXCEPT !.at = @ + 1, !.placed = @ + 1])
  <2>1. PICK p : p = [q EXCEPT !.at = @ + 1, !.placed = @ + 1] OBVIOUS
  <2>2. p \in McpSession /\ p.pc = q.pc /\ p.st = q.st BY <1>1, <1>2, <2>1 DEF McpSession
  <2> QED BY <1>5, <1>9, <2>1, <2>2
<1>10. CASE Server!CallTool(s)
  <2>1. PICK tool \in ToolsOf[s] : Server!Becomes(s, [q EXCEPT !.tool = tool, !.at = 1])
    BY <1>10 DEF Server!CallTool
  <2>2. tool \in DOMAIN Server!Tool BY <2>1, PartsAssumption DEF Server!McpAssumption
  <2>3. PICK p : p = [q EXCEPT !.tool = tool, !.at = 1] OBVIOUS
  <2>4. p \in McpSession /\ p.pc = q.pc /\ p.st = q.st BY <1>1, <2>2, <2>3 DEF McpSession
  <2> QED BY <1>5, <2>1, <2>3, <2>4
<1> QED
  BY <1>4, <1>6, <1>7, <1>8, <1>9, <1>10
  DEF Server!LooksAtFlags, Server!AsksOrChecks, Server!CallsStore, Server!SkipsLeg,
      Server!Places, Server!ToolEnds

LEMMA McpStep ==
    McpInv /\ [SuiteNext]_<<part, vars, orderVars, streamVars, mcpVars>> => McpInv'
<1> SUFFICES ASSUME McpInv, [SuiteNext]_<<part, vars, orderVars, streamVars, mcpVars>>
             PROVE  McpInv'
  OBVIOUS
<1>1. CASE Server!Next
  BY <1>1, BuildBegins, BuildEnds, StateTaken, IdleTaskMoves, StateLeft, StateClosed,
     WaitMoves, ToolMoves
  DEF Server!Next
<1>2. CASE UNCHANGED mcpVars
  BY <1>2
  DEF mcpVars, McpInv, McpTyped, SessionsFit, OneBuilder, StatesFit, OneConnects, Holding,
      Connects
<1> QED
  BY <1>1, <1>2
  DEF SuiteNext, RoutesSuite, GuardedSuite, OrdersSuite, StreamsSuite, McpSuite

(* Whatever the sessions do with their tools and whoever is cancelled: who
   has the shared state has it open and counted, and with an idle delay no
   two states use the client id at a time, for any sessions and states
   (_acquire_mcp_shared_state, _close_mcp_shared_state_after_idle). *)
THEOREM StatesAreAlwaysShared == SuiteSpec => []StatesAreShared
<1>1. SuiteSpec => []McpInv
  <2>1. SuiteInit => McpInv BY McpStarts DEF SuiteInit
  <2> QED BY <2>1, McpStep, PTL DEF SuiteSpec
<1>2. McpInv => StatesAreShared
  <2> SUFFICES ASSUME McpInv PROVE Server!HeldStatesAreOpen /\ Server!OneClientId
    BY DEF StatesAreShared
  <2>1. Server!HeldStatesAreOpen
    <3> SUFFICES ASSUME NEW s \in Clients, mSess[s].pc \in {"reuse", "in"}
                 PROVE  /\ mSess[s].st = mCurrent /\ mState[mSess[s].st].life = "open"
                        /\ ~mState[mSess[s].st].closing
                        /\ mState[mSess[s].st].refs = Cardinality(Holding(mCurrent))
      BY DEF Server!HeldStatesAreOpen, Server!Mine, Holding, Server!Cardinality, Cardinality
    <3> QED BY McpNumbers DEF McpInv, SessionsFit, StatesFit
  <2>2. Server!OneClientId
    <3> SUFFICES ASSUME mDelayed
                 PROVE  Cardinality({st \in Server!States : Connects(st)}) <= 1
      BY DEF Server!OneClientId, Connects, Server!Cardinality, Cardinality
    <3> DEFINE C == {st \in Server!States : Connects(st)}
    <3>1. \A x, y \in C : x = y
      BY McpNumbers DEF McpInv, OneConnects, SessionsFit, OneBuilder
    <3>2. C = {} \/ \E x : C = {x}
      <4>1. CASE C = {} BY <4>1
      <4>2. CASE C # {}
        <5>1. PICK x : x \in C BY <4>2
        <5>2. C = {x} BY <3>1, <5>1
        <5> QED BY <5>2
      <4> QED BY <4>1, <4>2
    <3> HIDE DEF C
    <3>3. C = {} => Cardinality(C) = 0 BY FS_EmptySet
    <3>4. ASSUME NEW x, C = {x} PROVE Cardinality(C) = 1 BY <3>4, FS_Singleton
    <3>5. Cardinality(C) <= 1 BY <3>2, <3>3, <3>4
    <3> QED BY <3>5 DEF C
  <2> QED BY <2>1, <2>2
<1> QED BY <1>1, <1>2, PTL

-----------------------------------------------------------------------------
\* Orders.  Where an operation may have sent an order, an exception is
\* recorded, unless all that is left is to undo a preview and to write the
\* answer; only exercise, which has no envelope, raises it as it is.

OrderSteps ==
    {"reserve", "connect", "write", "ask", "ask?", "qualified", "look", "terminal", "known",
     "slot", "send", "cancel", "status", "wait", "archive", "check", "undo", "final"}

StepFits(op, d, j) ==
    LET step == d.steps[j] IN
    /\ step = "reserve" => op = "place" /\ j = 1
    /\ op = "place" /\ j = 1 => step = "reserve"
    /\ step \in {"reserve", "qualified", "terminal"} => j \notin d.guard
    /\ step = "send" => j \in d.guard \/ op = "exercise"
    /\ step \in {"write", "undo", "final", "qualified", "terminal"} => op # "exercise"
    /\ step = "final" => j = Len(d.steps)
    /\ step \in {"undo", "final"} => j \notin d.guard
    /\ j < Len(d.steps) /\ (step \in {"send", "undo"} \/ j \in d.guard) =>
          j + 1 \in d.guard \/ d.steps[j + 1] \in {"undo", "final"}
    /\ op = "preview" /\ j < Len(d.steps) /\ d.steps[j + 1] = "final" => step = "undo"
    /\ op = "preview" /\ j = Len(d.steps) => step = "final"

OperationFits(op, d) ==
    /\ d.steps \in Seq(OrderSteps) /\ Len(d.steps) \in Nat \ {0}
    /\ op = "exercise" => d.guard = {}
    /\ \A j \in 1..Len(d.steps) : StepFits(op, d, j)

LEMMA FixedOperations ==
    /\ OperationFits("place", Order!PlaceOrder)
    /\ OperationFits("cancel", Order!CancelOrder)
    /\ OperationFits("modify", Order!ModifyOrder)
    /\ OperationFits("preview", Order!PreviewOrder)
    /\ OperationFits("cancel_all", Order!CancelAllOrders)
    /\ OperationFits("exercise", Order!ExerciseOption)
    /\ OperationFits("open", Order!LoadOpenOrders)
    /\ OperationFits("executions", Order!LoadExecutions)
    /\ OperationFits("completed", Order!LoadCompletedOrders)
    /\ OperationFits("all_open", Order!GetAllOpenOrders)
<1> USE DEF OperationFits, StepFits, OrderSteps, Order!Operation
<1>1. OperationFits("place", Order!PlaceOrder) BY DEF Order!PlaceOrder
<1>2. OperationFits("cancel", Order!CancelOrder) BY DEF Order!CancelOrder
<1>3. OperationFits("modify", Order!ModifyOrder) BY DEF Order!ModifyOrder
<1>4. OperationFits("preview", Order!PreviewOrder) BY DEF Order!PreviewOrder
<1>5. OperationFits("cancel_all", Order!CancelAllOrders) BY DEF Order!CancelAllOrders
<1>6. OperationFits("exercise", Order!ExerciseOption) BY DEF Order!ExerciseOption
<1>7. OperationFits("open", Order!LoadOpenOrders) BY DEF Order!LoadOpenOrders
<1>8. OperationFits("executions", Order!LoadExecutions) BY DEF Order!LoadExecutions
<1>9. OperationFits("completed", Order!LoadCompletedOrders) BY DEF Order!LoadCompletedOrders
<1>10. OperationFits("all_open", Order!GetAllOpenOrders) BY DEF Order!GetAllOpenOrders
<1> QED BY <1>1, <1>2, <1>3, <1>4, <1>5, <1>6, <1>7, <1>8, <1>9, <1>10

\* A sequence of legs, and where it stands in an operation.
LEMMA TimesLegs ==
    ASSUME NEW S, NEW s \in Seq(S), Len(s) > 0
    PROVE  /\ Order!Times(Legs, s) \in Seq(S)
           /\ Len(Order!Times(Legs, s)) = Legs * Len(s)
<1>0. Legs \in Nat \ {0} BY PartsAssumption DEF Order!OrdersAssumption
<1> DEFINE l == Len(s)
<1>1. l \in Nat \ {0} OBVIOUS
<1>2. Legs * l \in Nat \ {0} BY <1>0, <1>1
<1>3. ASSUME NEW i \in 1..(Legs * l) PROVE s[1 + ((i - 1) % l)] \in S
  <2>1. i - 1 \in Nat BY <1>2
  <2>2. (i - 1) % l \in 0..(l - 1) BY <1>1, <2>1
  <2> QED BY <1>1, <2>2
<1>4. Order!Times(Legs, s) = [i \in 1..(Legs * l) |-> s[1 + ((i - 1) % l)]]
  BY DEF Order!Times
<1> HIDE DEF l
<1> DEFINE L == Legs * l
<1>5. L \in Nat \ {0} BY <1>2
<1> HIDE DEF L
<1>6. Order!Times(Legs, s) = [i \in 1..L |-> s[1 + ((i - 1) % l)]] BY <1>4 DEF L
<1>7. \A i \in 1..L : s[1 + ((i - 1) % l)] \in S BY <1>3 DEF L
<1>8. Order!Times(Legs, s) \in Seq(S) /\ Len(Order!Times(Legs, s)) = L
  BY <1>5, <1>6, <1>7
<1> QED BY <1>8 DEF L, l

Preparing == {"connect", "write", "ask", "ask?", "qualified"}
Sending == {"slot", "send", "check"}
Leg == <<"slot", "send", "check">>
WithLegs(s) ==
    [steps |-> (s \o Order!Times(Legs, Leg)) \o <<"final">>,
     guard |-> (Len(s) + 1)..(Len(s) + 3 * Legs)]

\* An operation that prepares, sends its legs and writes its answer.
LEMMA LegSteps ==
    ASSUME NEW s \in Seq(Preparing), Len(s) > 0, NEW all, all = WithLegs(s).steps
    PROVE  /\ Order!Times(Legs, Leg) \in Seq(Sending) /\ Len(Order!Times(Legs, Leg)) = 3 * Legs
           /\ all \in Seq(OrderSteps) /\ Len(all) = Len(s) + 3 * Legs + 1
           /\ \A i \in 1..Len(s) : all[i] \in Preparing
           /\ \A i \in (Len(s) + 1)..(Len(s) + 3 * Legs) :
                 all[i] \in Sending /\ all[i] = Order!Times(Legs, Leg)[i - Len(s)]
           /\ all[Len(s) + 3 * Legs + 1] = "final"
<1> DEFINE T == Order!Times(Legs, Leg)
<1>0. Legs \in Nat \ {0} BY PartsAssumption DEF Order!OrdersAssumption
<1>1. T \in Seq(Sending) /\ Len(T) = Legs * 3
  <2>1. Leg \in Seq(Sending) BY DEF Leg, Sending
  <2>2. Len(Leg) = 3 /\ Len(Leg) > 0 BY DEF Leg
  <2>3. T \in Seq(Sending) /\ Len(T) = Legs * Len(Leg) BY <2>1, <2>2, TimesLegs, Zenon
  <2> QED BY <2>2, <2>3
<1>2. s \in Seq(OrderSteps) /\ T \in Seq(OrderSteps) /\ <<"final">> \in Seq(OrderSteps)
  <2>1. \A S : \A z \in Seq(S) : S \subseteq OrderSteps => z \in Seq(OrderSteps)
    <3> SUFFICES ASSUME NEW S, NEW z \in Seq(S), S \subseteq OrderSteps
                 PROVE  z \in Seq(OrderSteps)
      OBVIOUS
    <3>1. z = [i \in 1..Len(z) |-> z[i]] /\ \A i \in 1..Len(z) : z[i] \in OrderSteps
      OBVIOUS
    <3> QED BY <3>1
  <2>2. s \in Seq(OrderSteps)
    <3>1. Preparing \subseteq OrderSteps BY DEF OrderSteps, Preparing
    <3> QED BY <2>1, <3>1
  <2>3. T \in Seq(OrderSteps)
    <3>1. Sending \subseteq OrderSteps BY DEF OrderSteps, Sending
    <3> QED BY <1>1, <2>1, <3>1
  <2>4. <<"final">> \in Seq(OrderSteps) BY DEF OrderSteps
  <2> QED BY <2>2, <2>3, <2>4
<1> DEFINE M == Len(s)
           N == 3 * Legs
<1>3. M \in Nat \ {0} /\ N \in Nat \ {0} /\ Len(T) = N BY <1>0, <1>1
<1>4. \A i \in 1..N : T[i] \in Sending BY <1>1, <1>3
<1>5. \A i \in 1..M : s[i] \in Preparing OBVIOUS
<1> HIDE DEF T, N
<1> DEFINE sT == s \o T
<1>6. /\ sT \in Seq(OrderSteps) /\ Len(sT) = M + N
      /\ \A i \in 1..M : sT[i] = s[i]
      /\ \A i \in (M + 1)..(M + N) : sT[i] = T[i - M]
  <2>1. /\ sT \in Seq(OrderSteps) /\ Len(sT) = Len(s) + Len(T)
        /\ \A i \in 1..Len(s) : sT[i] = s[i]
        /\ \A i \in (Len(s) + 1)..(Len(s) + Len(T)) : sT[i] = T[i - Len(s)]
    BY <1>2, Joined
  <2> QED BY <1>3, <2>1
<1> HIDE DEF sT
<1> DEFINE Z == <<"final">>
<1>7. Z \in Seq(OrderSteps) /\ Len(Z) = 1 /\ Z[1] = "final" BY <1>2
<1> HIDE DEF Z
<1> DEFINE row == sT \o Z
<1>8. /\ row \in Seq(OrderSteps) /\ Len(row) = M + N + 1
      /\ \A i \in 1..(M + N) : row[i] = sT[i]
      /\ row[M + N + 1] = "final"
  <2>1. /\ row \in Seq(OrderSteps) /\ Len(row) = Len(sT) + Len(Z)
        /\ \A i \in 1..Len(sT) : row[i] = sT[i]
        /\ \A i \in (Len(sT) + 1)..(Len(sT) + Len(Z)) : row[i] = Z[i - Len(sT)]
    <3>1. sT \in Seq(OrderSteps) BY <1>6
    <3> QED BY <1>7, <3>1, Joined
  <2> HIDE DEF M, row
  <2> QED BY <1>3, <1>6, <1>7, <2>1
<1> HIDE DEF row
<1>9. \A i \in 1..M : row[i] \in Preparing
  <2> HIDE DEF M
  <2> QED BY <1>3, <1>5, <1>6, <1>8
<1>10. \A i \in (M + 1)..(M + N) : row[i] \in Sending /\ row[i] = T[i - M]
  <2> HIDE DEF M
  <2> SUFFICES ASSUME NEW i \in (M + 1)..(M + N)
               PROVE  row[i] \in Sending /\ row[i] = T[i - M]
    OBVIOUS
  <2>1. i - M \in 1..N /\ i \in 1..(M + N) BY <1>3
  <2> QED BY <1>4, <1>6, <1>8, <2>1
<1>11. all = row  BY DEF row, sT, T, Z, WithLegs
<1> QED BY <1>1, <1>3, <1>8, <1>9, <1>10, <1>11 DEF T, N

LEMMA LegsFit ==
    ASSUME NEW op, op \notin {"place", "preview", "exercise"},
           NEW s \in Seq(Preparing), Len(s) > 0
    PROVE  OperationFits(op, WithLegs(s))
<1> DEFINE d == WithLegs(s)
           all == d.steps
           M == Len(s)
           N == 3 * Legs
<1>1. M \in Nat \ {0} /\ N \in Nat \ {0}
  BY PartsAssumption DEF Order!OrdersAssumption
<1>2. /\ all \in Seq(OrderSteps) /\ Len(all) = M + N + 1 /\ all[M + N + 1] = "final"
      /\ \A i \in 1..M : all[i] \in Preparing
      /\ \A i \in (M + 1)..(M + N) : all[i] \in Sending
  BY LegSteps
<1>3. d.steps = all /\ d.guard = (M + 1)..(M + N)  BY DEF WithLegs
<1> HIDE DEF all, N
<1>4. \A j \in 1..(M + N + 1) : StepFits(op, d, j)
  <2> HIDE DEF M, d
  <2> SUFFICES ASSUME NEW j \in 1..(M + N + 1) PROVE StepFits(op, d, j)  OBVIOUS
  <2>1. CASE j \in 1..M
    <3>1. j \notin d.guard /\ all[j] \in Preparing
      BY <1>1, <1>2, <1>3, <2>1
    <3> QED BY <1>3, <3>1 DEF StepFits, Preparing
  <2>2. CASE j \in (M + 1)..(M + N)
    <3>1. j \in d.guard /\ all[j] \in Sending BY <1>2, <1>3, <2>2
    <3>2. j + 1 \in d.guard \/ all[j + 1] = "final" BY <1>1, <1>2, <1>3, <2>2
    <3> QED BY <1>3, <3>1, <3>2 DEF StepFits, Sending
  <2>3. CASE j = M + N + 1
    <3>1. j \notin d.guard /\ all[j] = "final" /\ j = Len(all) BY <1>1, <1>2, <1>3, <2>3
    <3> QED BY <1>1, <1>3, <3>1 DEF StepFits
  <2> QED BY <1>1, <2>1, <2>2, <2>3
<1>5. OperationFits(op, d)
  <2> HIDE DEF M, d
  <2> QED BY <1>1, <1>2, <1>3, <1>4 DEF OperationFits
<1> QED BY <1>5

LEMMA LegOperations ==
    /\ \E s \in Seq(Preparing) : Len(s) = 3 /\ Order!PlaceBracketOrder = WithLegs(s)
    /\ \E s \in Seq(Preparing) : Len(s) = 3 + Legs /\ Order!PlaceOcaGroup = WithLegs(s)
<1>0. Legs \in Nat \ {0} BY PartsAssumption DEF Order!OrdersAssumption
<1>1. \E s \in Seq(Preparing) : Len(s) = 3 /\ Order!PlaceBracketOrder = WithLegs(s)
  <2> DEFINE s == <<"connect", "write", "ask">>
  <2>1. s \in Seq(Preparing) /\ Len(s) = 3 BY DEF Preparing
  <2>2. Order!PlaceBracketOrder = WithLegs(s)
    BY <2>1 DEF Order!PlaceBracketOrder, Order!Operation, WithLegs, Leg
  <2> HIDE DEF s
  <2> QED BY <2>1, <2>2
<1>2. \E s \in Seq(Preparing) : Len(s) = 3 + Legs /\ Order!PlaceOcaGroup = WithLegs(s)
  <2> DEFINE a == <<"connect", "write">>
             k == <<"ask?">>
             t == Order!Times(Legs, k)
             z == <<"qualified">>
  <2>1. /\ a \in Seq(Preparing) /\ Len(a) = 2 /\ k \in Seq(Preparing) /\ Len(k) = 1
        /\ z \in Seq(Preparing) /\ Len(z) = 1
    BY DEF Preparing
  <2>2. Order!PlaceOcaGroup =
          [steps |-> (((a \o t) \o z) \o Order!Times(Legs, Leg)) \o <<"final">>,
           guard |-> (4 + Legs)..(3 + 4 * Legs)]
    BY DEF Order!PlaceOcaGroup, Order!Operation, Leg
  <2> HIDE DEF k
  <2>3. t \in Seq(Preparing) /\ Len(t) = Legs
    <3>1. t \in Seq(Preparing) /\ Len(t) = Legs * Len(k)
      <4>1. k \in Seq(Preparing) /\ Len(k) > 0 BY <2>1
      <4> QED BY <4>1, TimesLegs, Zenon
    <3> QED BY <1>0, <2>1, <3>1
  <2> HIDE DEF a, t, z
  <2> DEFINE u == a \o t
  <2>4. u \in Seq(Preparing) /\ Len(u) = 2 + Legs
    <3>1. u \in Seq(Preparing) /\ Len(u) = Len(a) + Len(t) BY <2>1, <2>3, Joined
    <3> HIDE DEF u
    <3> QED BY <2>1, <2>3, <3>1
  <2>5. Order!PlaceOcaGroup =
          [steps |-> ((u \o z) \o Order!Times(Legs, Leg)) \o <<"final">>,
           guard |-> (4 + Legs)..(3 + 4 * Legs)]
    BY <2>2
  <2> HIDE DEF u
  <2> DEFINE s == u \o z
  <2>6. s \in Seq(Preparing) /\ Len(s) = 3 + Legs
    <3>1. s \in Seq(Preparing) /\ Len(s) = Len(u) + Len(z) BY <2>1, <2>4, Joined
    <3> HIDE DEF s
    <3> QED BY <1>0, <2>1, <2>4, <3>1
  <2>7. Order!PlaceOcaGroup =
          [steps |-> (s \o Order!Times(Legs, Leg)) \o <<"final">>,
           guard |-> (4 + Legs)..(3 + 4 * Legs)]
    BY <2>5
  <2> HIDE DEF s
  <2>8. Len(s) > 0 /\ Len(s) + 1 = 4 + Legs /\ Len(s) + 3 * Legs = 3 + 4 * Legs
    BY <1>0, <2>6
  <2>9. Order!PlaceOcaGroup = WithLegs(s) BY <2>7, <2>8 DEF WithLegs
  <2> QED BY <2>6, <2>9
<1> QED BY <1>1, <1>2

LEMMA OperationsFit == \A op \in DOMAIN Order!Op : OperationFits(op, Order!Op[op])
<1>1. Legs \in Nat  BY PartsAssumption DEF Order!OrdersAssumption
<1>2. OperationFits("bracket", Order!PlaceBracketOrder)
  <2>1. PICK s \in Seq(Preparing) : Len(s) = 3 /\ Order!PlaceBracketOrder = WithLegs(s)
    BY LegOperations
  <2>2. OperationFits("bracket", WithLegs(s))  BY <2>1, LegsFit
  <2>3. QED  BY <2>1, <2>2
<1>3. OperationFits("oca", Order!PlaceOcaGroup)
  <2>1. PICK s \in Seq(Preparing) : Len(s) = 3 + Legs /\ Order!PlaceOcaGroup = WithLegs(s)
    BY LegOperations
  <2>2. Len(s) > 0  BY <1>1, <2>1
  <2>3. OperationFits("oca", WithLegs(s))  BY <2>2, LegsFit
  <2>4. QED  BY <2>1, <2>3
<1>4. QED  BY <1>2, <1>3, FixedOperations DEF Order!Op

-----------------------------------------------------------------------------
\* The inductive invariant of the orders.

OrderRecord ==
    [op : DOMAIN Order!Op, at : Nat, own : Nat,
     st : {"run", "waiting", "record", "undo", "over"},
     own_envelope : Order!Envelope, attempted : Nat, trades : Nat,
     status : Order!Status, refused : BOOLEAN, lost : BOOLEAN,
     end : {"none", "ok", "replayed", "rejected", "failed", "cancelled"}]

NextStepOf(q) == Order!Op[q.op].steps[q.at]
LastStep(q) == Len(Order!Op[q.op].steps)

\* From here on an order may have been sent.
Late(q) == q.at \in Order!Op[q.op].guard \/ NextStepOf(q) \in {"undo", "final"}

Broken == {"failed", "cancelled", "rejected"}

\* The envelope e of the operation q with b orders at IBKR tells the truth.
Marked(e, b, q) ==
    /\ b > 0 => e.reconcile
    /\ e.status = "inactive" => b = 0 \/ q.status = "inactive"

\* What is left of a preview: nothing to undo it with, or a mark, or no record.
PreviewFits(q, b, e, up, n) ==
    q.op = "preview" /\ b > 0 =>
        /\ q.st = "run" /\ NextStepOf(q) = "final"
              => ~(up /\ q.own = n) \/ q.own_envelope.reconcile
        /\ q.st = "over" => ~(up /\ q.own = n) \/ q.lost \/ e.reconcile

CallFits(q, b, e, up, n) ==
    /\ q \in OrderRecord /\ q.at \in 1..LastStep(q) /\ q.own <= n
    /\ b \in Nat /\ e \in Order!Envelope
    /\ b > 0 => q.attempted > 0
    /\ q.st \in {"run", "waiting"} => q.end = "none" /\ (b > 0 => Late(q))
    /\ q.st = "waiting" => NextStepOf(q) = "reserve"
    /\ q.st \in {"record", "undo"} => q.end \in Broken /\ q.op # "exercise"
    /\ e.there => q.op # "exercise"
    /\ e.answered => q.st \in {"undo", "over"}
    /\ q.st = "record" => Marked(q.own_envelope, b, q)
    /\ q.st \in {"undo", "over"} /\ ~q.lost /\ e.there /\ q.end \in Broken => Marked(e, b, q)
    /\ q.st = "undo" /\ b > 0 => q.lost \/ e.reconcile
    /\ PreviewFits(q, b, e, up, n)

\* The one who goes on has the key.
KeyFits(c, q, b, k) ==
    /\ q.op = "place" /\ (q.at > 1 \/ b > 0) => k = c
    /\ k = c => q.at > 1 \/ q.st = "over"
    /\ q.st = "waiting" => k \in OrderCalls
    /\ q.end = "replayed" => q.st = "over" /\ k \in OrderCalls /\ k # c

ReplaysFit ==
    \A c \in OrderCalls : oCall[c].end = "replayed" => oEnvelope[oKey].answered

OrdersInv ==
    /\ oSession \in Nat /\ oRedis \in BOOLEAN /\ oKey \in OrderCalls \cup {NoCall}
    /\ oCall \in [OrderCalls -> OrderRecord]
    /\ oBroker \in [OrderCalls -> Nat]
    /\ oEnvelope \in [OrderCalls -> Order!Envelope]
    /\ \A c \in OrderCalls : CallFits(oCall[c], oBroker[c], oEnvelope[c], oUp, oSession)
    /\ \A c \in OrderCalls : KeyFits(c, oCall[c], oBroker[c], oKey)
    /\ ReplaysFit

LEMMA StepsKnown ==
    ASSUME NEW q \in OrderRecord, q.at \in 1..LastStep(q)
    PROVE  /\ StepFits(q.op, Order!Op[q.op], q.at)
           /\ NextStepOf(q) \in OrderSteps
           /\ LastStep(q) \in Nat /\ q.at \in Nat
           /\ q.op = "exercise" => Order!Op[q.op].guard = {}
<1>1. q.op \in DOMAIN Order!Op BY DEF OrderRecord
<1>2. OperationFits(q.op, Order!Op[q.op]) BY <1>1, OperationsFit
<1> QED BY <1>2 DEF OperationFits, LastStep, NextStepOf

LEMMA OrdersStart == Order!Init => OrdersInv
<1> SUFFICES ASSUME Order!Init PROVE OrdersInv  OBVIOUS
<1> USE DEF Order!Init
<1>0. NoCall \notin OrderCalls BY PartsAssumption DEF Order!OrdersAssumption
<1>1. PICK ask \in Asked :
          oCall = [c \in OrderCalls |->
                [op |-> ask[c], at |-> 1, own |-> 0, st |-> "run",
                 own_envelope |-> [Order!NoEnvelope EXCEPT !.there = TRUE],
                 attempted |-> 0, trades |-> 0, status |-> "pending",
                 refused |-> FALSE, lost |-> FALSE, end |-> "none"]]
  OBVIOUS
<1>2. ask \in [OrderCalls -> DOMAIN Order!Op]
  BY <1>1, PartsAssumption DEF Order!OrdersAssumption
<1>3. Order!NoEnvelope \in Order!Envelope /\ ~Order!NoEnvelope.there
        /\ ~Order!NoEnvelope.answered
  BY DEF Order!NoEnvelope, Order!Envelope, Order!Status
<1>4. [Order!NoEnvelope EXCEPT !.there = TRUE] \in Order!Envelope
  BY <1>3 DEF Order!Envelope
<1>5. \A c \in OrderCalls :
          /\ oCall[c] \in OrderRecord /\ oCall[c].at = 1 /\ oCall[c].own = 0
          /\ oCall[c].st = "run" /\ oCall[c].end = "none"
  BY <1>1, <1>2, <1>4 DEF OrderRecord, Order!Status
<1>6. oCall \in [OrderCalls -> OrderRecord] BY <1>1, <1>5
<1>7. /\ oBroker \in [OrderCalls -> Nat] /\ oEnvelope \in [OrderCalls -> Order!Envelope]
      /\ \A c \in OrderCalls : oBroker[c] = 0 /\ oEnvelope[c] = Order!NoEnvelope
  BY <1>3
<1>8. ASSUME NEW c \in OrderCalls
      PROVE  CallFits(oCall[c], oBroker[c], oEnvelope[c], oUp, oSession)
  <2>1. LastStep(oCall[c]) \in Nat \ {0}
    <3>1. oCall[c].op \in DOMAIN Order!Op BY <1>5 DEF OrderRecord
    <3> QED BY <3>1, OperationsFit DEF LastStep, OperationFits
  <2> QED BY <1>3, <1>5, <1>7, <2>1 DEF CallFits, PreviewFits
<1>9. \A c \in OrderCalls : KeyFits(c, oCall[c], oBroker[c], oKey)
  BY <1>0, <1>5, <1>7 DEF KeyFits
<1>10. ReplaysFit BY <1>5 DEF ReplaysFit
<1> QED BY <1>6, <1>7, <1>8, <1>9, <1>10 DEF OrdersInv

\* A step of one call: the others stay as they are.
LEMMA OneCallMoves ==
    ASSUME OrdersInv, NEW c \in OrderCalls, NEW q \in OrderRecord, Order!Becomes(c, q),
           UNCHANGED <<oUp, oSession>>, oRedis' \in BOOLEAN,
           oBroker' \in [OrderCalls -> Nat], oEnvelope' \in [OrderCalls -> Order!Envelope],
           \A d \in OrderCalls \ {c} : oBroker'[d] = oBroker[d] /\ oEnvelope'[d] = oEnvelope[d],
           CallFits(q, oBroker'[c], oEnvelope'[c], oUp, oSession),
           oEnvelope[c].answered => oEnvelope'[c].answered,
           \/ oKey' = oKey
           \/ oKey = NoCall /\ oKey' = c,
           KeyFits(c, q, oBroker'[c], oKey'),
           q.end = "replayed" => oEnvelope'[oKey'].answered
    PROVE  OrdersInv'
<1>0. NoCall \notin OrderCalls BY PartsAssumption DEF Order!OrdersAssumption
<1>1. /\ oCall' \in [OrderCalls -> OrderRecord]
      /\ \A d \in OrderCalls : oCall'[d] = IF d = c THEN q ELSE oCall[d]
  BY DEF Order!Becomes, OrdersInv
<1>2. oKey' \in OrderCalls \cup {NoCall} BY DEF OrdersInv
<1>3. \A d \in OrderCalls : CallFits(oCall'[d], oBroker'[d], oEnvelope'[d], oUp', oSession')
  <2> SUFFICES ASSUME NEW d \in OrderCalls
               PROVE  CallFits(oCall'[d], oBroker'[d], oEnvelope'[d], oUp, oSession)
    OBVIOUS
  <2>1. CASE d = c BY <1>1, <2>1
  <2>2. CASE d # c
    <3>1. oCall'[d] = oCall[d] /\ oBroker'[d] = oBroker[d] /\ oEnvelope'[d] = oEnvelope[d]
      BY <1>1, <2>2
    <3>2. CallFits(oCall[d], oBroker[d], oEnvelope[d], oUp, oSession) BY DEF OrdersInv
    <3> QED BY <3>1, <3>2
  <2> QED BY <2>1, <2>2
<1>4. \A d \in OrderCalls : KeyFits(d, oCall'[d], oBroker'[d], oKey')
  <2> SUFFICES ASSUME NEW d \in OrderCalls PROVE KeyFits(d, oCall'[d], oBroker'[d], oKey')
    OBVIOUS
  <2>1. CASE d = c BY <1>1, <2>1
  <2>2. CASE d # c
    <3>1. oCall'[d] = oCall[d] /\ oBroker'[d] = oBroker[d] BY <1>1, <2>2
    <3>2. KeyFits(d, oCall[d], oBroker[d], oKey) BY DEF OrdersInv
    <3> QED BY <1>0, <2>2, <3>1, <3>2 DEF KeyFits
  <2> QED BY <2>1, <2>2
<1>5. ReplaysFit'
  <2> SUFFICES ASSUME NEW d \in OrderCalls, oCall'[d].end = "replayed"
               PROVE  oEnvelope'[oKey'].answered
    BY DEF ReplaysFit
  <2>1. CASE d = c BY <1>1, <2>1
  <2>2. CASE d # c
    <3>1. oCall[d].end = "replayed" BY <1>1, <2>2
    <3>2. oKey \in OrderCalls /\ oEnvelope[oKey].answered
      BY <3>1 DEF OrdersInv, KeyFits, ReplaysFit
    <3>3. oKey' = oKey BY <1>0, <3>2
    <3> QED BY <3>2, <3>3
  <2> QED BY <2>1, <2>2
<1> QED BY <1>1, <1>2, <1>3, <1>4, <1>5 DEF OrdersInv

\* What a call keeps of the key as it goes on.
LEMMA KeyKept ==
    ASSUME NEW c \in OrderCalls, NEW p \in OrderRecord, NEW b \in Nat,
           p.at \in 1..LastStep(p), KeyFits(c, p, b, oKey), p.st # "over",
           NEW q \in OrderRecord, NEW bb \in Nat, q.op = p.op,
           q.at = p.at \/ (q.at = p.at + 1 /\ NextStepOf(p) # "reserve"),
           bb = 0 \/ b > 0 \/ NextStepOf(p) # "reserve",
           q.st # "waiting" \/ p.st = "waiting", q.end # "replayed"
    PROVE  KeyFits(c, q, bb, oKey)
<1>1. p.op = "place" /\ p.at = 1 => NextStepOf(p) = "reserve"
  BY StepsKnown DEF StepFits, NextStepOf
<1>2. p.at \in Nat /\ p.at >= 1 BY DEF OrderRecord
<1> QED BY <1>1, <1>2 DEF KeyFits

\* An exception is recorded, or nothing can have been sent.
LEMMA RecordedMarks ==
    ASSUME NEW q \in OrderRecord, NEW b \in Nat, b > 0 => q.attempted > 0
    PROVE  /\ Order!Recorded(q) \in Order!Envelope /\ Order!Recorded(q).answered
           /\ Marked(Order!Recorded(q), b, q)
           /\ Order!Recorded(q).there = q.own_envelope.there
<1>1. q.own_envelope \in Order!Envelope /\ q.attempted \in Nat /\ q.status \in Order!Status
  BY DEF OrderRecord
<1>2. PICK reconcile \in BOOLEAN : reconcile = (q.attempted > 0)
  <2>1. CASE q.attempted > 0
    <3>1. TRUE = (q.attempted > 0) BY <2>1
    <3> QED BY <3>1
  <2>2. CASE ~(q.attempted > 0)
    <3>1. FALSE = (q.attempted > 0) BY <2>2
    <3> QED BY <3>1
  <2> QED BY <2>1, <2>2
<1>3. PICK status \in Order!Status :
          /\ status = CASE q.attempted = 0 -> "inactive"
                        [] q.attempted = 1 /\ q.trades = 1 /\ q.op \in {"place", "modify"}
                              -> q.status
                        [] OTHER -> "pending"
          /\ status = "inactive" => q.attempted = 0 \/ q.status = "inactive"
  <2>1. "inactive" \in Order!Status /\ "pending" \in Order!Status BY DEF Order!Status
  <2> QED BY <1>1, <2>1
<1>4. PICK r : r = Order!Recorded(q) OBVIOUS
<1>5. r = [q.own_envelope EXCEPT !.answered = TRUE, !.reconcile = reconcile,
                                 !.status = status]
  BY <1>2, <1>3, <1>4 DEF Order!Recorded
<1>6. /\ r \in Order!Envelope /\ r.answered /\ r.reconcile = reconcile /\ r.status = status
      /\ r.there = q.own_envelope.there
  BY <1>1, <1>5 DEF Order!Envelope
<1>7. b > 0 => reconcile BY <1>2
<1>8. q.attempted = 0 => b = 0 BY <1>1
<1>9. Marked(r, b, q) BY <1>3, <1>6, <1>7, <1>8 DEF Marked
<1> QED BY <1>4, <1>6, <1>9

LEMMA RaisesFits ==
    ASSUME NEW q \in OrderRecord, q.at \in 1..LastStep(q), NEW up, NEW n \in Nat, q.own <= n,
           NEW b \in Nat, NEW e \in Order!Envelope, b > 0 => q.attempted > 0,
           NEW end \in {"failed", "cancelled"},
           e.there => q.op # "exercise", ~e.answered,
           b > 0 /\ q.at \notin Order!Op[q.op].guard => q.lost \/ q.op = "exercise"
    PROVE  LET p == Order!Raises(q, end) IN
           /\ p \in OrderRecord /\ CallFits(p, b, e, up, n)
           /\ p.op = q.op /\ p.at = q.at /\ p.end = end /\ p.st \in {"record", "over"}
<1>1. CASE q.at \in Order!Op[q.op].guard
  <2>1. PICK r : r = Order!Recorded(q) OBVIOUS
  <2>2. r \in Order!Envelope /\ r.answered /\ Marked(r, b, q) BY <2>1, RecordedMarks
  <2>3. PICK p : p = [q EXCEPT !.st = "record", !.end = end, !.own_envelope = r] OBVIOUS
  <2>4. Order!Raises(q, end) = p BY <1>1, <2>1, <2>3 DEF Order!Raises
  <2>5. p \in OrderRecord BY <2>2, <2>3 DEF OrderRecord
  <2>6. /\ p.op = q.op /\ p.at = q.at /\ p.end = end /\ p.st = "record" /\ p.own_envelope = r
        /\ p.attempted = q.attempted /\ p.status = q.status /\ p.own = q.own
    BY <2>3 DEF OrderRecord
  <2>7. q.op # "exercise" BY <1>1, StepsKnown
  <2>8. Marked(p.own_envelope, b, p) BY <2>2, <2>6 DEF Marked
  <2>9. LastStep(p) = LastStep(q) BY <2>6 DEF LastStep
  <2> QED BY <2>4, <2>5, <2>6, <2>7, <2>8, <2>9 DEF CallFits, PreviewFits, Broken
<1>2. CASE q.at \notin Order!Op[q.op].guard
  <2>1. PICK p : p = [q EXCEPT !.st = "over", !.end = end] OBVIOUS
  <2>2. Order!Raises(q, end) = p BY <1>2, <2>1 DEF Order!Raises
  <2>3. p \in OrderRecord BY <2>1 DEF OrderRecord
  <2>4. /\ p.op = q.op /\ p.at = q.at /\ p.end = end /\ p.st = "over" /\ p.lost = q.lost
        /\ p.attempted = q.attempted /\ p.status = q.status /\ p.own = q.own
    BY <2>1 DEF OrderRecord
  <2>5. LastStep(p) = LastStep(q) BY <2>4 DEF LastStep
  <2>6. b > 0 => p.lost \/ p.op = "exercise" BY <1>2, <2>4
  <2>7. ~p.lost /\ e.there => Marked(e, b, p) BY <2>4, <2>6 DEF Marked
  <2> QED BY <2>2, <2>3, <2>4, <2>5, <2>6, <2>7 DEF CallFits, PreviewFits
<1> QED BY <1>1, <1>2

\* An operation goes on to its next step, or ends well.
LEMMA AdvanceFits ==
    ASSUME NEW q \in OrderRecord, q.at \in 1..LastStep(q), NEW up, NEW n \in Nat, q.own <= n,
           q.st = "run", q.end = "none",
           NEW b \in Nat, NEW e \in Order!Envelope, b > 0 => q.attempted > 0,
           e.there => q.op # "exercise",
           e.answered => NextStepOf(q) = "final",
           b > 0 => Late(q) \/ NextStepOf(q) = "send",
           q.op = "preview" /\ b > 0 /\ NextStepOf(q) = "undo" =>
               ~(up /\ q.own = n) \/ q.own_envelope.reconcile,
           q.op = "preview" /\ b > 0 /\ NextStepOf(q) = "final" =>
               ~(up /\ q.own = n) \/ q.lost \/ e.reconcile
    PROVE  LET p == Order!Advance(q) IN
           /\ p \in OrderRecord /\ CallFits(p, b, e, up, n)
           /\ p.op = q.op /\ p.st \in {"run", "over"} /\ p.end \in {"none", "ok"}
           /\ \/ p.at = q.at /\ p.st = "over"
              \/ p.at = q.at + 1
<1> DEFINE step == NextStepOf(q)
<1>1. /\ StepFits(q.op, Order!Op[q.op], q.at) /\ LastStep(q) \in Nat /\ q.at \in Nat
  BY StepsKnown
<1>2. step = "final" => q.at = LastStep(q) BY <1>1 DEF StepFits, NextStepOf, LastStep
<1>3. CASE q.at = LastStep(q)
  <2>1. PICK p : p = [q EXCEPT !.st = "over", !.end = "ok"] OBVIOUS
  <2>2. Order!Advance(q) = p BY <1>3, <2>1 DEF Order!Advance, Order!Steps, LastStep
  <2>3. p \in OrderRecord BY <2>1 DEF OrderRecord
  <2>4. /\ p.op = q.op /\ p.at = q.at /\ p.end = "ok" /\ p.st = "over"
        /\ p.attempted = q.attempted /\ p.own = q.own /\ p.lost = q.lost
    BY <2>1 DEF OrderRecord
  <2>5. LastStep(p) = LastStep(q) BY <2>4 DEF LastStep
  <2>6. q.op = "preview" => step = "final"
    BY <1>1, <1>3 DEF StepFits, NextStepOf, LastStep
  <2> QED BY <2>2, <2>3, <2>4, <2>5, <2>6 DEF CallFits, PreviewFits, Broken
<1>4. CASE q.at # LastStep(q)
  <2>1. PICK p : p = [q EXCEPT !.at = @ + 1] OBVIOUS
  <2>2. Order!Advance(q) = p BY <1>4, <2>1 DEF Order!Advance, Order!Steps, LastStep
  <2>3. p \in OrderRecord BY <1>1, <2>1 DEF OrderRecord
  <2>4. /\ p.op = q.op /\ p.at = q.at + 1 /\ p.end = "none" /\ p.st = "run"
        /\ p.attempted = q.attempted /\ p.own = q.own /\ p.own_envelope = q.own_envelope
    BY <1>1, <2>1 DEF OrderRecord
  <2>5. LastStep(p) = LastStep(q) /\ p.at \in 1..LastStep(p) /\ q.at < LastStep(q)
    BY <1>1, <1>4, <2>4 DEF LastStep
  <2>6. ~e.answered BY <1>2, <1>4
  <2>7. b > 0 => Late(p)
    BY <1>1, <1>2, <1>4, <2>4, <2>5 DEF StepFits, Late, NextStepOf, LastStep
  <2>8. q.op = "preview" /\ NextStepOf(p) = "final" => step = "undo"
    BY <1>1, <2>4, <2>5 DEF StepFits, NextStepOf, LastStep
  <2> QED BY <2>2, <2>3, <2>4, <2>5, <2>6, <2>7, <2>8 DEF CallFits, PreviewFits
<1> QED BY <1>3, <1>4

-----------------------------------------------------------------------------
\* The steps of the calls.

LEMMA CallKnown ==
    ASSUME OrdersInv, NEW c \in OrderCalls
    PROVE  /\ oCall[c] \in OrderRecord /\ oCall[c].at \in 1..LastStep(oCall[c])
           /\ oBroker[c] \in Nat /\ oEnvelope[c] \in Order!Envelope /\ oSession \in Nat
           /\ CallFits(oCall[c], oBroker[c], oEnvelope[c], oUp, oSession)
           /\ KeyFits(c, oCall[c], oBroker[c], oKey)
BY DEF OrdersInv, CallFits

LEMMA AtStep ==
    ASSUME NEW c \in OrderCalls, NEW steps
    PROVE  Order!At(c, steps) <=> oCall[c].st = "run" /\ NextStepOf(oCall[c]) \in steps
BY DEF Order!At, Order!Steps, NextStepOf

\* An exception ends the step of a call.
LEMMA CallBreaks ==
    ASSUME OrdersInv, NEW c \in OrderCalls, NEW p \in OrderRecord,
           NEW end \in {"failed", "cancelled"},
           oCall[c].st \in {"run", "waiting"},
           p.op = oCall[c].op, p.at = oCall[c].at, p.own = oCall[c].own,
           Order!Becomes(c, Order!Raises(p, end)),
           UNCHANGED <<oUp, oSession, oRedis, oEnvelope>>,
           oBroker' \in [OrderCalls -> Nat],
           \A d \in OrderCalls \ {c} : oBroker'[d] = oBroker[d],
           oBroker'[c] = oBroker[c] \/ NextStepOf(p) = "send",
           oBroker'[c] > 0 => p.attempted > 0,
           oBroker'[c] > 0 /\ p.at \notin Order!Op[p.op].guard
               => p.lost \/ p.op = "exercise",
           \/ oKey' = oKey
           \/ oKey = NoCall /\ oKey' = c /\ NextStepOf(p) = "reserve"
    PROVE  OrdersInv'
<1> DEFINE x == oCall[c]
<1>1. /\ x \in OrderRecord /\ x.at \in 1..LastStep(x)
      /\ oEnvelope[c] \in Order!Envelope /\ oSession \in Nat /\ oBroker[c] \in Nat
      /\ CallFits(x, oBroker[c], oEnvelope[c], oUp, oSession)
      /\ KeyFits(c, x, oBroker[c], oKey)
  BY CallKnown
<1> HIDE DEF x
<1>2. p.at \in 1..LastStep(p) /\ NextStepOf(p) = NextStepOf(x)
  BY <1>1 DEF LastStep, NextStepOf, x
<1>3. /\ p.own <= oSession /\ x.st # "over" /\ ~oEnvelope[c].answered
      /\ oEnvelope[c].there => p.op # "exercise"
  BY <1>1 DEF CallFits, x
<1>4. PICK q : q = Order!Raises(p, end) OBVIOUS
<1>5. /\ q \in OrderRecord /\ CallFits(q, oBroker'[c], oEnvelope[c], oUp, oSession)
      /\ q.op = p.op /\ q.at = p.at /\ q.end = end /\ q.st \in {"record", "over"}
  <2>1. oBroker'[c] \in Nat OBVIOUS
  <2> QED BY <1>1, <1>2, <1>3, <1>4, <2>1, RaisesFits
<1>6. KeyFits(c, q, oBroker'[c], oKey)
  <2>1. oBroker'[c] = 0 \/ oBroker[c] > 0 \/ NextStepOf(x) # "reserve" BY <1>1, <1>2
  <2>2. q.op = x.op /\ q.at = x.at /\ q.st # "waiting" /\ q.end # "replayed" BY <1>5 DEF x
  <2>3. oBroker'[c] \in Nat OBVIOUS
  <2> QED BY <1>1, <1>3, <1>5, <2>1, <2>2, <2>3, KeyKept
<1>7. KeyFits(c, q, oBroker'[c], oKey')
  <2>1. NoCall \notin OrderCalls BY PartsAssumption DEF Order!OrdersAssumption
  <2>2. CASE oKey' = oKey BY <1>6, <2>2
  <2>3. CASE oKey = NoCall /\ oKey' = c /\ NextStepOf(p) = "reserve"
    <3>1. p.at \notin Order!Op[p.op].guard
      BY <1>2, <2>3, StepsKnown DEF StepFits, NextStepOf
    <3>2. PICK r : r = [p EXCEPT !.st = "over", !.end = end] OBVIOUS
    <3>3. r.st = "over" BY <3>2 DEF OrderRecord
    <3>4. q.st = "over" BY <1>4, <3>1, <3>2, <3>3 DEF Order!Raises
    <3> QED BY <1>5, <2>3, <3>4 DEF KeyFits
  <2> QED BY <2>2, <2>3
<1>8. oRedis' \in BOOLEAN BY DEF OrdersInv
<1>9. oEnvelope' \in [OrderCalls -> Order!Envelope] BY DEF OrdersInv
<1> QED BY <1>4, <1>5, <1>7, <1>8, <1>9, OneCallMoves

LEMMA CallFails ==
    ASSUME OrdersInv, NEW c \in OrderCalls, NEW p \in OrderRecord,
           NEW end \in {"failed", "cancelled"},
           oCall[c].st \in {"run", "waiting"},
           p.op = oCall[c].op, p.at = oCall[c].at, p.own = oCall[c].own,
           p.attempted >= oCall[c].attempted,
           Order!Becomes(c, Order!Raises(p, end)), UNCHANGED Order!World,
           NextStepOf(p) # "undo", NextStepOf(p) = "final" => p.lost
    PROVE  OrdersInv'
<1>1. /\ oCall[c] \in OrderRecord /\ oBroker[c] \in Nat
      /\ CallFits(oCall[c], oBroker[c], oEnvelope[c], oUp, oSession)
  BY CallKnown
<1>2. UNCHANGED <<oUp, oSession, oRedis, oKey, oEnvelope, oBroker>> BY DEF Order!World
<1>3. oBroker' \in [OrderCalls -> Nat] BY <1>2 DEF OrdersInv
<1>4. oBroker'[c] > 0 => p.attempted > 0 BY <1>1, <1>2 DEF CallFits, OrderRecord
<1>5. oBroker'[c] > 0 /\ p.at \notin Order!Op[p.op].guard => p.lost
  BY <1>1, <1>2 DEF CallFits, Late, NextStepOf
<1> QED BY <1>2, <1>3, <1>4, <1>5, CallBreaks

\* A call goes on to its next step.
LEMMA CallAdvances ==
    ASSUME OrdersInv, NEW c \in OrderCalls, NEW p \in OrderRecord,
           oCall[c].st = "run", p.st = "run", p.end = "none",
           p.op = oCall[c].op, p.at = oCall[c].at, p.own <= oSession,
           Order!Becomes(c, Order!Advance(p)), UNCHANGED <<oUp, oSession, oRedis>>,
           oBroker' \in [OrderCalls -> Nat], oEnvelope' \in [OrderCalls -> Order!Envelope],
           \A d \in OrderCalls \ {c} : oBroker'[d] = oBroker[d] /\ oEnvelope'[d] = oEnvelope[d],
           oBroker'[c] > 0 => p.attempted > 0,
           oBroker'[c] > 0 => oBroker[c] > 0 \/ NextStepOf(p) = "send",
           oEnvelope'[c].there => p.op # "exercise",
           oEnvelope'[c].answered => NextStepOf(p) = "final",
           p.op = "preview" /\ oBroker'[c] > 0 /\ NextStepOf(p) = "undo"
               => ~(oUp /\ p.own = oSession) \/ p.own_envelope.reconcile,
           p.op = "preview" /\ oBroker'[c] > 0 /\ NextStepOf(p) = "final"
               => ~(oUp /\ p.own = oSession) \/ p.lost \/ oEnvelope'[c].reconcile,
           \/ oKey' = oKey /\ NextStepOf(p) # "reserve"
           \/ oKey = NoCall /\ oKey' = c
    PROVE  OrdersInv'
<1> DEFINE x == oCall[c]
<1>1. /\ x \in OrderRecord /\ x.at \in 1..LastStep(x)
      /\ oSession \in Nat /\ oBroker[c] \in Nat
      /\ CallFits(x, oBroker[c], oEnvelope[c], oUp, oSession)
      /\ KeyFits(c, x, oBroker[c], oKey)
  BY CallKnown
<1> HIDE DEF x
<1>2. p.at \in 1..LastStep(p) /\ NextStepOf(p) = NextStepOf(x) /\ (Late(p) <=> Late(x))
  BY <1>1 DEF LastStep, NextStepOf, Late, x
<1>3. ~oEnvelope[c].answered /\ (oBroker[c] > 0 => Late(p)) /\ x.st = "run"
  BY <1>1, <1>2 DEF CallFits, x
<1>4. PICK q : q = Order!Advance(p) OBVIOUS
<1>5. /\ q \in OrderRecord /\ CallFits(q, oBroker'[c], oEnvelope'[c], oUp, oSession)
      /\ q.op = p.op /\ q.st \in {"run", "over"} /\ q.end \in {"none", "ok"}
      /\ (q.at = p.at /\ q.st = "over") \/ q.at = p.at + 1
  <2>1. oBroker'[c] \in Nat /\ oEnvelope'[c] \in Order!Envelope OBVIOUS
  <2>2. oBroker'[c] > 0 => Late(p) \/ NextStepOf(p) = "send" BY <1>3
  <2> QED BY <1>1, <1>2, <1>4, <2>1, <2>2, AdvanceFits
<1>6. KeyFits(c, q, oBroker'[c], oKey')
  <2>1. CASE oKey' = oKey /\ NextStepOf(p) # "reserve"
    <3>1. q.op = x.op /\ q.st # "waiting" /\ q.end # "replayed"
          /\ (q.at = x.at \/ (q.at = x.at + 1 /\ NextStepOf(x) # "reserve"))
      BY <1>2, <1>5, <2>1 DEF x
    <3>2. oBroker'[c] \in Nat /\ NextStepOf(x) # "reserve" /\ x.st # "over"
      BY <1>2, <1>3, <2>1
    <3>3. KeyFits(c, q, oBroker'[c], oKey) BY <1>1, <1>5, <3>1, <3>2, KeyKept
    <3> QED BY <2>1, <3>3
  <2>2. CASE oKey = NoCall /\ oKey' = c
    <3>1. p.at \in Nat /\ p.at >= 1 BY <1>2 DEF OrderRecord
    <3>2. q.at > 1 \/ q.st = "over" BY <1>5, <3>1
    <3> QED BY <1>5, <2>2, <3>2 DEF KeyFits
  <2> QED BY <2>1, <2>2
<1>7. oRedis' \in BOOLEAN BY DEF OrdersInv
<1>8. oKey' = oKey \/ (oKey = NoCall /\ oKey' = c) OBVIOUS
<1> QED BY <1>3, <1>4, <1>5, <1>6, <1>7, <1>8, OneCallMoves

LEMMA CallGoesOn ==
    ASSUME OrdersInv, NEW c \in OrderCalls, NEW p \in OrderRecord,
           oCall[c].st = "run", p.st = "run", p.end = "none",
           p.op = oCall[c].op, p.at = oCall[c].at, p.own <= oSession,
           p.attempted >= oCall[c].attempted,
           Order!Becomes(c, Order!Advance(p)), UNCHANGED Order!World,
           NextStepOf(p) \notin {"reserve", "undo", "final"}
    PROVE  OrdersInv'
<1>1. /\ oCall[c] \in OrderRecord /\ oBroker[c] \in Nat
      /\ CallFits(oCall[c], oBroker[c], oEnvelope[c], oUp, oSession)
  BY CallKnown
<1>2. UNCHANGED <<oUp, oSession, oRedis, oKey, oEnvelope, oBroker>> BY DEF Order!World
<1>3. oBroker' \in [OrderCalls -> Nat] /\ oEnvelope' \in [OrderCalls -> Order!Envelope]
  BY <1>2 DEF OrdersInv
<1>4. oBroker'[c] > 0 => p.attempted > 0 BY <1>1, <1>2 DEF CallFits, OrderRecord
<1>5. (oEnvelope'[c].there => p.op # "exercise") /\ ~oEnvelope'[c].answered
  BY <1>1, <1>2 DEF CallFits
<1> QED BY <1>2, <1>3, <1>4, <1>5, CallAdvances

\* The steps that look, wait and decide, and those that fail on the way.
LEMMA OrdersPrepare ==
    ASSUME OrdersInv, NEW c \in OrderCalls,
           \/ Order!Connect(c) \/ Order!Asks(c) \/ Order!Looks(c) \/ Order!Waits(c)
           \/ Order!SendRefused(c) \/ Order!SendsCancel(c) \/ Order!StatusKnown(c)
           \/ Order!Checked(c)
    PROVE  OrdersInv'
<1> DEFINE x == oCall[c]
           step == NextStepOf(x)
<1>1. x \in OrderRecord /\ oSession \in Nat /\ x.own <= oSession
  BY CallKnown DEF CallFits
<1>2. /\ x.st = "run" => x.end = "none"
      /\ x.attempted \in Nat /\ x.trades \in Nat
  BY <1>1, CallKnown DEF CallFits, OrderRecord
<1>3. \A steps : Order!At(c, steps) <=> x.st = "run" /\ step \in steps BY AtStep
<1> HIDE DEF x
<1>4. ASSUME x.st = "run", step \notin {"undo", "final"}, UNCHANGED Order!World,
             Order!Becomes(c, Order!Raises(x, "failed"))
      PROVE  OrdersInv'
  <2>1. x.attempted >= oCall[c].attempted BY <1>2 DEF x
  <2> QED BY <1>1, <1>4, <2>1, CallFails DEF x
<1>5. ASSUME x.st = "run", step \notin {"reserve", "undo", "final"}, UNCHANGED Order!World,
             Order!Becomes(c, Order!Advance(x))
      PROVE  OrdersInv'
  <2>1. x.attempted >= oCall[c].attempted BY <1>2 DEF x
  <2> QED BY <1>1, <1>2, <1>5, <2>1, CallGoesOn DEF x
<1>6. CASE Order!Connect(c)
  <2>1. x.st = "run" /\ step = "connect" BY <1>3, <1>6 DEF Order!Connect
  <2>2. CASE oUp
    <3>1. PICK p : p = [x EXCEPT !.own = oSession] OBVIOUS
    <3>2. Order!Becomes(c, Order!Advance(p)) /\ UNCHANGED Order!World
      BY <1>6, <2>2, <3>1 DEF Order!Connect, x
    <3>3. p \in OrderRecord BY <1>1, <3>1 DEF OrderRecord
    <3>4. /\ p.st = "run" /\ p.end = "none" /\ p.op = x.op /\ p.at = x.at
          /\ p.own = oSession /\ p.attempted = x.attempted
      BY <1>1, <1>2, <2>1, <3>1 DEF OrderRecord
    <3>5. NextStepOf(p) = "connect" BY <2>1, <3>4 DEF NextStepOf
    <3>6. p.own <= oSession /\ p.attempted >= x.attempted BY <1>1, <1>2, <3>4
    <3> QED BY <2>1, <3>2, <3>3, <3>4, <3>5, <3>6, CallGoesOn DEF x
  <2>3. CASE ~oUp
    <3>1. Order!Becomes(c, Order!Raises(x, "failed")) /\ UNCHANGED Order!World
      BY <1>6, <2>3 DEF Order!Connect, x
    <3> QED BY <1>4, <2>1, <3>1
  <2> QED BY <2>2, <2>3
<1>7. CASE Order!Asks(c)
  <2>1. x.st = "run" /\ step \in {"ask", "ask?"} BY <1>3, <1>7 DEF Order!Asks
  <2>2. CASE Order!Becomes(c, Order!Advance(x)) BY <1>5, <1>7, <2>1, <2>2 DEF Order!Asks
  <2>3. CASE Order!Becomes(c, Order!Raises(x, "failed"))
    BY <1>4, <1>7, <2>1, <2>3 DEF Order!Asks
  <2>4. CASE Order!Becomes(c, Order!Advance([x EXCEPT !.refused = TRUE]))
    <3>1. PICK p : p = [x EXCEPT !.refused = TRUE] OBVIOUS
    <3>2. Order!Becomes(c, Order!Advance(p)) /\ UNCHANGED Order!World
      BY <1>7, <2>4, <3>1 DEF Order!Asks
    <3>3. p \in OrderRecord BY <1>1, <3>1 DEF OrderRecord
    <3>4. /\ p.st = "run" /\ p.end = "none" /\ p.op = x.op /\ p.at = x.at
          /\ p.own = x.own /\ p.attempted = x.attempted
      BY <1>1, <1>2, <2>1, <3>1 DEF OrderRecord
    <3>5. NextStepOf(p) = step BY <3>4 DEF NextStepOf
    <3>6. p.own <= oSession /\ p.attempted >= x.attempted BY <1>1, <1>2, <3>4
    <3> QED BY <2>1, <3>2, <3>3, <3>4, <3>5, <3>6, CallGoesOn DEF x
  <2> QED BY <1>7, <2>2, <2>3, <2>4 DEF Order!Asks, x
<1>8. CASE Order!Looks(c)
  <2>1. x.st = "run" /\ step = "look" BY <1>3, <1>8 DEF Order!Looks
  <2>2. \/ Order!Becomes(c, Order!Advance(x))
        \/ Order!Becomes(c, Order!Raises(x, "failed"))
    BY <1>8 DEF Order!Looks, x
  <2>3. UNCHANGED Order!World BY <1>8 DEF Order!Looks
  <2> QED BY <1>4, <1>5, <2>1, <2>2, <2>3
<1>9. CASE Order!Waits(c)
  <2>1. x.st = "run" /\ step \in {"slot", "wait", "archive"}
    BY <1>3, <1>9 DEF Order!Waits
  <2>2. \/ Order!Becomes(c, Order!Advance(x))
        \/ Order!Becomes(c, Order!Raises(x, "failed"))
    BY <1>9 DEF Order!Waits, x
  <2>3. UNCHANGED Order!World BY <1>9 DEF Order!Waits
  <2> QED BY <1>4, <1>5, <2>1, <2>2, <2>3
<1>10. CASE Order!SendRefused(c)
  <2>1. x.st = "run" /\ step \in {"send", "cancel", "check"}
    BY <1>3, <1>10 DEF Order!SendRefused
  <2>2. Order!Becomes(c, Order!Raises(x, "failed")) /\ UNCHANGED Order!World
    BY <1>10 DEF Order!SendRefused, x
  <2> QED BY <1>4, <2>1, <2>2
<1>11. CASE Order!SendsCancel(c)
  <2>1. x.st = "run" /\ step = "cancel" BY <1>3, <1>11 DEF Order!SendsCancel
  <2>2. UNCHANGED Order!World BY <1>11 DEF Order!SendsCancel
  <2>3. CASE Order!Becomes(c, Order!Advance([x EXCEPT !.attempted = @ + 1]))
    <3>1. PICK p : p = [x EXCEPT !.attempted = @ + 1] OBVIOUS
    <3>2. p \in OrderRecord BY <1>1, <1>2, <3>1 DEF OrderRecord
    <3>3. /\ p.st = "run" /\ p.end = "none" /\ p.op = x.op /\ p.at = x.at
          /\ p.own = x.own /\ p.attempted = x.attempted + 1
      BY <1>1, <1>2, <2>1, <3>1 DEF OrderRecord
    <3>4. NextStepOf(p) = step BY <3>3 DEF NextStepOf
    <3>5. p.own <= oSession /\ p.attempted >= x.attempted BY <1>1, <1>2, <3>3
    <3>6. Order!Becomes(c, Order!Advance(p)) BY <2>3, <3>1
    <3> QED BY <2>1, <2>2, <3>2, <3>3, <3>4, <3>5, <3>6, CallGoesOn DEF x
  <2>4. CASE Order!Becomes(c, Order!Raises([x EXCEPT !.attempted = @ + 1, !.trades = @ + 1],
                                           "failed"))
    <3>1. PICK p : p = [x EXCEPT !.attempted = @ + 1, !.trades = @ + 1] OBVIOUS
    <3>2. p \in OrderRecord
      <4>1. x.attempted + 1 \in Nat /\ x.trades + 1 \in Nat BY <1>2
      <4> QED BY <1>1, <3>1, <4>1 DEF OrderRecord
    <3>3. p.op = x.op /\ p.at = x.at /\ p.own = x.own /\ p.attempted = x.attempted + 1
      BY <1>1, <1>2, <2>1, <3>1 DEF OrderRecord
    <3>4. NextStepOf(p) = step BY <3>3 DEF NextStepOf
    <3>5. p.attempted >= x.attempted BY <1>2, <3>3
    <3>6. Order!Becomes(c, Order!Raises(p, "failed")) BY <2>4, <3>1
    <3> QED BY <2>1, <2>2, <3>2, <3>3, <3>4, <3>5, <3>6, CallFails DEF x
  <2> QED BY <1>11, <2>3, <2>4 DEF Order!SendsCancel, x
<1>12. CASE Order!StatusKnown(c)
  <2>1. x.st = "run" /\ step = "status" BY <1>3, <1>12 DEF Order!StatusKnown
  <2>2. Order!Becomes(c, Order!Advance(x)) /\ UNCHANGED Order!World
    BY <1>12 DEF Order!StatusKnown, x
  <2> QED BY <1>5, <2>1, <2>2
<1>13. CASE Order!Checked(c)
  <2>1. x.st = "run" /\ step = "check" BY <1>3, <1>13 DEF Order!Checked
  <2>2. Order!Becomes(c, Order!Advance(x)) /\ UNCHANGED Order!World
    BY <1>13 DEF Order!Checked, x
  <2> QED BY <1>5, <2>1, <2>2
<1> QED BY <1>6, <1>7, <1>8, <1>9, <1>10, <1>11, <1>12, <1>13

\* An order that is refused before anything of it was sent.
LEMMA OrdersAreRejected ==
    ASSUME OrdersInv, NEW c \in OrderCalls, Order!Qualified(c) \/ Order!Decides(c)
    PROVE  OrdersInv'
<1> DEFINE x == oCall[c]
           step == NextStepOf(x)
<1>1. /\ x \in OrderRecord /\ x.at \in 1..LastStep(x) /\ oSession \in Nat
      /\ oBroker[c] \in Nat /\ oEnvelope[c] \in Order!Envelope
      /\ CallFits(x, oBroker[c], oEnvelope[c], oUp, oSession)
      /\ KeyFits(c, x, oBroker[c], oKey)
  BY CallKnown
<1>2. \A steps : Order!At(c, steps) <=> x.st = "run" /\ step \in steps BY AtStep
<1>3. UNCHANGED <<oUp, oSession, oRedis, oKey, oEnvelope, oBroker>> /\ UNCHANGED Order!World
  BY DEF Order!Qualified, Order!Decides, Order!World
<1>4. x.st = "run" /\ step \in {"qualified", "terminal", "known"}
  BY <1>2 DEF Order!Qualified, Order!Decides
<1>5. /\ \/ Order!Becomes(c, Order!Advance(x))
         \/ Order!Becomes(c, Order!Raises(x, "failed"))
         \/ step \in {"qualified", "terminal"} /\ \E status \in Order!Status :
               Order!Becomes(c, [x EXCEPT !.st = "record", !.end = "rejected",
                                  !.own_envelope.answered = TRUE,
                                  !.own_envelope.status = status])
  <2>1. {"pending", "cancelled", "inactive"} \subseteq Order!Status BY DEF Order!Status
  <2> QED BY <1>2, <2>1 DEF Order!Qualified, Order!Decides
<1>6. x.own <= oSession /\ x.end = "none" /\ x.attempted >= x.attempted
  BY <1>1, <1>4 DEF CallFits, OrderRecord
<1>7. CASE Order!Becomes(c, Order!Advance(x))
  BY <1>1, <1>3, <1>4, <1>6, <1>7, CallGoesOn
<1>8. CASE Order!Becomes(c, Order!Raises(x, "failed"))
  BY <1>1, <1>3, <1>4, <1>6, <1>8, CallFails
<1>9. ASSUME step \in {"qualified", "terminal"}, NEW status \in Order!Status,
             Order!Becomes(c, [x EXCEPT !.st = "record", !.end = "rejected",
                                !.own_envelope.answered = TRUE,
                                !.own_envelope.status = status])
      PROVE  OrdersInv'
  <2>1. x.op # "exercise" /\ x.at \notin Order!Op[x.op].guard
    BY <1>1, <1>9, StepsKnown DEF StepFits, NextStepOf
  <2>2. oBroker[c] = 0 BY <1>1, <1>4, <1>9, <2>1 DEF CallFits, Late
  <2>3. PICK e : e = [x.own_envelope EXCEPT !.answered = TRUE, !.status = status] OBVIOUS
  <2>4. x.own_envelope \in Order!Envelope BY <1>1 DEF OrderRecord
  <2>5. e \in Order!Envelope BY <2>3, <2>4 DEF Order!Envelope
  <2>6. PICK q : q = [x EXCEPT !.st = "record", !.end = "rejected", !.own_envelope = e]
    OBVIOUS
  <2>7. q = [x EXCEPT !.st = "record", !.end = "rejected", !.own_envelope.answered = TRUE,
                      !.own_envelope.status = status]
    BY <1>1, <2>3, <2>4, <2>6 DEF OrderRecord, Order!Envelope
  <2>8. q \in OrderRecord BY <1>1, <2>5, <2>6 DEF OrderRecord
  <2>9. /\ q.st = "record" /\ q.end = "rejected" /\ q.op = x.op /\ q.at = x.at
        /\ q.own = x.own
    BY <1>1, <2>6 DEF OrderRecord
  <2>10. q.at \in 1..LastStep(q) BY <1>1, <2>9 DEF LastStep
  <2>11. ~oEnvelope[c].answered /\ (oEnvelope[c].there => x.op # "exercise")
    BY <1>1, <1>4 DEF CallFits
  <2>12. CallFits(q, oBroker[c], oEnvelope[c], oUp, oSession)
    BY <1>1, <1>6, <2>1, <2>2, <2>8, <2>9, <2>10, <2>11
    DEF CallFits, PreviewFits, Marked, Broken
  <2>13. KeyFits(c, q, oBroker[c], oKey)
    <3>1. q.op = x.op /\ q.at = x.at /\ q.st # "waiting" /\ q.end # "replayed"
          /\ x.st # "over" /\ oBroker[c] = 0
      BY <1>4, <2>2, <2>9
    <3> QED BY <1>1, <2>8, <3>1, KeyKept
  <2>14. Order!Becomes(c, q) BY <1>9, <2>7
  <2>15. oBroker' \in [OrderCalls -> Nat] /\ oEnvelope' \in [OrderCalls -> Order!Envelope]
         /\ oRedis' \in BOOLEAN
    BY <1>3 DEF OrdersInv
  <2> QED BY <1>3, <2>8, <2>9, <2>12, <2>13, <2>14, <2>15, OneCallMoves
<1> QED BY <1>5, <1>7, <1>8, <1>9

\* The key, and those who wait for its answer.
LEMMA OrdersReserve ==
    ASSUME OrdersInv, NEW c \in OrderCalls,
           Order!Reserve(c) \/ Order!ReserveFails(c) \/ Order!Replay(c)
    PROVE  OrdersInv'
<1> DEFINE x == oCall[c]
           step == NextStepOf(x)
<1>1. /\ x \in OrderRecord /\ x.at \in 1..LastStep(x) /\ oSession \in Nat
      /\ oBroker[c] \in Nat /\ oEnvelope[c] \in Order!Envelope
      /\ CallFits(x, oBroker[c], oEnvelope[c], oUp, oSession)
      /\ KeyFits(c, x, oBroker[c], oKey)
  BY CallKnown
<1>2. \A steps : Order!At(c, steps) <=> x.st = "run" /\ step \in steps BY AtStep
<1>3. /\ oBroker \in [OrderCalls -> Nat] /\ oEnvelope \in [OrderCalls -> Order!Envelope]
      /\ oRedis \in BOOLEAN /\ oKey \in OrderCalls \cup {NoCall}
  BY DEF OrdersInv
<1>4. UNCHANGED <<oUp, oSession, oRedis, oEnvelope, oBroker>>
  BY DEF Order!Reserve, Order!ReserveFails, Order!Replay, Order!World
<1>5. x.st \in {"run", "waiting"} /\ step = "reserve"
  BY <1>1, <1>2 DEF Order!Reserve, Order!ReserveFails, Order!Replay, CallFits
<1>6. x.op = "place" /\ x.at = 1 /\ x.at \notin Order!Op[x.op].guard
  BY <1>1, <1>5, StepsKnown DEF StepFits, NextStepOf
<1>7. /\ oBroker[c] = 0 /\ x.own <= oSession /\ x.end = "none"
      /\ ~oEnvelope[c].answered /\ oKey # c
  BY <1>1, <1>5, <1>6 DEF CallFits, Late, KeyFits
<1>8. \* Its record changes in st and end alone.
      ASSUME NEW q \in OrderRecord, q.op = x.op, q.at = x.at, q.own = x.own,
             \/ q.st = "waiting" /\ q.end = "none" /\ oKey \in OrderCalls
             \/ q.st = "over" /\ q.end = "failed"
             \/ q.st = "over" /\ q.end = "replayed" /\ oKey \in OrderCalls
                  /\ oEnvelope[oKey].answered,
             Order!Becomes(c, q), oKey' = oKey
      PROVE  OrdersInv'
  <2>1. q.at \in 1..LastStep(q) /\ NextStepOf(q) = step BY <1>1, <1>8 DEF LastStep, NextStepOf
  <2>2. CallFits(q, oBroker[c], oEnvelope[c], oUp, oSession)
    BY <1>1, <1>5, <1>6, <1>7, <1>8, <2>1 DEF CallFits, PreviewFits, Marked, Broken
  <2>3. KeyFits(c, q, oBroker[c], oKey) BY <1>1, <1>6, <1>7, <1>8 DEF KeyFits
  <2> QED BY <1>3, <1>4, <1>7, <1>8, <2>2, <2>3, OneCallMoves
<1>9. CASE Order!Reserve(c)
  <2>1. CASE oKey = NoCall
    <3>1. oKey' = c /\ Order!Becomes(c, Order!Advance(x))
      BY <1>9, <2>1 DEF Order!Reserve, x
    <3>2. x.st = "run" BY <1>2, <1>9 DEF Order!Reserve
    <3>3. oEnvelope'[c].there => x.op # "exercise" BY <1>6
    <3> QED BY <1>1, <1>3, <1>4, <1>5, <1>6, <1>7, <2>1, <3>1, <3>2, <3>3, CallAdvances
  <2>2. CASE oKey # NoCall
    <3>1. oKey' = oKey /\ Order!Becomes(c, [x EXCEPT !.st = "waiting"])
      BY <1>9, <2>2 DEF Order!Reserve, x
    <3>2. PICK q : q = [x EXCEPT !.st = "waiting"] OBVIOUS
    <3>3. q \in OrderRecord BY <1>1, <3>2 DEF OrderRecord
    <3>4. /\ q.op = x.op /\ q.at = x.at /\ q.own = x.own /\ q.st = "waiting"
          /\ q.end = "none"
      BY <1>1, <1>7, <3>2 DEF OrderRecord
    <3> QED BY <1>3, <1>8, <2>2, <3>1, <3>2, <3>3, <3>4
  <2> QED BY <2>1, <2>2
<1>10. CASE Order!ReserveFails(c)
  <2>1. /\ Order!Becomes(c, Order!Raises(x, "failed"))
        /\ oKey' = oKey \/ (oKey = NoCall /\ oKey' = c)
    BY <1>10 DEF Order!ReserveFails, x
  <2>2. ~(oBroker'[c] > 0) BY <1>4, <1>7
  <2> QED BY <1>1, <1>3, <1>4, <1>5, <2>1, <2>2, CallBreaks
<1>11. CASE Order!Replay(c)
  <2>1. oKey' = oKey /\ x.st = "waiting" BY <1>11 DEF Order!Replay, Order!World, x
  <2>2. oKey \in OrderCalls BY <1>1, <2>1 DEF KeyFits
  <2>3. CASE oRedis /\ oEnvelope[oKey].answered
    <3>1. PICK q : q = [x EXCEPT !.st = "over", !.end = "replayed"] OBVIOUS
    <3>2. q \in OrderRecord BY <1>1, <3>1 DEF OrderRecord
    <3>3. /\ q.op = x.op /\ q.at = x.at /\ q.own = x.own /\ q.st = "over"
          /\ q.end = "replayed"
      BY <1>1, <3>1 DEF OrderRecord
    <3>4. Order!Becomes(c, q) BY <1>11, <2>3, <3>1 DEF Order!Replay, x
    <3> QED BY <1>8, <2>1, <2>2, <2>3, <3>2, <3>3, <3>4
  <2>4. CASE ~(oRedis /\ oEnvelope[oKey].answered)
    <3>1. PICK q : q = [x EXCEPT !.st = "over", !.end = "failed"] OBVIOUS
    <3>2. q \in OrderRecord BY <1>1, <3>1 DEF OrderRecord
    <3>3. /\ q.op = x.op /\ q.at = x.at /\ q.own = x.own /\ q.st = "over"
          /\ q.end = "failed"
      BY <1>1, <3>1 DEF OrderRecord
    <3>4. Order!Becomes(c, q) BY <1>11, <2>4, <3>1 DEF Order!Replay, x
    <3> QED BY <1>8, <2>1, <3>2, <3>3, <3>4
  <2> QED BY <2>3, <2>4
<1> QED BY <1>9, <1>10, <1>11

\* An order goes out, and placeOrder returns or raises.
LEMMA OrdersSend ==
    ASSUME OrdersInv, NEW c \in OrderCalls, Order!Sends(c) \/ Order!SendRaises(c)
    PROVE  OrdersInv'
<1> DEFINE x == oCall[c]
           step == NextStepOf(x)
<1>1. /\ x \in OrderRecord /\ x.at \in 1..LastStep(x) /\ oSession \in Nat
      /\ oBroker[c] \in Nat /\ oEnvelope[c] \in Order!Envelope
      /\ CallFits(x, oBroker[c], oEnvelope[c], oUp, oSession)
  BY CallKnown
<1>2. \A steps : Order!At(c, steps) <=> x.st = "run" /\ step \in steps BY AtStep
<1>3. /\ oBroker \in [OrderCalls -> Nat] /\ oEnvelope \in [OrderCalls -> Order!Envelope]
  BY DEF OrdersInv
<1>4. UNCHANGED <<oUp, oSession, oRedis, oKey, oEnvelope>>
  BY DEF Order!Sends, Order!SendRaises
<1>5. x.st = "run" /\ step = "send" BY <1>2 DEF Order!Sends, Order!SendRaises
<1>6. x.at \in Order!Op[x.op].guard \/ x.op = "exercise"
  BY <1>1, <1>5, StepsKnown DEF StepFits, NextStepOf
<1>7. /\ x.own <= oSession /\ x.end = "none" /\ ~oEnvelope[c].answered
      /\ oEnvelope[c].there => x.op # "exercise"
  BY <1>1, <1>5 DEF CallFits
<1>8. x.attempted + 1 \in Nat /\ x.trades + 1 \in Nat /\ x.attempted + 1 > 0
      /\ oBroker[c] + 1 \in Nat
  BY <1>1 DEF OrderRecord
<1>9. /\ oBroker' \in [OrderCalls -> Nat]
      /\ \A d \in OrderCalls \ {c} : oBroker'[d] = oBroker[d]
  BY <1>3, <1>8 DEF Order!Sends, Order!SendRaises, Order!Arrives
<1>10. CASE Order!Sends(c)
  <2>1. PICK p : p = [x EXCEPT !.attempted = @ + 1, !.trades = @ + 1] OBVIOUS
  <2>2. p \in OrderRecord BY <1>1, <1>8, <2>1 DEF OrderRecord
  <2>3. /\ p.st = "run" /\ p.end = "none" /\ p.op = x.op /\ p.at = x.at
        /\ p.own = x.own /\ p.attempted = x.attempted + 1
    BY <1>1, <1>5, <1>7, <2>1 DEF OrderRecord
  <2>4. NextStepOf(p) = "send" BY <1>5, <2>3 DEF NextStepOf
  <2>5. Order!Becomes(c, Order!Advance(p)) BY <1>10, <2>1 DEF Order!Sends
  <2>6. p.own <= oSession /\ p.attempted > 0 BY <1>7, <1>8, <2>3
  <2>7. oEnvelope' \in [OrderCalls -> Order!Envelope] /\ ~oEnvelope'[c].answered
        /\ (oEnvelope'[c].there => p.op # "exercise")
    BY <1>3, <1>4, <1>7, <2>3
  <2> QED BY <1>4, <1>5, <1>9, <2>2, <2>3, <2>4, <2>5, <2>6, <2>7, CallAdvances
<1>11. CASE Order!SendRaises(c)
  <2>1. PICK p : p = [x EXCEPT !.attempted = @ + 1] OBVIOUS
  <2>2. p \in OrderRecord BY <1>1, <1>8, <2>1 DEF OrderRecord
  <2>3. p.op = x.op /\ p.at = x.at /\ p.own = x.own /\ p.attempted = x.attempted + 1
    BY <1>1, <2>1 DEF OrderRecord
  <2>4. NextStepOf(p) = "send" BY <1>5, <2>3 DEF NextStepOf
  <2>5. Order!Becomes(c, Order!Raises(p, "failed")) BY <1>11, <2>1 DEF Order!SendRaises
  <2>6. p.attempted > 0 /\ (p.at \notin Order!Op[p.op].guard => p.op = "exercise")
    BY <1>6, <1>8, <2>3
  <2> QED BY <1>4, <1>5, <1>9, <2>2, <2>3, <2>4, <2>5, <2>6, CallBreaks
<1> QED BY <1>10, <1>11

\* The envelope of an operation, on its way and with its answer.
LEMMA OrdersWrite ==
    ASSUME OrdersInv, NEW c \in OrderCalls, Order!Writes(c)
    PROVE  OrdersInv'
<1> DEFINE x == oCall[c]
           step == NextStepOf(x)
           last == Order!At(c, {"final"})
<1>1. /\ x \in OrderRecord /\ x.at \in 1..LastStep(x) /\ oSession \in Nat
      /\ oBroker[c] \in Nat /\ oEnvelope[c] \in Order!Envelope
      /\ CallFits(x, oBroker[c], oEnvelope[c], oUp, oSession)
  BY CallKnown
<1>2. \A steps : Order!At(c, steps) <=> x.st = "run" /\ step \in steps BY AtStep
<1>3. x.st = "run" /\ step \in {"write", "final"} /\ (last <=> step = "final")
  BY <1>2 DEF Order!Writes
<1>4. /\ oBroker \in [OrderCalls -> Nat] /\ oEnvelope \in [OrderCalls -> Order!Envelope]
      /\ oRedis \in BOOLEAN
  BY DEF OrdersInv
<1>5. UNCHANGED <<oUp, oSession, oRedis, oKey, oBroker>> BY DEF Order!Writes
<1>6. /\ x.own <= oSession /\ x.end = "none" /\ x.op # "exercise"
      /\ ~oEnvelope[c].answered
      /\ oBroker[c] > 0 => x.attempted > 0
  <2>1. x.op # "exercise" BY <1>1, <1>3, StepsKnown DEF StepFits, NextStepOf
  <2> QED BY <1>1, <1>3, <2>1 DEF CallFits
<1>7. PICK answered \in BOOLEAN : answered = last /\ (answered <=> step = "final")
  <2>1. last \in BOOLEAN BY DEF Order!At
  <2> QED BY <1>3, <2>1
<1>8. PICK lost \in BOOLEAN : lost = (last /\ ~oRedis)
  <2>1. (last /\ ~oRedis) \in BOOLEAN OBVIOUS
  <2> QED BY <2>1
<1>9. x.own_envelope \in Order!Envelope BY <1>1 DEF OrderRecord
<1>10. PICK status \in Order!Status :
          status = IF last THEN Order!Final(x) ELSE x.own_envelope.status
  <2>1. Order!Final(x) \in Order!Status BY <1>1 DEF Order!Final, Order!Status, OrderRecord
  <2>2. x.own_envelope.status \in Order!Status BY <1>9 DEF Order!Envelope
  <2> QED BY <2>1, <2>2
<1>11. PICK w : w = [x.own_envelope EXCEPT !.answered = answered, !.status = status] OBVIOUS
<1>12. /\ w \in Order!Envelope /\ w.answered = answered
       /\ w.reconcile = x.own_envelope.reconcile
  BY <1>9, <1>11 DEF Order!Envelope
<1>13. w = [x.own_envelope EXCEPT !.answered = last,
                                  !.status = IF last THEN Order!Final(x) ELSE @]
  BY <1>7, <1>9, <1>10, <1>11 DEF Order!Envelope
<1>14. PICK p : p = [x EXCEPT !.own_envelope = w, !.lost = lost] OBVIOUS
<1>15. p \in OrderRecord BY <1>1, <1>12, <1>14 DEF OrderRecord
<1>16. /\ p.st = "run" /\ p.end = "none" /\ p.op = x.op /\ p.at = x.at
       /\ p.own = x.own /\ p.attempted = x.attempted /\ p.lost = lost
  BY <1>1, <1>3, <1>6, <1>14 DEF OrderRecord
<1>17. /\ oEnvelope' = IF oRedis THEN [oEnvelope EXCEPT ![c] = w] ELSE oEnvelope
       /\ Order!Becomes(c, Order!Advance(p))
  BY <1>8, <1>13, <1>14 DEF Order!Writes
<1>18. NextStepOf(p) = step BY <1>16 DEF NextStepOf
<1>19. /\ oEnvelope' \in [OrderCalls -> Order!Envelope]
       /\ \A d \in OrderCalls \ {c} : oEnvelope'[d] = oEnvelope[d]
       /\ oEnvelope'[c] = w \/ oEnvelope'[c] = oEnvelope[c]
  BY <1>4, <1>12, <1>17
<1>20. oEnvelope'[c].answered => NextStepOf(p) = "final"
  BY <1>6, <1>7, <1>12, <1>18, <1>19
<1>21. p.op # "exercise" /\ oBroker' = oBroker /\ oKey' = oKey /\ NextStepOf(p) # "reserve"
  BY <1>3, <1>5, <1>6, <1>16, <1>18
<1>22. p.op = "preview" /\ oBroker'[c] > 0 /\ NextStepOf(p) = "final"
          => ~(oUp /\ p.own = oSession) \/ p.lost \/ oEnvelope'[c].reconcile
  <2> SUFFICES ASSUME p.op = "preview", oBroker'[c] > 0, NextStepOf(p) = "final",
                      oUp, p.own = oSession
               PROVE  p.lost \/ oEnvelope'[c].reconcile
    OBVIOUS
  <2>1. x.own_envelope.reconcile
    BY <1>1, <1>3, <1>16, <1>18, <1>21 DEF CallFits, PreviewFits
  <2>2. CASE oRedis BY <1>4, <1>12, <1>17, <2>1, <2>2
  <2>3. CASE ~oRedis BY <1>3, <1>8, <1>16, <1>18, <2>3
  <2> QED BY <2>2, <2>3
<1>23. NextStepOf(p) # "undo" /\ p.own <= oSession /\ (oBroker'[c] > 0 => p.attempted > 0)
       /\ (oBroker'[c] > 0 => oBroker[c] > 0) /\ oBroker' \in [OrderCalls -> Nat]
  BY <1>3, <1>4, <1>6, <1>16, <1>18, <1>21
<1> QED BY <1>3, <1>5, <1>15, <1>16, <1>17, <1>19, <1>20, <1>21, <1>22, <1>23, CallAdvances

\* The except block ends: the envelope it wrote, or did not, tells the truth.
LEMMA RecordEnds ==
    ASSUME OrdersInv, NEW c \in OrderCalls, NEW q \in OrderRecord, NEW e \in Order!Envelope,
           oCall[c].st = "record",
           q.op = oCall[c].op, q.at = oCall[c].at, q.own = oCall[c].own,
           q.attempted = oCall[c].attempted, q.status = oCall[c].status,
           q.st \in {"undo", "over"}, q.end \in {oCall[c].end, "cancelled"},
           q.lost \/ e = oCall[c].own_envelope, e \in {oEnvelope[c], oCall[c].own_envelope},
           Order!Becomes(c, q), oEnvelope' = [oEnvelope EXCEPT ![c] = e],
           UNCHANGED <<oUp, oSession, oRedis, oKey, oBroker>>
    PROVE  OrdersInv'
<1> DEFINE x == oCall[c]
<1>1. /\ x \in OrderRecord /\ x.at \in 1..LastStep(x) /\ oSession \in Nat
      /\ oBroker[c] \in Nat /\ oEnvelope[c] \in Order!Envelope
      /\ CallFits(x, oBroker[c], oEnvelope[c], oUp, oSession)
      /\ KeyFits(c, x, oBroker[c], oKey)
  BY CallKnown
<1>2. /\ oBroker \in [OrderCalls -> Nat] /\ oEnvelope \in [OrderCalls -> Order!Envelope]
      /\ oRedis \in BOOLEAN
  BY DEF OrdersInv
<1>3. /\ x.end \in Broken /\ x.op # "exercise" /\ x.own <= oSession
      /\ oBroker[c] > 0 => x.attempted > 0
      /\ Marked(x.own_envelope, oBroker[c], x) /\ ~oEnvelope[c].answered
  BY <1>1 DEF CallFits
<1>4. q.at \in 1..LastStep(q) /\ q.end \in Broken BY <1>1, <1>3 DEF LastStep, Broken
<1>5. q.lost \/ Marked(e, oBroker[c], q) BY <1>3 DEF Marked
<1>6. CallFits(q, oBroker[c], e, oUp, oSession)
  BY <1>1, <1>3, <1>4, <1>5 DEF CallFits, PreviewFits, Marked
<1>7. KeyFits(c, q, oBroker[c], oKey)
  <2>1. q.st # "waiting" /\ q.end # "replayed" /\ x.st # "over" BY <1>4 DEF Broken
  <2> QED BY <1>1, <2>1, KeyKept
<1>8. /\ oEnvelope' \in [OrderCalls -> Order!Envelope] /\ oEnvelope'[c] = e
      /\ \A d \in OrderCalls \ {c} : oEnvelope'[d] = oEnvelope[d]
  BY <1>2
<1>9. q.end # "replayed" BY <1>4 DEF Broken
<1> QED BY <1>2, <1>3, <1>6, <1>7, <1>8, <1>9, OneCallMoves

LEMMA OrdersRecord ==
    ASSUME OrdersInv, NEW c \in OrderCalls, Order!WritesRecord(c) \/ Order!CancelledInRecord(c)
    PROVE  OrdersInv'
<1> DEFINE x == oCall[c]
<1>1. x \in OrderRecord /\ x.own_envelope \in Order!Envelope /\ oEnvelope[c] \in Order!Envelope
  BY CallKnown DEF OrderRecord
<1>2. oEnvelope \in [OrderCalls -> Order!Envelope] /\ oRedis \in BOOLEAN BY DEF OrdersInv
<1>3. x.st = "record" BY DEF Order!WritesRecord, Order!CancelledInRecord
<1>4. PICK st \in {"undo", "over"} : st = IF Order!MustUndo(x) THEN "undo" ELSE "over"
  OBVIOUS
<1>5. CASE Order!WritesRecord(c)
  <2>1. PICK lost \in BOOLEAN : lost = ~oRedis BY <1>2
  <2>2. PICK q : q = [x EXCEPT !.st = st, !.lost = lost] OBVIOUS
  <2>3. PICK e \in Order!Envelope : e = IF oRedis THEN x.own_envelope ELSE oEnvelope[c]
    BY <1>1
  <2>4. q \in OrderRecord BY <1>1, <1>4, <2>2 DEF OrderRecord
  <2>5. /\ q.op = x.op /\ q.at = x.at /\ q.own = x.own /\ q.attempted = x.attempted
        /\ q.status = x.status /\ q.st = st /\ q.end = x.end /\ q.lost = lost
    BY <1>1, <2>2 DEF OrderRecord
  <2>6. Order!Becomes(c, q) BY <1>4, <1>5, <2>1, <2>2 DEF Order!WritesRecord
  <2>7. oEnvelope' = [oEnvelope EXCEPT ![c] = e] BY <1>2, <1>5, <2>3 DEF Order!WritesRecord
  <2>8. UNCHANGED <<oUp, oSession, oRedis, oKey, oBroker>> BY <1>5 DEF Order!WritesRecord
  <2>9. q.lost \/ e = x.own_envelope BY <1>2, <2>1, <2>3, <2>5
  <2> QED BY <1>3, <1>4, <2>3, <2>4, <2>5, <2>6, <2>7, <2>8, <2>9, RecordEnds
<1>6. CASE Order!CancelledInRecord(c)
  <2>1. PICK q : q = [x EXCEPT !.st = st, !.lost = TRUE, !.end = "cancelled"] OBVIOUS
  <2>2. q \in OrderRecord BY <1>1, <1>4, <2>1 DEF OrderRecord
  <2>3. /\ q.op = x.op /\ q.at = x.at /\ q.own = x.own /\ q.attempted = x.attempted
        /\ q.status = x.status /\ q.st = st /\ q.end = "cancelled" /\ q.lost
    BY <1>1, <2>1 DEF OrderRecord
  <2>4. Order!Becomes(c, q) BY <1>4, <1>6, <2>1 DEF Order!CancelledInRecord
  <2>5. UNCHANGED <<oUp, oSession, oRedis, oKey, oBroker, oEnvelope>>
    BY <1>6 DEF Order!CancelledInRecord, Order!World
  <2>6. oEnvelope' = [oEnvelope EXCEPT ![c] = oEnvelope[c]] BY <1>2, <2>5
  <2> QED BY <1>1, <1>3, <1>4, <2>2, <2>3, <2>4, <2>5, <2>6, RecordEnds
<1> QED BY <1>5, <1>6

\* The finally block of a preview ends.
LEMMA UndoEnds ==
    ASSUME OrdersInv, NEW c \in OrderCalls, NEW q \in OrderRecord, NEW e \in Order!Envelope,
           NEW b \in {0, oBroker[c]},
           oCall[c].st \in {"run", "undo"}, q.op # "exercise",
           q.op = oCall[c].op, q.at = oCall[c].at, q.own = oCall[c].own,
           q.attempted = oCall[c].attempted, q.status = oCall[c].status,
           q.st = "over", q.end \in Broken,
           q.lost \/ ~e.there \/ Marked(e, b, q),
           b > 0 => ~(oUp /\ q.own = oSession) \/ q.lost \/ e.reconcile,
           oEnvelope[c].answered => e.answered,
           Order!Becomes(c, q), oEnvelope' = [oEnvelope EXCEPT ![c] = e],
           oBroker' = [oBroker EXCEPT ![c] = b], UNCHANGED <<oUp, oSession, oRedis, oKey>>
    PROVE  OrdersInv'
<1> DEFINE x == oCall[c]
<1>1. /\ x \in OrderRecord /\ x.at \in 1..LastStep(x) /\ oSession \in Nat
      /\ oBroker[c] \in Nat /\ b \in Nat
      /\ CallFits(x, oBroker[c], oEnvelope[c], oUp, oSession)
      /\ KeyFits(c, x, oBroker[c], oKey)
  BY CallKnown
<1>2. /\ oBroker \in [OrderCalls -> Nat] /\ oEnvelope \in [OrderCalls -> Order!Envelope]
      /\ oRedis \in BOOLEAN
  BY DEF OrdersInv
<1>3. q.at \in 1..LastStep(q) BY <1>1 DEF LastStep
<1>4. q.own <= oSession /\ (b > 0 => q.attempted > 0 /\ oBroker[c] > 0)
  BY <1>1 DEF CallFits
<1>5. CallFits(q, b, e, oUp, oSession) BY <1>1, <1>3, <1>4 DEF CallFits, PreviewFits
<1>6. KeyFits(c, q, b, oKey)
  <2>1. q.st # "waiting" /\ q.end # "replayed" /\ x.st # "over" BY DEF Broken
  <2>2. b = 0 \/ oBroker[c] > 0 BY <1>1, <1>4
  <2> QED BY <1>1, <2>1, <2>2, KeyKept
<1>7. /\ oEnvelope' \in [OrderCalls -> Order!Envelope] /\ oEnvelope'[c] = e
      /\ oBroker' \in [OrderCalls -> Nat] /\ oBroker'[c] = b
      /\ \A d \in OrderCalls \ {c} : oBroker'[d] = oBroker[d] /\ oEnvelope'[d] = oEnvelope[d]
  BY <1>1, <1>2
<1>8. q.end # "replayed" BY DEF Broken
<1> QED BY <1>2, <1>5, <1>6, <1>7, <1>8, OneCallMoves

LEMMA OrdersUndo ==
    ASSUME OrdersInv, NEW c \in OrderCalls,
           Order!CancelsWhatIf(c) \/ Order!CancelledInUndo(c)
    PROVE  OrdersInv'
<1> DEFINE x == oCall[c]
           step == NextStepOf(x)
<1>1. /\ x \in OrderRecord /\ x.at \in 1..LastStep(x) /\ oSession \in Nat
      /\ oBroker[c] \in Nat /\ oEnvelope[c] \in Order!Envelope
      /\ CallFits(x, oBroker[c], oEnvelope[c], oUp, oSession)
  BY CallKnown
<1>2. \A steps : Order!At(c, steps) <=> x.st = "run" /\ step \in steps BY AtStep
<1>3. /\ oBroker \in [OrderCalls -> Nat] /\ oEnvelope \in [OrderCalls -> Order!Envelope]
      /\ oRedis \in BOOLEAN
  BY DEF OrdersInv
<1>4. x.st = "undo" \/ (x.st = "run" /\ step = "undo")
  BY <1>2 DEF Order!CancelsWhatIf, Order!CancelledInUndo, Order!Undoing
<1>5. x.op # "exercise"
  BY <1>1, <1>4, StepsKnown DEF StepFits, NextStepOf, CallFits
<1>6. /\ x.own <= oSession /\ (oBroker[c] > 0 => x.attempted > 0)
      /\ x.st = "run" => ~oEnvelope[c].answered /\ x.end = "none"
      /\ x.st = "undo" => x.end \in Broken
      /\ x.st = "undo" /\ ~x.lost /\ oEnvelope[c].there => Marked(oEnvelope[c], oBroker[c], x)
  BY <1>1 DEF CallFits
<1>7. PICK r : r = Order!Recorded(x) OBVIOUS
<1>8. r \in Order!Envelope /\ r.answered /\ Marked(r, oBroker[c], x)
  BY <1>1, <1>6, <1>7, RecordedMarks
<1>9. UNCHANGED <<oUp, oSession, oRedis, oKey>>
  BY DEF Order!CancelsWhatIf, Order!CancelledInUndo
<1>10. CASE Order!CancelledInUndo(c)
  <2>1. PICK lost \in BOOLEAN : lost = ~oRedis BY <1>3
  <2>2. PICK q : q = [x EXCEPT !.st = "over", !.end = "cancelled", !.lost = lost] OBVIOUS
  <2>3. PICK e \in Order!Envelope : e = IF oRedis THEN r ELSE oEnvelope[c] BY <1>1, <1>8
  <2>4. q \in OrderRecord BY <1>1, <2>2 DEF OrderRecord
  <2>5. /\ q.op = x.op /\ q.at = x.at /\ q.own = x.own /\ q.attempted = x.attempted
        /\ q.status = x.status /\ q.st = "over" /\ q.end = "cancelled" /\ q.lost = lost
    BY <1>1, <2>2 DEF OrderRecord
  <2>6. Order!Becomes(c, q) BY <1>10, <2>1, <2>2 DEF Order!CancelledInUndo
  <2>7. /\ oEnvelope' = [oEnvelope EXCEPT ![c] = e] /\ oBroker' = oBroker
    BY <1>3, <1>7, <1>10, <2>3 DEF Order!CancelledInUndo
  <2>8. oBroker' = [oBroker EXCEPT ![c] = oBroker[c]] BY <1>3, <2>7
  <2>9. q.lost \/ Marked(e, oBroker[c], q) BY <1>3, <1>8, <2>1, <2>3, <2>5 DEF Marked
  <2>10. oEnvelope[c].answered => e.answered BY <1>8, <2>3
  <2>11. oBroker[c] > 0 => q.lost \/ e.reconcile BY <2>9 DEF Marked
  <2>12. q.end \in Broken BY <2>5 DEF Broken
  <2> QED BY <1>4, <1>5, <1>9, <2>4, <2>5, <2>6, <2>7, <2>8, <2>9, <2>10, <2>11, <2>12, UndoEnds
<1>11. CASE Order!CancelsWhatIf(c)
  <2>1. oEnvelope' = oEnvelope /\ oEnvelope' = [oEnvelope EXCEPT ![c] = oEnvelope[c]]
    BY <1>3, <1>11 DEF Order!CancelsWhatIf
  <2>2. \* Its record, and what is left at IBKR.
        PICK p \in OrderRecord, b \in {0, oBroker[c]} :
          /\ Order!Becomes(c, Order!AfterUndo(p)) /\ oBroker' = [oBroker EXCEPT ![c] = b]
          /\ p.op = x.op /\ p.at = x.at /\ p.own = x.own /\ p.attempted = x.attempted
          /\ p.status = x.status /\ p.st = x.st /\ p.end = x.end /\ p.lost = x.lost
          /\ b > 0 => p.own_envelope.reconcile
    <3>1. CASE Order!Becomes(c, Order!AfterUndo(x)) /\ oBroker' = [oBroker EXCEPT ![c] = 0]
      BY <1>1, <3>1
    <3>2. CASE /\ UNCHANGED oBroker \/ oBroker' = [oBroker EXCEPT ![c] = 0]
               /\ Order!Becomes(c, Order!AfterUndo(
                      [x EXCEPT !.own_envelope = Order!Recorded(x)]))
      <4>1. PICK p : p = [x EXCEPT !.own_envelope = r] OBVIOUS
      <4>2. p \in OrderRecord BY <1>1, <1>8, <4>1 DEF OrderRecord
      <4>3. /\ p.op = x.op /\ p.at = x.at /\ p.own = x.own /\ p.attempted = x.attempted
            /\ p.status = x.status /\ p.st = x.st /\ p.end = x.end /\ p.lost = x.lost
            /\ p.own_envelope = r
        BY <1>1, <4>1 DEF OrderRecord
      <4>4. Order!Becomes(c, Order!AfterUndo(p)) BY <1>7, <3>2, <4>1
      <4>5. PICK b \in {0, oBroker[c]} : oBroker' = [oBroker EXCEPT ![c] = b]
        BY <1>3, <3>2
      <4>6. b > 0 => p.own_envelope.reconcile BY <1>1, <1>8, <4>3 DEF Marked
      <4> QED BY <4>2, <4>3, <4>4, <4>5, <4>6
    <3> QED BY <1>11, <3>1, <3>2 DEF Order!CancelsWhatIf
  <2>3. CASE x.st = "undo"
    <3>1. PICK q : q = [p EXCEPT !.st = "over"] OBVIOUS
    <3>2. q \in OrderRecord BY <2>2, <3>1 DEF OrderRecord
    <3>3. /\ q.op = x.op /\ q.at = x.at /\ q.own = x.own /\ q.attempted = x.attempted
          /\ q.status = x.status /\ q.st = "over" /\ q.end = x.end /\ q.lost = x.lost
      BY <2>2, <3>1 DEF OrderRecord
    <3>4. Order!Becomes(c, q) BY <2>2, <2>3, <3>1 DEF Order!AfterUndo
    <3>5. q.lost \/ ~oEnvelope[c].there \/ Marked(oEnvelope[c], b, q)
      BY <1>1, <1>6, <2>3, <3>3 DEF Marked
    <3>6. b > 0 => q.lost \/ oEnvelope[c].reconcile
      BY <1>1, <2>3, <3>3 DEF CallFits
    <3> QED
      BY <1>1, <1>5, <1>6, <1>9, <2>1, <2>2, <2>3, <3>2, <3>3, <3>4, <3>5, <3>6, UndoEnds
  <2>4. CASE x.st = "run"
    <3>1. step = "undo" /\ NextStepOf(p) = "undo" BY <1>4, <2>2, <2>4 DEF NextStepOf
    <3>2. Order!Becomes(c, Order!Advance(p)) BY <2>2, <2>4 DEF Order!AfterUndo
    <3>3. /\ oBroker' \in [OrderCalls -> Nat] /\ oBroker'[c] = b
          /\ \A d \in OrderCalls \ {c} : oBroker'[d] = oBroker[d]
      BY <1>1, <1>3, <2>2
    <3>4. oBroker'[c] > 0 => p.attempted > 0 /\ oBroker[c] > 0 BY <1>1, <1>6, <2>2, <3>3
    <3>5. ~oEnvelope'[c].answered /\ (oEnvelope'[c].there => p.op # "exercise")
      BY <1>5, <1>6, <2>1, <2>2, <2>4
    <3>6. oBroker'[c] > 0 => p.own_envelope.reconcile BY <2>2, <3>3
    <3>7. oEnvelope' \in [OrderCalls -> Order!Envelope]
          /\ \A d \in OrderCalls \ {c} : oEnvelope'[d] = oEnvelope[d]
      BY <1>3, <2>1
    <3>8. p.st = "run" /\ p.end = "none" /\ p.own <= oSession BY <1>6, <2>2, <2>4
    <3> QED BY <1>9, <2>2, <2>4, <3>1, <3>2, <3>3, <3>4, <3>5, <3>6, <3>7, <3>8, CallAdvances
  <2> QED BY <1>4, <2>3, <2>4
<1> QED BY <1>10, <1>11

\* The caller is cancelled at an await.
LEMMA OrdersCancelled ==
    ASSUME OrdersInv, NEW c \in OrderCalls, Order!Cancelled(c)
    PROVE  OrdersInv'
<1> DEFINE x == oCall[c]
           step == NextStepOf(x)
<1>1. /\ x \in OrderRecord /\ x.attempted \in Nat
      /\ CallFits(x, oBroker[c], oEnvelope[c], oUp, oSession)
  BY CallKnown DEF OrderRecord
<1>2. \A steps : Order!At(c, steps) <=> x.st = "run" /\ step \in steps BY AtStep
<1>3. x.st \in {"run", "waiting"} /\ step # "undo"
  BY <1>1, <1>2 DEF Order!Cancelled, Order!AtAwait, CallFits
<1>4. PICK lost \in BOOLEAN : lost = Order!At(c, {"final"}) BY DEF Order!At
<1>5. PICK p : p = [x EXCEPT !.lost = lost] OBVIOUS
<1>6. p \in OrderRecord BY <1>1, <1>5 DEF OrderRecord
<1>7. /\ p.op = x.op /\ p.at = x.at /\ p.own = x.own /\ p.attempted = x.attempted
      /\ p.st = x.st /\ p.lost = lost
  BY <1>1, <1>5 DEF OrderRecord
<1>8. Order!Becomes(c, Order!Raises(p, "cancelled")) /\ UNCHANGED Order!World
  BY <1>4, <1>5 DEF Order!Cancelled
<1>9. NextStepOf(p) = step BY <1>7 DEF NextStepOf
<1>10. step = "final" => p.lost
  <2>1. x.st = "waiting" => step # "final" BY <1>1 DEF CallFits
  <2> QED BY <1>2, <1>3, <1>4, <1>7, <2>1
<1>11. p.attempted >= x.attempted BY <1>1, <1>7
<1> QED BY <1>3, <1>6, <1>7, <1>8, <1>9, <1>10, <1>11, CallFails

\* IBKR accepts, fills or refuses the order.
LEMMA OrdersMove ==
    ASSUME OrdersInv, NEW c \in OrderCalls, Order!OrderMoves(c)
    PROVE  OrdersInv'
<1> DEFINE x == oCall[c]
<1>1. /\ x \in OrderRecord /\ x.at \in 1..LastStep(x) /\ oSession \in Nat
      /\ oBroker[c] \in Nat /\ oEnvelope[c] \in Order!Envelope
      /\ CallFits(x, oBroker[c], oEnvelope[c], oUp, oSession)
      /\ KeyFits(c, x, oBroker[c], oKey)
  BY CallKnown
<1>2. UNCHANGED <<oUp, oSession, oRedis, oKey, oEnvelope, oBroker>>
  BY DEF Order!OrderMoves, Order!World
<1>3. /\ oBroker \in [OrderCalls -> Nat] /\ oEnvelope \in [OrderCalls -> Order!Envelope]
      /\ oRedis \in BOOLEAN
  BY DEF OrdersInv
<1>4. x.op \in {"place", "modify"} /\ x.st # "over" /\ x.status = "pending"
  BY DEF Order!OrderMoves, Order!Over
<1>5. PICK status \in Order!Status : Order!Becomes(c, [x EXCEPT !.status = status])
  BY DEF Order!OrderMoves, Order!Status
<1>6. PICK q : q = [x EXCEPT !.status = status] OBVIOUS
<1>7. q \in OrderRecord BY <1>1, <1>6 DEF OrderRecord
<1>8. /\ q.op = x.op /\ q.at = x.at /\ q.own = x.own /\ q.attempted = x.attempted
      /\ q.st = x.st /\ q.end = x.end /\ q.lost = x.lost /\ q.own_envelope = x.own_envelope
  BY <1>1, <1>6 DEF OrderRecord
<1>9. /\ LastStep(q) = LastStep(x) /\ NextStepOf(q) = NextStepOf(x) /\ (Late(q) <=> Late(x))
  BY <1>8 DEF LastStep, NextStepOf, Late
<1>10. \A e, b : Marked(e, b, x) => Marked(e, b, q) BY <1>4 DEF Marked
<1>11. CallFits(q, oBroker[c], oEnvelope[c], oUp, oSession)
  BY <1>1, <1>4, <1>7, <1>8, <1>9, <1>10 DEF CallFits, PreviewFits
<1>12. KeyFits(c, q, oBroker[c], oKey) BY <1>1, <1>8 DEF KeyFits
<1>13. q.end # "replayed" BY <1>1, <1>4, <1>8 DEF KeyFits
<1> QED BY <1>2, <1>3, <1>5, <1>6, <1>7, <1>11, <1>12, <1>13, OneCallMoves

LEMMA OrdersStep ==
    ASSUME OrdersInv, [SuiteNext]_<<part, vars, orderVars, streamVars, mcpVars>>
    PROVE  OrdersInv'
<1>1. CASE UNCHANGED orderVars
  BY <1>1 DEF orderVars, OrdersInv, ReplaysFit
<1>2. ASSUME NEW c \in OrderCalls, Order!Step(c) PROVE OrdersInv'
  BY <1>2, OrdersPrepare, OrdersAreRejected, OrdersReserve, OrdersSend, OrdersWrite,
     OrdersRecord, OrdersUndo, OrdersCancelled, OrdersMove DEF Order!Step
<1>3. CASE Order!SessionEnds \/ Order!SessionBegins
  <2>1. /\ UNCHANGED <<oRedis, oKey, oEnvelope, oBroker, oCall>>
        /\ (oUp' = FALSE /\ oSession' = oSession) \/ oSession' = oSession + 1
    BY <1>3 DEF Order!SessionEnds, Order!SessionBegins
  <2>2. oSession' \in Nat /\ oSession' >= oSession BY <2>1 DEF OrdersInv
  <2>3. ASSUME NEW c \in OrderCalls
        PROVE  CallFits(oCall[c], oBroker[c], oEnvelope[c], oUp', oSession')
    <3>1. /\ CallFits(oCall[c], oBroker[c], oEnvelope[c], oUp, oSession)
          /\ oCall[c].own \in Nat /\ oSession \in Nat
      BY CallKnown DEF OrderRecord
    <3>2. oCall[c].own <= oSession' /\ ~(oUp' /\ oCall[c].own = oSession')
      BY <2>1, <2>2, <3>1 DEF CallFits
    <3> QED BY <3>1, <3>2 DEF CallFits, PreviewFits
  <2> QED BY <2>1, <2>2, <2>3 DEF OrdersInv, ReplaysFit
<1>4. CASE Order!RedisFails \/ Order!RedisReturns
  <2>1. /\ UNCHANGED <<oUp, oSession, oKey, oEnvelope, oBroker, oCall>>
        /\ oRedis' \in BOOLEAN
    BY <1>4 DEF Order!RedisFails, Order!RedisReturns
  <2> QED BY <2>1 DEF OrdersInv, ReplaysFit
<1>5. CASE SuiteNext
  BY <1>1, <1>2, <1>3, <1>4, <1>5
  DEF SuiteNext, OrdersSuite, Order!Next, RoutesSuite, GuardedSuite, StreamsSuite, McpSuite
<1> QED BY <1>1, <1>5

LEMMA OrdersInvariant == SuiteSpec => []OrdersInv
<1>1. SuiteInit => OrdersInv BY OrdersStart DEF SuiteInit
<1>2. OrdersInv /\ [SuiteNext]_<<part, vars, orderVars, streamVars, mcpVars>> => OrdersInv'
  BY OrdersStep
<1> QED BY <1>1, <1>2, PTL DEF SuiteSpec

(* Whatever Redis, the session and the callers do, of the calls with one
   idempotency key at most one sends an order, and a call is answered without
   sending only with the recorded answer of the one that holds the key
   (_reserve_idempotency_key, _wait_for_idempotent_response): OneOrderPerKey
   for any number of calls, sessions and outages. *)
THEOREM OrdersAreSentOnce == SuiteSpec => []OneOrderPerKey
<1>1. OrdersInv => OneOrderPerKey
  <2> SUFFICES ASSUME OrdersInv PROVE Order!OneOrderPerKey  BY DEF OneOrderPerKey
  <2>1. ASSUME NEW c \in OrderCalls, oCall[c].op = "place", oBroker[c] > 0
        PROVE  oKey = c
    BY <2>1, CallKnown DEF KeyFits
  <2>2. ASSUME NEW c \in OrderCalls, oCall[c].end = "replayed"
        PROVE  oKey # c /\ oEnvelope[oKey].answered
    BY <2>2, CallKnown DEF KeyFits, OrdersInv, ReplaysFit
  <2> QED BY <2>1, <2>2 DEF Order!OneOrderPerKey
<1> QED BY <1>1, OrdersInvariant, PTL

(* An operation that breaks off when IBKR may have an order of it leaves an
   envelope that asks for reconciliation and calls no order inactive but one
   that IBKR refused, and a preview leaves no order in its session unmarked
   (_record_interruption, the finally block of preview_order):
   OrdersAreAccounted for any operations with any number of legs. *)
THEOREM OrdersAreAlwaysAccounted == SuiteSpec => []OrdersAreAccounted
<1>1. OrdersInv => OrdersAreAccounted
  <2> SUFFICES ASSUME OrdersInv
               PROVE  Order!UncertainOrdersAreMarked /\ Order!PreviewsLeaveNoOrder
    BY DEF OrdersAreAccounted
  <2>1. Order!UncertainOrdersAreMarked
    <3> SUFFICES ASSUME NEW c \in OrderCalls, Order!Over(c), ~oCall[c].lost,
                        oEnvelope[c].there, oCall[c].end \in Broken
                 PROVE  /\ oBroker[c] > 0 => oEnvelope[c].reconcile
                        /\ oEnvelope[c].status = "inactive" =>
                              oBroker[c] = 0 \/ oCall[c].status = "inactive"
      BY DEF Order!UncertainOrdersAreMarked, Broken
    <3> QED BY CallKnown DEF CallFits, Marked, Order!Over
  <2>2. Order!PreviewsLeaveNoOrder
    <3> SUFFICES ASSUME NEW c \in OrderCalls, oCall[c].op = "preview", Order!Over(c),
                        oBroker[c] > 0
                 PROVE  ~Order!SameSession(c) \/ oCall[c].lost \/ oEnvelope[c].reconcile
      BY DEF Order!PreviewsLeaveNoOrder
    <3> QED BY CallKnown DEF CallFits, PreviewFits, Order!Over, Order!SameSession
  <2> QED BY <2>1, <2>2
<1> QED BY <1>1, OrdersInvariant, PTL

-----------------------------------------------------------------------------
\* The types of every part.

\* The other parts leave the requests alone.
LEMMA RequestsRun ==
    [SuiteNext]_<<part, vars, orderVars, streamVars, mcpVars>> => [Next]_vars
BY DEF SuiteNext, RoutesSuite, GuardedSuite, OrdersSuite, StreamsSuite, McpSuite

LEMMA RequestsTyped == SuiteSpec => []TypesInv
<1>1. RestAssumption  BY PartsAssumption
<1>2. SuiteInit => TypesInv  BY <1>1, TypesStart DEF SuiteInit
<1>3. TypesInv /\ [SuiteNext]_<<part, vars, orderVars, streamVars, mcpVars>> => TypesInv'
  BY <1>1, RequestsRun, TypesStep
<1>4. QED  BY <1>2, <1>3, PTL DEF SuiteSpec

-----------------------------------------------------------------------------
\* The bounds of the streams: what the queue holds, and the sessions.

Queued(queue, later) ==
    \/ later = queue
    \/ queue # <<>> /\ later = Tail(queue)
    \/ \E x \in {"update", "end"} : later = Ticker!Put(queue, x)

StreamBounds ==
    /\ tUp \in BOOLEAN /\ tSession \in 1..StreamSessions
    /\ ~tUp => tSession < StreamSessions
    /\ \A s \in Streams :
          tStream[s].own \in 0..StreamSessions /\ Len(tStream[s].queue) <= QueueSize

LEMMA QueueStaysBounded ==
    ASSUME NEW queue \in Seq({"update", "end"}), Len(queue) <= QueueSize,
           NEW later, Queued(queue, later)
    PROVE  Len(later) <= QueueSize
<1>0. QueueSize \in Nat \ {0}  BY PartsAssumption DEF Ticker!StreamAssumption
<1>1. queue # <<>> => Len(Tail(queue)) = Len(queue) - 1 /\ Len(queue) > 0
                       /\ Tail(queue) \in Seq({"update", "end"})
  OBVIOUS
<1>2. ASSUME NEW x \in {"update", "end"} PROVE Len(Ticker!Put(queue, x)) <= QueueSize
  <2>1. CASE Len(queue) = QueueSize
    <3>1. queue # <<>>  BY <1>0, <2>1
    <3>2. PICK tail : tail = Tail(queue)  OBVIOUS
    <3>3. Len(Append(tail, x)) = Len(tail) + 1  BY <1>1, <3>1, <3>2
    <3>4. Ticker!Put(queue, x) = Append(tail, x)  BY <2>1, <3>2 DEF Ticker!Put
    <3>5. QED  BY <1>0, <1>1, <2>1, <3>1, <3>2, <3>3, <3>4
  <2>2. CASE Len(queue) # QueueSize
    <3>1. Ticker!Put(queue, x) = Append(queue, x)  BY <2>2 DEF Ticker!Put
    <3>2. QED  BY <1>0, <2>2, <3>1
  <2>3. QED  BY <2>1, <2>2
<1>3. QED  BY <1>0, <1>1, <1>2 DEF Queued

\* What a step of a stream does to its queue and its session.
LEMMA StreamKeeps ==
    ASSUME StreamsInv, NEW s \in Streams,
           \/ Ticker!StreamTicker(s) \/ Ticker!Generator(s) \/ Ticker!ClientGone(s)
           \/ Ticker!StopSubscription(s) \/ Ticker!GrowsOld(s)
    PROVE  /\ \A x \in Streams \ {s} : tStream'[x] = tStream[x]
           /\ tStream'[s].own \in {tStream[s].own, tSession}
           /\ Queued(tStream[s].queue, tStream'[s].queue)
<1> DEFINE q == tStream[s]
           StreamKept(p) == p.own \in {q.own, tSession} /\ Queued(q.queue, p.queue)
<1>1. q \in StreamRecord /\ tStream \in [Streams -> StreamRecord]  BY DEF StreamsInv
<1>2. ASSUME NEW p, Ticker!Becomes(s, p), StreamKept(p)
      PROVE  /\ \A x \in Streams \ {s} : tStream'[x] = tStream[x]
             /\ StreamKept(tStream'[s])
  BY <1>1, <1>2 DEF Ticker!Becomes
<1>3. CASE Ticker!StreamTicker(s)
  <2>1. StreamKept([q EXCEPT !.pc = "made"])  BY <1>1 DEF StreamRecord, Queued
  <2>2. QED  BY <1>2, <1>3, <2>1 DEF Ticker!StreamTicker
<1>4. CASE Ticker!Begins(s)
  <2>1. StreamKept([q EXCEPT !.pc = "subscribe"])  BY <1>1 DEF StreamRecord, Queued
  <2>2. QED  BY <1>2, <1>4, <2>1 DEF Ticker!Begins
<1>5. CASE Ticker!Subscribed(s)
  <2>1. StreamKept([q EXCEPT !.pc = "test", !.own = tSession, !.line = "held",
                             !.producer = TRUE, !.watcher = TRUE])
    BY <1>1 DEF StreamRecord, Queued
  <2>2. QED  BY <1>2, <1>5, <2>1 DEF Ticker!Subscribed
<1>6. CASE Ticker!SubscribeFails(s)
  <2>1. StreamKept([q EXCEPT !.pc = "pop"])  BY <1>1 DEF StreamRecord, Queued
  <2>2. QED  BY <1>2, <1>6, <2>1 DEF Ticker!SubscribeFails
<1>7. CASE Ticker!Produces(s)
  <2>1. StreamKept([q EXCEPT !.producer = FALSE])  BY <1>1 DEF StreamRecord, Queued
  <2>2. StreamKept([q EXCEPT !.queue = Ticker!Put(@, "update")])
    BY <1>1 DEF StreamRecord, Queued
  <2>3. QED  BY <1>2, <1>7, <2>1, <2>2 DEF Ticker!Produces
<1>8. CASE Ticker!StopsOnSessionEnd(s)
  <2>1. StreamKept([q EXCEPT !.watcher = FALSE, !.stop = TRUE, !.queue = Ticker!Put(@, "end")])
    BY <1>1 DEF StreamRecord, Queued
  <2>2. QED  BY <1>2, <1>8, <2>1 DEF Ticker!StopsOnSessionEnd
<1>9. CASE Ticker!Loops(s) \/ Ticker!KeepsAlive(s) \/ Ticker!ClientGone(s)
  <2>1. PICK pc : Ticker!Becomes(s, [q EXCEPT !.pc = pc])
    BY <1>9 DEF Ticker!Loops, Ticker!KeepsAlive, Ticker!ClientGone
  <2>2. StreamKept([q EXCEPT !.pc = pc])  BY <1>1 DEF StreamRecord, Queued
  <2>3. QED  BY <1>2, <2>1, <2>2
<1>10. CASE Ticker!Sends(s)
  <2>1. q.queue # <<>>  BY <1>10 DEF Ticker!Sends
  <2>2. PICK w : w = [q EXCEPT !.queue = Tail(q.queue)]  OBVIOUS
  <2>3. DOMAIN w = DOMAIN q /\ w.own = q.own /\ w.queue = Tail(q.queue)
    BY <1>1, <2>2 DEF StreamRecord
  <2>4. \/ Ticker!Becomes(s, [w EXCEPT !.pc = "close"])
        \/ Ticker!Becomes(s, [w EXCEPT !.pc = "test", !.sent = @ + 1,
                                       !.late = IF w.stop THEN @ + 1 ELSE @])
    BY <1>10, <2>2 DEF Ticker!Sends
  <2>5. \A pc, sent, late : StreamKept([w EXCEPT !.pc = pc, !.sent = sent, !.late = late])
    BY <1>1, <2>1, <2>3 DEF StreamRecord, Queued
  <2>6. StreamKept([w EXCEPT !.pc = "close"])  BY <1>1, <2>1, <2>3 DEF StreamRecord, Queued
  <2>7. QED  BY <1>2, <2>4, <2>5, <2>6
<1>11. CASE Ticker!Closes(s)
  <2>1. StreamKept([q EXCEPT !.pc = "unsubscribe", !.producer = FALSE, !.watcher = FALSE])
    BY <1>1 DEF StreamRecord, Queued
  <2>2. QED  BY <1>2, <1>11, <2>1 DEF Ticker!Closes
<1>12. CASE Ticker!Unsubscribes(s)
  <2>1. \A line : StreamKept([q EXCEPT !.pc = "pop", !.line = line])
    BY <1>1 DEF StreamRecord, Queued
  <2>2. \E line : Ticker!Becomes(s, [q EXCEPT !.pc = "pop", !.line = line])
    BY <1>12 DEF Ticker!Unsubscribes
  <2>3. QED  BY <1>2, <2>1, <2>2
<1>13. CASE Ticker!CleansUp(s)
  <2>1. StreamKept([q EXCEPT !.line = "none"])  BY <1>1 DEF StreamRecord, Queued
  <2>2. QED  BY <1>2, <1>13, <2>1 DEF Ticker!CleansUp
<1>14. CASE Ticker!Pops(s)
  <2>1. StreamKept([q EXCEPT !.pc = "over"])  BY <1>1 DEF StreamRecord, Queued
  <2>2. QED  BY <1>2, <1>14, <2>1 DEF Ticker!Pops
<1>15. CASE Ticker!StopSubscription(s)
  <2>1. StreamKept([q EXCEPT !.stop = TRUE])  BY <1>1 DEF StreamRecord, Queued
  <2>2. QED  BY <1>2, <1>15, <2>1 DEF Ticker!StopSubscription
<1>16. CASE Ticker!GrowsOld(s)
  <2>1. StreamKept([q EXCEPT !.old = TRUE])  BY <1>1 DEF StreamRecord, Queued
  <2>2. QED  BY <1>2, <1>16, <2>1 DEF Ticker!GrowsOld
<1>17. QED
  BY <1>3, <1>4, <1>5, <1>6, <1>7, <1>8, <1>9, <1>10, <1>11, <1>12, <1>13, <1>14,
     <1>15, <1>16
  DEF Ticker!Generator

\* The gateway's session and the age limit leave the queues and sessions alone.
LEMMA StreamsKeep ==
    ASSUME StreamsInv,
           Ticker!RemoveExpired \/ Ticker!SessionEnds \/ Ticker!SessionBegins
    PROVE  \A s \in Streams :
              tStream'[s].own = tStream[s].own /\ tStream'[s].queue = tStream[s].queue
<1> SUFFICES ASSUME NEW s \in Streams
             PROVE  tStream'[s].own = tStream[s].own /\ tStream'[s].queue = tStream[s].queue
  OBVIOUS
<1>1. tStream[s] \in StreamRecord  BY DEF StreamsInv
<1>2. PICK p, q : p = [tStream[s] EXCEPT !.stop = TRUE] /\ q = [tStream[s] EXCEPT !.line = "none"]
  OBVIOUS
<1>3. /\ p.own = tStream[s].own /\ p.queue = tStream[s].queue
      /\ q.own = tStream[s].own /\ q.queue = tStream[s].queue
  BY <1>1, <1>2 DEF StreamRecord
<1>4. tStream'[s] \in {tStream[s], p, q}
  BY <1>2 DEF Ticker!RemoveExpired, Ticker!SessionEnds, Ticker!SessionBegins
<1>5. QED  BY <1>3, <1>4

LEMMA StreamBoundsHold ==
    StreamsInv /\ StreamBounds /\ [SuiteNext]_<<part, vars, orderVars, streamVars, mcpVars>>
        => StreamBounds'
<1> SUFFICES ASSUME StreamsInv, StreamBounds,
                    [SuiteNext]_<<part, vars, orderVars, streamVars, mcpVars>>
             PROVE  StreamBounds'
  OBVIOUS
<1>1. StreamSessions \in Nat \ {0}  BY PartsAssumption DEF Ticker!StreamAssumption
<1>2. ASSUME NEW s \in Streams,
             \/ Ticker!StreamTicker(s) \/ Ticker!Generator(s) \/ Ticker!ClientGone(s)
             \/ Ticker!StopSubscription(s) \/ Ticker!GrowsOld(s)
      PROVE  StreamBounds'
  <2>1. UNCHANGED <<tUp, tSession>>
    BY <1>2
    DEF Ticker!StreamTicker, Ticker!Generator, Ticker!ClientGone, Ticker!StopSubscription,
        Ticker!GrowsOld, Ticker!Begins, Ticker!Subscribed, Ticker!SubscribeFails,
        Ticker!Produces, Ticker!StopsOnSessionEnd, Ticker!Loops, Ticker!KeepsAlive,
        Ticker!Sends, Ticker!Closes, Ticker!Unsubscribes, Ticker!CleansUp, Ticker!Pops,
        Ticker!Gateway
  <2>2. /\ \A x \in Streams \ {s} : tStream'[x] = tStream[x]
        /\ tStream'[s].own \in {tStream[s].own, tSession}
        /\ Queued(tStream[s].queue, tStream'[s].queue)
    BY <1>2, StreamKeeps
  <2>3. tStream[s].queue \in Seq({"update", "end"})  BY DEF StreamsInv, StreamRecord
  <2>4. Len(tStream[s].queue) <= QueueSize  BY DEF StreamBounds
  <2>5. Len(tStream'[s].queue) <= QueueSize  BY <2>2, <2>3, <2>4, QueueStaysBounded
  <2>6. tStream'[s].own \in 0..StreamSessions  BY <1>1, <2>2 DEF StreamBounds
  <2>7. QED  BY <2>1, <2>2, <2>5, <2>6 DEF StreamBounds
<1>3. CASE Ticker!RemoveExpired
  BY <1>3, StreamsKeep DEF StreamBounds, Ticker!RemoveExpired, Ticker!Gateway
<1>4. CASE Ticker!SessionEnds
  BY <1>4, StreamsKeep DEF StreamBounds, Ticker!SessionEnds
<1>5. CASE Ticker!SessionBegins
  BY <1>1, <1>5, StreamsKeep DEF StreamBounds, Ticker!SessionBegins
<1>6. CASE UNCHANGED streamVars  BY <1>6 DEF StreamBounds, streamVars
<1>7. QED
  BY <1>2, <1>3, <1>4, <1>5, <1>6
  DEF Ticker!Next, SuiteNext, RoutesSuite, GuardedSuite, OrdersSuite, StreamsSuite, McpSuite

LEMMA StreamsTyped == SuiteSpec => [](Ticker!TypeOK)
<1>1. SuiteInit => StreamsInv /\ StreamBounds
  <2> SUFFICES ASSUME SuiteInit PROVE StreamsInv /\ StreamBounds  OBVIOUS
  <2>1. StreamSessions \in Nat \ {0} /\ QueueSize \in Nat \ {0}
    BY PartsAssumption DEF Ticker!StreamAssumption
  <2>2. StreamsInv  BY StreamsStart DEF SuiteInit
  <2>3. StreamBounds
    BY <2>1 DEF SuiteInit, Ticker!Init, StreamBounds, Ticker!NoStream
  <2>4. QED  BY <2>2, <2>3
<1>2. StreamsInv /\ StreamBounds => Ticker!TypeOK
  <2> SUFFICES ASSUME StreamsInv, StreamBounds PROVE Ticker!TypeOK  OBVIOUS
  <2>1. IsFiniteSet(Streams) /\ StreamSessions \in Nat
    BY PartsAssumption
    DEF Ticker!StreamAssumption, Ticker!IsFiniteSet, IsFiniteSet
  <2>2. /\ Cardinality(tSubscriptions) \in Nat /\ Cardinality(Streams) \in Nat
        /\ Cardinality(tSubscriptions) <= Cardinality(Streams)
    BY <2>1, FS_Subset, FS_CardinalityType DEF StreamsInv
  <2>3. Ticker!Cardinality(Streams) = Cardinality(Streams)
    BY DEF Ticker!Cardinality, Cardinality
  <2>4. tActive \in 0..Ticker!Cardinality(Streams)  BY <2>2, <2>3 DEF StreamsInv
  <2>5. tStream \in [Streams ->
          [pc : {"none", "made", "subscribe", "test", "get", "close", "unsubscribe",
                 "pop", "over", "dropped"},
           own : 0..StreamSessions, line : {"none", "held", "cleanup"},
           queue : Seq({"update", "end"}), producer : BOOLEAN, watcher : BOOLEAN,
           stop : BOOLEAN, old : BOOLEAN, sent : Nat, late : Nat]]
    BY DEF StreamsInv, StreamBounds, StreamRecord
  <2>6. QED  BY <2>4, <2>5 DEF Ticker!TypeOK, StreamsInv, StreamBounds
<1>3. QED  BY <1>1, <1>2, StreamsStep, StreamBoundsHold, PTL DEF SuiteSpec

-----------------------------------------------------------------------------
\* The bounds of the MCP server: every state, current or not, counts no more
\* sessions than there are.

PlacedFits(q) == q.placed <= q.at /\ (q.tool = "none" => q.placed = 0)

McpBounds ==
    /\ mDelayed \in BOOLEAN /\ mCancels \in 0..MaxCancels
    /\ \A st \in Server!States : mState[st].refs <= Cardinality(Clients)
    /\ \A s \in Clients : PlacedFits(mSess[s])

LEMMA ClientsCounted ==
    /\ IsFiniteSet(Clients) /\ Cardinality(Clients) \in Nat
    /\ Cardinality(Clients) = Server!Cardinality(Clients)
<1>1. IsFiniteSet(Clients)
  BY PartsAssumption DEF Server!McpAssumption, Server!IsFiniteSet, IsFiniteSet
<1>2. QED  BY <1>1, FS_CardinalityType DEF Server!Cardinality, Cardinality

LEMMA CurrentCounts ==
    ASSUME McpInv, mCurrent # 0 PROVE mState[mCurrent].refs <= Cardinality(Clients)
<1>1. Holding(mCurrent) \subseteq Clients  BY DEF Holding
<1>2. QED  BY <1>1, ClientsCounted, FS_Subset DEF McpInv, StatesFit

\* Only the count of the current state grows.
LEMMA CountsGrow ==
    ASSUME McpInv, NEW st \in Server!States, NEW r, Server!Turns(st, r),
           r.refs <= mState[st].refs \/ st = mCurrent'
    PROVE  \A x \in Server!States : mState'[x].refs <= mState[x].refs \/ x = mCurrent'
<1>1. \A x \in Server!States : mState[x].refs \in Nat  BY DEF McpInv, McpTyped, McpState
<1>2. \A x \in Server!States : mState'[x] = IF x = st THEN r ELSE mState[x]
  BY DEF Server!Turns, McpInv, McpTyped
<1>3. QED  BY <1>1, <1>2

LEMMA SessionCounts ==
    ASSUME McpInv, NEW s \in Clients,
           \/ Server!StartBuild(s) \/ Server!Built(s) \/ Server!BuildCancelled(s)
           \/ Server!Take(s) \/ Server!WaitCancelled(s) \/ Server!Leave(s)
           \/ Server!ClosesNow(s)
    PROVE  \A x \in Server!States : mState'[x].refs <= mState[x].refs \/ x = mCurrent'
<1> USE McpNumbers DEF McpInv
<1> DEFINE st == mSess[s].st
<1>1. \A x \in Server!States : mState[x] \in McpState /\ mState[x].refs \in Nat
  BY DEF McpTyped, McpState
<1>2. mSess[s].pc \in {"build", "wait", "in", "close"} => st \in Server!States
  BY DEF SessionsFit
<1>3. CASE Server!StartBuild(s)
  <2>1. PICK x \in Server!States : Server!Turns(x, [mState[x] EXCEPT !.life = "building"])
    BY <1>3 DEF Server!StartBuild
  <2>2. [mState[x] EXCEPT !.life = "building"].refs <= mState[x].refs
    BY <1>1 DEF McpState
  <2>3. QED  BY <2>1, <2>2, CountsGrow
<1>4. CASE Server!Built(s)
  <2>1. st \in Server!States /\ mCurrent' = st
    BY <1>2, <1>4 DEF Server!Built, Server!At
  <2>2. \E r : Server!Turns(st, r)  BY <1>4 DEF Server!Built, Server!Mine
  <2>3. QED  BY <2>1, <2>2, CountsGrow
<1>5. CASE Server!BuildCancelled(s)
  <2>1. st \in Server!States /\ Server!Turns(st, [mState[st] EXCEPT !.life = "leaked"])
    BY <1>2, <1>5 DEF Server!BuildCancelled, Server!At, Server!Mine
  <2>2. [mState[st] EXCEPT !.life = "leaked"].refs <= mState[st].refs
    BY <1>1, <2>1 DEF McpState
  <2>3. QED  BY <2>1, <2>2, CountsGrow
<1>6. CASE Server!Take(s)
  <2>1. mCurrent \in Server!States /\ mCurrent' = mCurrent
    BY <1>6 DEF Server!Take, McpTyped
  <2>2. \E r : Server!Turns(mCurrent, r)  BY <1>6 DEF Server!Take
  <2>3. QED  BY <2>1, <2>2, CountsGrow
<1>7. CASE Server!WaitCancelled(s)
  <2>1. st \in Server!States  BY <1>2, <1>7 DEF Server!WaitCancelled, Server!At
  <2>2. CASE UNCHANGED mState  BY <1>1, <2>2
  <2>3. ASSUME NEW task, Server!Turns(st, [mState[st] EXCEPT !.task = task, !.reuse = FALSE])
        PROVE  \A x \in Server!States :
                  mState'[x].refs <= mState[x].refs \/ x = mCurrent'
    <3>1. [mState[st] EXCEPT !.task = task, !.reuse = FALSE].refs <= mState[st].refs
      BY <1>1, <2>1 DEF McpState
    <3>2. QED  BY <2>1, <2>3, <3>1, CountsGrow
  <2>4. QED  BY <1>7, <2>2, <2>3 DEF Server!WaitCancelled, Server!Mine
<1>8. CASE Server!Leave(s)
  <2>1. st \in Server!States  BY <1>2, <1>8 DEF Server!Leave, Server!At
  <2>2. PICK task, closing, life :
            Server!Turns(st, [mState[st] EXCEPT !.refs = @ - 1, !.task = task,
                                                !.closing = closing, !.life = life])
    BY <1>8 DEF Server!Leave
  <2>3. [mState[st] EXCEPT !.refs = @ - 1, !.task = task, !.closing = closing,
                           !.life = life].refs <= mState[st].refs
    BY <1>1, <2>1 DEF McpState
  <2>4. QED  BY <2>1, <2>2, <2>3, CountsGrow
<1>9. CASE Server!ClosesNow(s)
  <2>1. st \in Server!States  BY <1>2, <1>9 DEF Server!ClosesNow, Server!At
  <2>2. CASE Server!Turns(st, [mState[st] EXCEPT !.life = "closed"])
    <3>1. [mState[st] EXCEPT !.life = "closed"].refs <= mState[st].refs
      BY <1>1, <2>1 DEF McpState
    <3>2. QED  BY <2>1, <2>2, <3>1, CountsGrow
  <2>3. CASE UNCHANGED mState  BY <1>1, <2>3
  <2>4. QED  BY <1>9, <2>2, <2>3 DEF Server!ClosesNow, Server!Mine
<1>10. QED  BY <1>3, <1>4, <1>5, <1>6, <1>7, <1>8, <1>9

LEMMA IdleCounts ==
    ASSUME McpInv, NEW st \in Server!States,
           Server!IdleCancelled(st) \/ Server!IdleElapsed(st) \/ Server!IdleCloses(st)
    PROVE  \A x \in Server!States : mState'[x].refs <= mState[x].refs \/ x = mCurrent'
<1>1. mState[st] \in McpState  BY DEF McpInv, McpTyped
<1>2. ASSUME NEW r, Server!Turns(st, r), r.refs = mState[st].refs
      PROVE  \A x \in Server!States : mState'[x].refs <= mState[x].refs \/ x = mCurrent'
  BY <1>1, <1>2, CountsGrow DEF McpState
<1>3. CASE Server!IdleCancelled(st)
  <2>1. \A reuse :
          [mState[st] EXCEPT !.task = "cancelled", !.reuse = reuse].refs = mState[st].refs
    BY <1>1 DEF McpState
  <2>2. QED  BY <1>2, <1>3, <2>1 DEF Server!IdleCancelled
<1>4. CASE Server!IdleElapsed(st)
  <2>1. /\ [mState[st] EXCEPT !.task = "done"].refs = mState[st].refs
        /\ [mState[st] EXCEPT !.closing = TRUE, !.life = "closing",
                              !.task = "close"].refs = mState[st].refs
    BY <1>1 DEF McpState
  <2>2. QED  BY <1>2, <1>4, <2>1 DEF Server!IdleElapsed
<1>5. CASE Server!IdleCloses(st)
  <2>1. PICK task :
          \/ Server!Turns(st, [mState[st] EXCEPT !.life = "closed", !.task = task])
          \/ Server!Turns(st, [mState[st] EXCEPT !.task = task])
    BY <1>5 DEF Server!IdleCloses
  <2>2. /\ [mState[st] EXCEPT !.life = "closed", !.task = task].refs = mState[st].refs
        /\ [mState[st] EXCEPT !.task = task].refs = mState[st].refs
    BY <1>1 DEF McpState
  <2>3. QED  BY <1>2, <2>1, <2>2
<1>6. QED  BY <1>3, <1>4, <1>5

\* A tool places an order per step at most.
LEMMA PlacedBehind ==
    ASSUME McpInv, NEW s \in Clients, NEW q, Server!Becomes(s, q),
           PlacedFits(q),
           \A x \in Clients : PlacedFits(mSess[x])
    PROVE  \A x \in Clients : PlacedFits(mSess'[x])
BY DEF Server!Becomes, McpInv, McpTyped

LEMMA SessionsPlace ==
    ASSUME McpInv, NEW s \in Clients, McpBounds,
           \/ Server!StartBuild(s) \/ Server!Built(s) \/ Server!BuildCancelled(s)
           \/ Server!Take(s) \/ Server!Taken(s) \/ Server!WaitForClose(s)
           \/ Server!CloseAwaited(s) \/ Server!WaitCancelled(s) \/ Server!CallTool(s)
           \/ Server!LooksAtFlags(s) \/ Server!AsksOrChecks(s) \/ Server!CallsStore(s)
           \/ Server!SkipsLeg(s) \/ Server!Places(s) \/ Server!ToolEnds(s)
           \/ Server!Leave(s) \/ Server!ClosesNow(s)
    PROVE  \A x \in Clients : PlacedFits(mSess'[x])
<1> DEFINE q == mSess[s]
<1>1. q \in McpSession /\ q.placed \in Nat /\ q.at \in Nat
  BY DEF McpInv, McpTyped, McpSession
<1>2. ASSUME NEW p, Server!Becomes(s, p), PlacedFits(p)
      PROVE  \A x \in Clients : PlacedFits(mSess'[x])
  BY <1>2, PlacedBehind DEF McpBounds
<1>3. PlacedFits(q)  BY DEF McpBounds
<1>4. \A pc, st :
        PlacedFits([q EXCEPT !.pc = pc, !.st = st])
  BY <1>1, <1>3 DEF McpSession, PlacedFits
<1>5. \A pc : PlacedFits([q EXCEPT !.pc = pc])
  BY <1>1, <1>3 DEF McpSession, PlacedFits
<1>6. q.tool # "none" =>
        /\ PlacedFits([q EXCEPT !.at = @ + 1])
        /\ PlacedFits([q EXCEPT !.at = @ + 2])
        /\ PlacedFits([q EXCEPT !.at = @ + 1, !.placed = @ + 1])
  BY <1>1, <1>3 DEF McpSession, PlacedFits
<1>7. PlacedFits(Server!Idle(q))
  BY <1>1 DEF McpSession, Server!Idle, PlacedFits
<1>8. CASE Server!StartBuild(s) \/ Server!Take(s) \/ Server!WaitForClose(s)
  BY <1>2, <1>4, <1>8 DEF Server!StartBuild, Server!Take, Server!WaitForClose
<1>9. CASE Server!CloseAwaited(s)
  <2>1. \A pc, st :
          PlacedFits([q EXCEPT !.st = st, !.pc = pc])
    BY <1>1, <1>3 DEF McpSession, PlacedFits
  <2>2. QED  BY <1>2, <1>9, <2>1 DEF Server!CloseAwaited
<1>10. CASE \/ Server!Built(s) \/ Server!BuildCancelled(s) \/ Server!Taken(s)
            \/ Server!WaitCancelled(s) \/ Server!ClosesNow(s)
  BY <1>2, <1>3, <1>5, <1>10
  DEF Server!Built, Server!BuildCancelled, Server!Taken, Server!WaitCancelled,
      Server!ClosesNow, McpBounds
<1>11. CASE Server!CallTool(s)
  <2>1. PICK tool : Server!Becomes(s, [q EXCEPT !.tool = tool, !.at = 1])
    BY <1>11 DEF Server!CallTool
  <2>2. q.tool = "none"  BY <1>11, McpNumbers DEF Server!CallTool
  <2>3. PlacedFits([q EXCEPT !.tool = tool, !.at = 1])
    BY <1>1, <1>3, <2>2 DEF McpSession, PlacedFits
  <2>4. QED  BY <1>2, <2>1, <2>3
<1>12. CASE Server!Leave(s)
  <2>1. PICK p : p = Server!Idle(q)  OBVIOUS
  <2>2. p \in McpSession /\ PlacedFits(p)
    <3>1. PlacedFits(p)  BY <1>7, <2>1
    <3>2. p = [q EXCEPT !.tool = "none", !.at = 0, !.placed = 0]
      BY <2>1, McpNumbers DEF Server!Idle
    <3>3. p \in McpSession  BY <1>1, <3>2 DEF McpSession
    <3>4. QED  BY <3>1, <3>3
  <2>3. \A pc : PlacedFits([p EXCEPT !.pc = pc])
    BY <2>2 DEF McpSession, PlacedFits
  <2>4. QED  BY <1>2, <1>12, <2>1, <2>3 DEF Server!Leave
<1>13. CASE \/ Server!LooksAtFlags(s) \/ Server!AsksOrChecks(s) \/ Server!CallsStore(s)
            \/ Server!SkipsLeg(s) \/ Server!Places(s) \/ Server!ToolEnds(s)
  BY <1>2, <1>6, <1>7, <1>13, McpNumbers
  DEF Server!LooksAtFlags, Server!AsksOrChecks, Server!CallsStore, Server!SkipsLeg,
      Server!Places, Server!ToolEnds, Server!GoesOn, Server!Answers, Server!Running
<1>14. QED  BY <1>8, <1>9, <1>10, <1>11, <1>12, <1>13

LEMMA McpBoundsHold ==
    McpInv /\ McpBounds /\ McpInv'
        /\ [SuiteNext]_<<part, vars, orderVars, streamVars, mcpVars>> => McpBounds'
<1> SUFFICES ASSUME McpInv, McpBounds, McpInv',
                    [SuiteNext]_<<part, vars, orderVars, streamVars, mcpVars>>
             PROVE  McpBounds'
  OBVIOUS
<1>1. MaxCancels \in Nat  BY PartsAssumption DEF Server!McpAssumption
<1>2. CASE Server!Next
  <2>1. mDelayed' \in BOOLEAN /\ mCancels' \in 0..MaxCancels
    <3>1. mDelayed' = mDelayed  BY <1>2 DEF Server!Next
    <3>2. ASSUME NEW s \in Clients, Server!BuildCancelled(s) \/ Server!WaitCancelled(s)
          PROVE  mCancels < MaxCancels /\ mCancels' = mCancels + 1
      BY <3>2 DEF Server!BuildCancelled, Server!WaitCancelled
    <3>3. ASSUME NEW s \in Clients,
                 \/ Server!StartBuild(s) \/ Server!Built(s) \/ Server!Take(s)
                 \/ Server!Taken(s) \/ Server!WaitForClose(s) \/ Server!CloseAwaited(s)
                 \/ Server!Leave(s) \/ Server!ClosesNow(s)
          PROVE  mCancels' = mCancels
      BY <3>3
      DEF Server!StartBuild, Server!Built, Server!Take, Server!Taken, Server!WaitForClose,
          Server!CloseAwaited, Server!Leave, Server!ClosesNow
    <3>4. ASSUME NEW s \in Clients,
                 \/ Server!CallTool(s) \/ Server!LooksAtFlags(s) \/ Server!AsksOrChecks(s)
                 \/ Server!CallsStore(s) \/ Server!SkipsLeg(s) \/ Server!Places(s)
                 \/ Server!ToolEnds(s)
          PROVE  mCancels' = mCancels
      BY <3>4
      DEF Server!CallTool, Server!LooksAtFlags, Server!AsksOrChecks, Server!CallsStore,
          Server!SkipsLeg, Server!Places, Server!ToolEnds, Server!Shared
    <3>5. ASSUME NEW st \in Server!States,
                 Server!IdleCancelled(st) \/ Server!IdleElapsed(st) \/ Server!IdleCloses(st)
          PROVE  mCancels' = mCancels
      BY <3>5 DEF Server!IdleCancelled, Server!IdleElapsed, Server!IdleCloses
    <3>6. mCancels' \in {mCancels, mCancels + 1} /\ (mCancels' = mCancels
                                                   \/ mCancels < MaxCancels)
      BY <1>2, <3>2, <3>3, <3>4, <3>5 DEF Server!Next
    <3>7. QED  BY <1>1, <3>1, <3>6 DEF McpBounds
  <2>2. \/ UNCHANGED mState
        \/ \A x \in Server!States : mState'[x].refs <= mState[x].refs \/ x = mCurrent'
    BY <1>2, SessionCounts, IdleCounts
    DEF Server!Next, Server!Taken, Server!WaitForClose, Server!CloseAwaited,
        Server!CallTool, Server!LooksAtFlags, Server!AsksOrChecks, Server!CallsStore,
        Server!SkipsLeg, Server!Places, Server!ToolEnds, Server!Shared
  <2>3. mCurrent' # 0 => mState'[mCurrent'].refs <= Cardinality(Clients)
    <3>1. Holding(mCurrent)' \subseteq Clients  BY DEF Holding
    <3>2. QED  BY <3>1, ClientsCounted, FS_Subset DEF McpInv, StatesFit
  <2>4. \A x \in Server!States : mState[x].refs \in Nat /\ mState'[x].refs \in Nat
    BY DEF McpInv, McpTyped, McpState
  <2>5. \A x \in Server!States : mState'[x].refs <= Cardinality(Clients)
    BY <2>2, <2>3, <2>4, ClientsCounted, McpNumbers DEF McpBounds
  <2>6. \A x \in Clients : PlacedFits(mSess'[x])
    <3>1. CASE UNCHANGED mSess  BY <3>1 DEF McpBounds
    <3>2. QED
      BY <1>2, <3>1, SessionsPlace
      DEF Server!Next, Server!IdleCancelled, Server!IdleElapsed, Server!IdleCloses
  <2>7. QED  BY <2>1, <2>5, <2>6 DEF McpBounds
<1>3. CASE UNCHANGED mcpVars  BY <1>3 DEF McpBounds, mcpVars
<1>4. QED
  BY <1>2, <1>3
  DEF SuiteNext, RoutesSuite, GuardedSuite, OrdersSuite, StreamsSuite, McpSuite

LEMMA McpIsTyped == SuiteSpec => [](Server!TypeOK)
<1>1. SuiteInit => McpInv /\ McpBounds
  <2> SUFFICES ASSUME SuiteInit PROVE McpInv /\ McpBounds  OBVIOUS
  <2>1. MaxCancels \in Nat  BY PartsAssumption DEF Server!McpAssumption
  <2>2. McpInv  BY McpStarts DEF SuiteInit
  <2>3. McpBounds
    BY <2>1, ClientsCounted DEF SuiteInit, Server!Init, McpBounds, PlacedFits
  <2>4. QED  BY <2>2, <2>3
<1>2. McpInv /\ McpBounds => Server!TypeOK
  <2> SUFFICES ASSUME McpInv, McpBounds PROVE Server!TypeOK  OBVIOUS
  <2>1. /\ mState \in [Server!States -> McpState] /\ mSess \in [Clients -> McpSession]
        /\ mCurrent \in Server!States \cup {0}
    BY DEF McpInv, McpTyped
  <2>2. \A st \in Server!States :
          mState[st].refs \in Nat /\ mState[st].refs <= Cardinality(Clients)
    BY <2>1 DEF McpBounds, McpState
  <2>3. \A st \in Server!States : mState[st].refs \in 0..Server!Cardinality(Clients)
    BY <2>2, ClientsCounted
  <2>4. mState \in [Server!States ->
          [life : {"none", "building", "open", "closing", "closed", "leaked"},
           redis : BOOLEAN, refs : 0..Server!Cardinality(Clients), closing : BOOLEAN,
           task : {"none", "sleep", "cancelling", "close", "again", "done", "cancelled"},
           reuse : BOOLEAN]]
    BY <2>1, <2>3 DEF McpState
  <2>5. \A s \in Clients : mSess[s].placed <= mSess[s].at  BY DEF McpBounds, PlacedFits
  <2>6. QED
    BY <2>1, <2>4, <2>5, McpNumbers DEF Server!TypeOK, McpBounds, McpSession
<1>3. QED  BY <1>1, <1>2, McpStep, McpBoundsHold, PTL DEF SuiteSpec

-----------------------------------------------------------------------------
\* How many orders an operation may have sent: `n` by its step `at`.  The
\* n-th of them is sent at the step Base(op) + 3n - 1.

Base ==
    [place |-> 4, cancel |-> 3, modify |-> 3, preview |-> 2, bracket |-> 3,
     oca |-> 3 + Legs, cancel_all |-> 1, exercise |-> 2, open |-> 0, executions |-> 0,
     completed |-> 0, all_open |-> 0]
Before(op, at, n) == n = 0 \/ 3 * n + Base[op] <= at

SendsAt(steps, base) ==
    \A j \in 1..Len(steps) : steps[j] \in {"send", "cancel"} =>
        \E k \in 0..(Legs - 1) : j = base + 2 + 3 * k

LEMMA LegsSend ==
    ASSUME NEW s \in Seq(Preparing), Len(s) > 0
    PROVE  SendsAt(WithLegs(s).steps, Len(s))
<1> DEFINE all == WithLegs(s).steps
           T == Order!Times(Legs, Leg)
           M == Len(s)
           N == 3 * Legs
<1>1. Legs \in Nat \ {0} /\ M \in Nat /\ N \in Nat
  BY PartsAssumption DEF Order!OrdersAssumption
<1>2. /\ Len(all) = M + N + 1 /\ all[M + N + 1] = "final"
      /\ \A i \in 1..M : all[i] \in Preparing
      /\ \A i \in (M + 1)..(M + N) : all[i] = T[i - M]
  BY LegSteps
<1>3. \A i \in 1..N : T[i] = Leg[1 + ((i - 1) % 3)]
  <2>1. Len(Leg) = 3  BY DEF Leg
  <2>2. T = [i \in 1..(Legs * 3) |-> Leg[1 + ((i - 1) % 3)]]
    BY <2>1 DEF Order!Times
  <2>3. Legs * 3 = N  BY <1>1
  <2>4. QED  BY <2>2, <2>3
<1> HIDE DEF T, M, all
<1>4. ASSUME NEW j \in 1..(M + N + 1), all[j] \in {"send", "cancel"}
      PROVE  \E k \in 0..(Legs - 1) : j = M + 2 + 3 * k
  <2>1. j \in (M + 1)..(M + N)  BY <1>1, <1>2, <1>4 DEF Preparing
  <2>2. PICK i \in 1..N : j = M + i /\ all[j] = Leg[1 + ((i - 1) % 3)]
    <3>1. j - M \in 1..N /\ j = M + (j - M)  BY <1>1, <2>1
    <3>2. QED  BY <1>2, <1>3, <2>1, <3>1
  <2>3. PICK k \in Nat, r \in 0..2 : i - 1 = 3 * k + r /\ r = (i - 1) % 3
    <3>1. (i - 1) \div 3 \in Nat /\ (i - 1) % 3 \in 0..2
          /\ i - 1 = 3 * ((i - 1) \div 3) + ((i - 1) % 3)
      BY <1>1
    <3>2. QED  BY <3>1
  <2>4. r = 1  BY <1>4, <2>2, <2>3 DEF Leg
  <2>5. k \in 0..(Legs - 1)  BY <1>1, <2>3, <2>4
  <2>6. j = M + 2 + 3 * k  BY <1>1, <2>2, <2>3, <2>4
  <2>7. QED  BY <2>5, <2>6
<1>5. QED  BY <1>2, <1>4 DEF SendsAt, M, all

LEMMA SendsNumbered ==
    ASSUME NEW op \in DOMAIN Order!Op
    PROVE  SendsAt(Order!Op[op].steps, Base[op]) /\ Base[op] \in Nat
<1>0. Legs \in Nat \ {0} /\ 0 \in 0..(Legs - 1)
  BY PartsAssumption DEF Order!OrdersAssumption
<1>1. SendsAt(Order!PlaceBracketOrder.steps, 3)
  <2>1. PICK s \in Seq(Preparing) : Len(s) = 3 /\ Order!PlaceBracketOrder = WithLegs(s)
    BY LegOperations
  <2>2. Len(s) > 0  BY <2>1
  <2>3. QED  BY <2>1, <2>2, LegsSend
<1>2. SendsAt(Order!PlaceOcaGroup.steps, 3 + Legs)
  <2>1. PICK s \in Seq(Preparing) : Len(s) = 3 + Legs /\ Order!PlaceOcaGroup = WithLegs(s)
    BY LegOperations
  <2>2. Len(s) > 0  BY <1>0, <2>1
  <2>3. QED  BY <2>1, <2>2, LegsSend
<1>3. ASSUME NEW steps, NEW base \in Nat, Len(steps) \in Nat,
             \A j \in 1..Len(steps) : steps[j] \in {"send", "cancel"} => j = base + 2
      PROVE  SendsAt(steps, base)
  <2>1. base + 2 = base + 2 + 3 * 0  BY <1>3
  <2>2. QED  BY <1>0, <1>3, <2>1 DEF SendsAt
<1>4. /\ SendsAt(Order!PlaceOrder.steps, 4) /\ SendsAt(Order!CancelOrder.steps, 3)
      /\ SendsAt(Order!ModifyOrder.steps, 3)
  <2> DEFINE Fits(steps, base) ==
                Len(steps) \in Nat /\ \A j \in 1..Len(steps) :
                    steps[j] \in {"send", "cancel"} => j = base + 2
  <2>1. Fits(Order!PlaceOrder.steps, 4)  BY DEF Order!PlaceOrder, Order!Operation
  <2>2. Fits(Order!CancelOrder.steps, 3)  BY DEF Order!CancelOrder, Order!Operation
  <2>3. Fits(Order!ModifyOrder.steps, 3)  BY DEF Order!ModifyOrder, Order!Operation
  <2>4. QED  BY <1>3, <2>1, <2>2, <2>3
<1>5. /\ SendsAt(Order!PreviewOrder.steps, 2) /\ SendsAt(Order!CancelAllOrders.steps, 1)
      /\ SendsAt(Order!ExerciseOption.steps, 2)
  <2> DEFINE Fits(steps, base) ==
                Len(steps) \in Nat /\ \A j \in 1..Len(steps) :
                    steps[j] \in {"send", "cancel"} => j = base + 2
  <2>1. Fits(Order!PreviewOrder.steps, 2)  BY DEF Order!PreviewOrder, Order!Operation
  <2>2. Fits(Order!CancelAllOrders.steps, 1)  BY DEF Order!CancelAllOrders, Order!Operation
  <2>3. Fits(Order!ExerciseOption.steps, 2)  BY DEF Order!ExerciseOption, Order!Operation
  <2>4. QED  BY <1>3, <2>1, <2>2, <2>3
<1>6. /\ SendsAt(Order!LoadOpenOrders.steps, 0) /\ SendsAt(Order!LoadExecutions.steps, 0)
      /\ SendsAt(Order!LoadCompletedOrders.steps, 0)
      /\ SendsAt(Order!GetAllOpenOrders.steps, 0)
  BY DEF SendsAt, Order!LoadOpenOrders, Order!LoadExecutions, Order!LoadCompletedOrders,
         Order!GetAllOpenOrders, Order!Operation
<1>7. QED  BY <1>0, <1>1, <1>2, <1>4, <1>5, <1>6 DEF Order!Op, Base

\* What a call has sent, and what of it is at IBKR.
BookFits(q, b) ==
    /\ b <= q.attempted /\ q.trades <= q.attempted /\ q.attempted <= Legs
    /\ q.st = "run" => Before(q.op, q.at, q.attempted)

OrderBounds ==
    /\ oUp \in BOOLEAN /\ oSession \in 1..OrderSessions
    /\ ~oUp => oSession < OrderSessions
    /\ oOutages \in 0..MaxOutages
    /\ \A c \in OrderCalls : BookFits(oCall[c], oBroker[c])

\* The record p of a call that goes on from q without an order.
Continues(q, p) ==
    /\ p.op = q.op /\ p.attempted = q.attempted /\ p.trades = q.trades
    /\ p.st = "run" => q.st = "run" /\ p.at \in {q.at, q.at + 1}
Same(q, p) ==
    /\ DOMAIN p = DOMAIN q
    /\ p.op = q.op /\ p.at = q.at /\ p.st = q.st
    /\ p.attempted = q.attempted /\ p.trades = q.trades

LEMMA ContinuesFits ==
    ASSUME NEW q \in OrderRecord, NEW p, NEW b \in Nat, NEW bb,
           BookFits(q, b), Continues(q, p), bb \in {0, b}
    PROVE  BookFits(p, bb)
<1>1. q.at \in Nat /\ q.attempted \in Nat /\ q.op \in DOMAIN Order!Op  BY DEF OrderRecord
<1>2. Base[q.op] \in Nat  BY <1>1, SendsNumbered
<1>3. \A at \in {q.at, q.at + 1} :
        Before(q.op, q.at, q.attempted) => Before(q.op, at, q.attempted)
  BY <1>1, <1>2 DEF Before
<1>4. QED  BY <1>1, <1>3 DEF BookFits, Continues

\* One order more: there is a leg it is the order of.
LEMMA OneMoreFits ==
    ASSUME NEW q \in OrderRecord, q.at \in 1..LastStep(q), q.st = "run",
           NextStepOf(q) \in {"send", "cancel"}, BookFits(q, 0)
    PROVE  /\ q.attempted + 1 <= Legs
           /\ Before(q.op, q.at + 1, q.attempted + 1)
<1>0. Legs \in Nat \ {0}  BY PartsAssumption DEF Order!OrdersAssumption
<1>1. q.at \in Nat /\ q.attempted \in Nat /\ q.op \in DOMAIN Order!Op  BY DEF OrderRecord
<1>2. Base[q.op] \in Nat /\ SendsAt(Order!Op[q.op].steps, Base[q.op])
  BY <1>1, SendsNumbered
<1>3. PICK k \in 0..(Legs - 1) : q.at = Base[q.op] + 2 + 3 * k
  BY <1>2 DEF SendsAt, LastStep, NextStepOf
<1>4. Before(q.op, q.at, q.attempted)  BY DEF BookFits
<1>5. q.attempted <= k  BY <1>0, <1>1, <1>2, <1>3, <1>4 DEF Before
<1>6. q.attempted + 1 <= Legs  BY <1>0, <1>1, <1>5
<1>7. 3 * (q.attempted + 1) + Base[q.op] <= q.at + 1
  BY <1>0, <1>1, <1>2, <1>3, <1>5
<1>8. QED  BY <1>6, <1>7 DEF Before

LEMMA GoesOnSame ==
    ASSUME NEW q \in OrderRecord, NEW p, Same(q, p)
    PROVE  /\ Continues(q, p) /\ Continues(q, Order!Advance(p))
           /\ \A end : Continues(q, Order!Raises(p, end))
<1>1. {"op", "at", "st", "attempted", "trades", "end", "own_envelope"} \subseteq DOMAIN p
  BY DEF OrderRecord, Same
<1>2. Continues(q, p)  BY DEF Continues, Same
<1>3. /\ Continues(p, [p EXCEPT !.st = "over", !.end = "ok"])
      /\ Continues(p, [p EXCEPT !.at = @ + 1])
  BY <1>1 DEF Continues
<1>4. \A end, e :
        /\ Continues(p, [p EXCEPT !.st = "record", !.end = end, !.own_envelope = e])
        /\ Continues(p, [p EXCEPT !.st = "over", !.end = end])
  BY <1>1 DEF Continues
<1>5. Continues(p, Order!Advance(p))  BY <1>3 DEF Order!Advance
<1>6. \A end : Continues(p, Order!Raises(p, end))  BY <1>4 DEF Order!Raises
<1>7. \A r : Continues(p, r) => Continues(q, r)  BY DEF Continues, Same
<1>8. QED  BY <1>2, <1>5, <1>6, <1>7

\* What no order depends on.
LEMMA AlikeRecords ==
    ASSUME NEW q \in OrderRecord
    PROVE  /\ Same(q, q)
           /\ \A own : Same(q, [q EXCEPT !.own = own])
           /\ \A refused : Same(q, [q EXCEPT !.refused = refused])
           /\ \A lost : Same(q, [q EXCEPT !.lost = lost])
           /\ \A status : Same(q, [q EXCEPT !.status = status])
           /\ \A e : Same(q, [q EXCEPT !.own_envelope = e])
           /\ \A e, lost : Same(q, [q EXCEPT !.own_envelope = e, !.lost = lost])
<1>1. {"op", "at", "st", "attempted", "trades"} \subseteq DOMAIN q  BY DEF OrderRecord
<1>2. QED  BY <1>1 DEF Same

LEMMA EndedRecords ==
    ASSUME NEW q \in OrderRecord, NEW st \in {"waiting", "record", "undo", "over"}
    PROVE  /\ Continues(q, [q EXCEPT !.st = st])
           /\ \A end : Continues(q, [q EXCEPT !.st = st, !.end = end])
           /\ \A lost : Continues(q, [q EXCEPT !.st = st, !.lost = lost])
           /\ \A lost, end : Continues(q, [q EXCEPT !.st = st, !.lost = lost, !.end = end])
           /\ \A lost, end : Continues(q, [q EXCEPT !.st = st, !.end = end, !.lost = lost])
           /\ \A end, status :
                 Continues(q, [q EXCEPT !.st = st, !.end = end,
                                  !.own_envelope.answered = TRUE,
                                  !.own_envelope.status = status])
<1>1. {"op", "at", "st", "attempted", "trades", "end", "lost", "own_envelope"}
        \subseteq DOMAIN q
  BY DEF OrderRecord
<1>2. QED  BY <1>1 DEF Continues

-----------------------------------------------------------------------------

LEMMA PreparesContinue ==
    ASSUME OrdersInv, NEW c \in OrderCalls,
           \/ Order!Reserve(c) \/ Order!ReserveFails(c) \/ Order!Replay(c)
           \/ Order!Connect(c) \/ Order!Asks(c) \/ Order!Qualified(c) \/ Order!Looks(c)
           \/ Order!Decides(c) \/ Order!Waits(c) \/ Order!SendRefused(c)
           \/ Order!StatusKnown(c) \/ Order!Checked(c)
    PROVE  /\ \E p : Order!Becomes(c, p) /\ Continues(oCall[c], p)
           /\ UNCHANGED <<oUp, oSession, oBroker>>
           /\ \/ UNCHANGED oOutages
              \/ oOutages < MaxOutages /\ oOutages' = oOutages + 1
<1> DEFINE q == oCall[c]
<1>1. q \in OrderRecord  BY DEF OrdersInv
<1>2. /\ Continues(q, Order!Advance(q))
      /\ Continues(q, Order!Raises(q, "failed"))
  BY <1>1, AlikeRecords, GoesOnSame
<1>3. /\ Continues(q, Order!Advance([q EXCEPT !.own = oSession]))
      /\ Continues(q, Order!Advance([q EXCEPT !.refused = TRUE]))
  BY <1>1, AlikeRecords, GoesOnSame
<1>4. /\ Continues(q, [q EXCEPT !.st = "waiting"])
      /\ \A end : Continues(q, [q EXCEPT !.st = "over", !.end = end])
  BY <1>1, EndedRecords
<1>5. \A status : Continues(q, [q EXCEPT !.st = "record", !.end = "rejected",
                                  !.own_envelope.answered = TRUE,
                                  !.own_envelope.status = status])
  BY <1>1, EndedRecords
<1> HIDE DEF q
<1>6. CASE Order!Reserve(c) \/ Order!ReserveFails(c)
  BY <1>2, <1>4, <1>6 DEF Order!Reserve, Order!ReserveFails, q
<1>7. CASE Order!Replay(c) \/ Order!Connect(c)
  BY <1>2, <1>3, <1>4, <1>7 DEF Order!Replay, Order!Connect, Order!World, q
<1>8. CASE Order!Asks(c) \/ Order!Looks(c) \/ Order!Waits(c)
  BY <1>2, <1>3, <1>8 DEF Order!Asks, Order!Looks, Order!Waits, Order!World, q
<1>9. CASE Order!Qualified(c) \/ Order!Decides(c)
  BY <1>2, <1>5, <1>9 DEF Order!Qualified, Order!Decides, Order!World, q
<1>10. CASE Order!SendRefused(c) \/ Order!StatusKnown(c) \/ Order!Checked(c)
  BY <1>2, <1>10 DEF Order!SendRefused, Order!StatusKnown, Order!Checked, Order!World, q
<1>11. QED  BY <1>6, <1>7, <1>8, <1>9, <1>10

LEMMA RecordsContinue ==
    ASSUME OrdersInv, NEW c \in OrderCalls,
           \/ Order!Writes(c) \/ Order!WritesRecord(c) \/ Order!CancelsWhatIf(c)
           \/ Order!Cancelled(c) \/ Order!CancelledInRecord(c)
           \/ Order!CancelledInUndo(c) \/ Order!OrderMoves(c)
    PROVE  /\ \E p : Order!Becomes(c, p) /\ Continues(oCall[c], p)
           /\ UNCHANGED <<oUp, oSession, oOutages>>
           /\ UNCHANGED oBroker \/ oBroker' = [oBroker EXCEPT ![c] = 0]
<1> DEFINE q == oCall[c]
<1>1. q \in OrderRecord  BY DEF OrdersInv
<1>2. \A e, lost : Continues(q, Order!Advance([q EXCEPT !.own_envelope = e, !.lost = lost]))
  BY <1>1, AlikeRecords, GoesOnSame
<1>3. \A p : Same(q, p) => Continues(q, Order!AfterUndo(p))
  <2> SUFFICES ASSUME NEW p, Same(q, p) PROVE Continues(q, Order!AfterUndo(p))  OBVIOUS
  <2>1. Continues(q, Order!Advance(p))  BY <1>1, GoesOnSame
  <2>2. Continues(q, [p EXCEPT !.st = "over"])
    BY <1>1 DEF OrderRecord, Same, Continues
  <2>3. QED  BY <2>1, <2>2 DEF Order!AfterUndo
<1>4. /\ Continues(q, Order!AfterUndo(q))
      /\ \A e : Continues(q, Order!AfterUndo([q EXCEPT !.own_envelope = e]))
  BY <1>1, <1>3, AlikeRecords
<1>5. \A lost : Continues(q, Order!Raises([q EXCEPT !.lost = lost], "cancelled"))
  BY <1>1, AlikeRecords, GoesOnSame
<1>6. \A st \in {"undo", "over"} : \A lost :
        /\ Continues(q, [q EXCEPT !.st = st, !.lost = lost])
        /\ Continues(q, [q EXCEPT !.st = st, !.lost = lost, !.end = "cancelled"])
        /\ Continues(q, [q EXCEPT !.st = st, !.end = "cancelled", !.lost = lost])
  BY <1>1, EndedRecords
<1>7. \A status : Continues(q, [q EXCEPT !.status = status])
  BY <1>1, AlikeRecords, GoesOnSame
<1> HIDE DEF q
<1>8. CASE Order!Writes(c)  BY <1>2, <1>8 DEF Order!Writes, q
<1>9. CASE Order!WritesRecord(c)
  <2>1. PICK st \in {"undo", "over"} :
            Order!Becomes(c, [q EXCEPT !.st = st, !.lost = ~oRedis])
    BY <1>9 DEF Order!WritesRecord, q
  <2>2. QED  BY <1>6, <1>9, <2>1 DEF Order!WritesRecord, q
<1>10. CASE Order!CancelsWhatIf(c)  BY <1>4, <1>10 DEF Order!CancelsWhatIf, q
<1>11. CASE Order!Cancelled(c)  BY <1>5, <1>11 DEF Order!Cancelled, Order!World, q
<1>12. CASE Order!CancelledInRecord(c)
  <2>1. PICK st \in {"undo", "over"} :
            Order!Becomes(c, [q EXCEPT !.st = st, !.lost = TRUE, !.end = "cancelled"])
    BY <1>12 DEF Order!CancelledInRecord, q
  <2>2. QED  BY <1>6, <1>12, <2>1 DEF Order!CancelledInRecord, Order!World, q
<1>13. CASE Order!CancelledInUndo(c)
  BY <1>6, <1>13 DEF Order!CancelledInUndo, q
<1>14. CASE Order!OrderMoves(c)  BY <1>7, <1>14 DEF Order!OrderMoves, Order!World, q
<1>15. QED  BY <1>8, <1>9, <1>10, <1>11, <1>12, <1>13, <1>14

LEMMA SentFits ==
    ASSUME NEW q \in OrderRecord, q.at \in 1..LastStep(q), q.st = "run",
           NextStepOf(q) \in {"send", "cancel"}, NEW b \in Nat, BookFits(q, b),
           NEW p, DOMAIN p = DOMAIN q, p.op = q.op, p.at = q.at, p.st = q.st,
           p.attempted = q.attempted + 1, p.trades \in {q.trades, q.trades + 1},
           NEW bb \in {b, b + 1}
    PROVE  /\ BookFits(Order!Advance(p), bb)
           /\ \A end : BookFits(Order!Raises(p, end), bb)
<1>1. /\ {"op", "at", "st", "attempted", "trades", "end", "own_envelope"} \subseteq DOMAIN p
      /\ q.attempted \in Nat /\ q.trades \in Nat /\ q.at \in Nat
  BY DEF OrderRecord
<1>2. Legs \in Nat  BY PartsAssumption DEF Order!OrdersAssumption
<1>3. BookFits(q, 0)  BY <1>1 DEF BookFits
<1>4. p.attempted <= Legs /\ Before(p.op, p.at + 1, p.attempted)
  BY <1>3, OneMoreFits
<1>5. bb <= p.attempted /\ p.trades <= p.attempted
  BY <1>1 DEF BookFits
<1>6. ASSUME NEW r, r.attempted = p.attempted, r.trades = p.trades, r.op = p.op,
             r.st = "run" => r.at = p.at + 1
      PROVE  BookFits(r, bb)
  BY <1>4, <1>5, <1>6 DEF BookFits
<1>7. /\ BookFits([p EXCEPT !.st = "over", !.end = "ok"], bb)
      /\ BookFits([p EXCEPT !.at = @ + 1], bb)
  BY <1>1, <1>6
<1>8. \A end, e :
        /\ BookFits([p EXCEPT !.st = "record", !.end = end, !.own_envelope = e], bb)
        /\ BookFits([p EXCEPT !.st = "over", !.end = end], bb)
  BY <1>1, <1>6
<1>9. QED  BY <1>7, <1>8 DEF Order!Advance, Order!Raises

LEMMA OrdersSent ==
    ASSUME OrdersInv, OrderBounds, NEW c \in OrderCalls,
           Order!Sends(c) \/ Order!SendRaises(c) \/ Order!SendsCancel(c)
    PROVE  /\ \E p : Order!Becomes(c, p) /\ BookFits(p, oBroker'[c])
           /\ UNCHANGED <<oUp, oSession, oOutages>>
           /\ \A d \in OrderCalls \ {c} : oBroker'[d] = oBroker[d]
<1> DEFINE q == oCall[c]
           b == oBroker[c]
<1>1. /\ q \in OrderRecord /\ q.at \in 1..LastStep(q) /\ b \in Nat /\ BookFits(q, b)
      /\ oBroker \in [OrderCalls -> Nat]
  BY DEF OrdersInv, CallFits, OrderBounds
<1>2. q.st = "run" /\ NextStepOf(q) \in {"send", "cancel"}
  <2>1. Order!At(c, {"send"}) \/ Order!At(c, {"cancel"})
    BY DEF Order!Sends, Order!SendRaises, Order!SendsCancel
  <2>2. QED  BY <2>1, AtStep
<1>3. /\ UNCHANGED <<oUp, oSession, oOutages>>
      /\ oBroker' = oBroker \/ oBroker' = [oBroker EXCEPT ![c] = @ + 1]
  BY DEF Order!Sends, Order!SendRaises, Order!SendsCancel, Order!World, Order!Arrives
<1>4. /\ oBroker'[c] \in {b, b + 1}
      /\ \A d \in OrderCalls \ {c} : oBroker'[d] = oBroker[d]
  BY <1>1, <1>3
<1>5. PICK p, r : /\ p = [q EXCEPT !.attempted = @ + 1, !.trades = @ + 1]
                  /\ r = [q EXCEPT !.attempted = @ + 1]
  OBVIOUS
<1>6. /\ DOMAIN p = DOMAIN q /\ p.op = q.op /\ p.at = q.at /\ p.st = q.st
      /\ p.attempted = q.attempted + 1 /\ p.trades = q.trades + 1
      /\ DOMAIN r = DOMAIN q /\ r.op = q.op /\ r.at = q.at /\ r.st = q.st
      /\ r.attempted = q.attempted + 1 /\ r.trades = q.trades
  BY <1>1, <1>5 DEF OrderRecord
<1>7. \/ Order!Becomes(c, Order!Advance(p)) \/ Order!Becomes(c, Order!Raises(r, "failed"))
      \/ Order!Becomes(c, Order!Advance(r)) \/ Order!Becomes(c, Order!Raises(p, "failed"))
  BY <1>5 DEF Order!Sends, Order!SendRaises, Order!SendsCancel
<1> HIDE DEF q, b
<1>8. /\ BookFits(Order!Advance(p), oBroker'[c])
      /\ BookFits(Order!Raises(p, "failed"), oBroker'[c])
  BY <1>1, <1>2, <1>4, <1>6, SentFits
<1>9. /\ BookFits(Order!Advance(r), oBroker'[c])
      /\ BookFits(Order!Raises(r, "failed"), oBroker'[c])
  BY <1>1, <1>2, <1>4, <1>6, SentFits
<1>10. QED  BY <1>3, <1>4, <1>7, <1>8, <1>9

LEMMA CallKeepsBounds ==
    ASSUME OrdersInv, OrderBounds, NEW c \in OrderCalls, Order!Step(c)
    PROVE  OrderBounds'
<1> DEFINE q == oCall[c]
<1>1. /\ q \in OrderRecord /\ oBroker[c] \in Nat /\ BookFits(q, oBroker[c])
      /\ oCall \in [OrderCalls -> OrderRecord] /\ oBroker \in [OrderCalls -> Nat]
      /\ MaxOutages \in Nat
  BY PartsAssumption DEF OrdersInv, OrderBounds, Order!OrdersAssumption
<1>2. ASSUME NEW p, Order!Becomes(c, p), BookFits(p, oBroker'[c]),
             \A d \in OrderCalls \ {c} : oBroker'[d] = oBroker[d],
             UNCHANGED <<oUp, oSession>>, oOutages' \in 0..MaxOutages
      PROVE  OrderBounds'
  <2>1. \A d \in OrderCalls : oCall'[d] = IF d = c THEN p ELSE oCall[d]
    BY <1>1, <1>2 DEF Order!Becomes
  <2>2. QED  BY <1>2, <2>1 DEF OrderBounds
<1>3. ASSUME NEW p, Order!Becomes(c, p), Continues(q, p),
             UNCHANGED oBroker \/ oBroker' = [oBroker EXCEPT ![c] = 0],
             UNCHANGED <<oUp, oSession>>, oOutages' \in 0..MaxOutages
      PROVE  OrderBounds'
  <2>1. /\ oBroker'[c] \in {0, oBroker[c]}
        /\ \A d \in OrderCalls \ {c} : oBroker'[d] = oBroker[d]
    BY <1>1, <1>3
  <2>2. BookFits(p, oBroker'[c])  BY <1>1, <1>3, <2>1, ContinuesFits
  <2>3. QED  BY <1>2, <1>3, <2>1, <2>2
<1>4. oOutages \in 0..MaxOutages  BY DEF OrderBounds
<1>5. oOutages < MaxOutages => oOutages + 1 \in 0..MaxOutages  BY <1>1, <1>4
<1>6. CASE Order!Sends(c) \/ Order!SendRaises(c) \/ Order!SendsCancel(c)
  BY <1>2, <1>4, <1>6, OrdersSent
<1>7. CASE \/ Order!Reserve(c) \/ Order!ReserveFails(c) \/ Order!Replay(c)
           \/ Order!Connect(c) \/ Order!Asks(c) \/ Order!Qualified(c) \/ Order!Looks(c)
           \/ Order!Decides(c) \/ Order!Waits(c) \/ Order!SendRefused(c)
           \/ Order!StatusKnown(c) \/ Order!Checked(c)
  BY <1>3, <1>4, <1>5, <1>7, PreparesContinue
<1>8. CASE \/ Order!Writes(c) \/ Order!WritesRecord(c) \/ Order!CancelsWhatIf(c)
           \/ Order!Cancelled(c) \/ Order!CancelledInRecord(c)
           \/ Order!CancelledInUndo(c) \/ Order!OrderMoves(c)
  BY <1>3, <1>4, <1>8, RecordsContinue
<1>9. QED  BY <1>6, <1>7, <1>8 DEF Order!Step

LEMMA OrderBoundsHold ==
    OrdersInv /\ OrderBounds /\ [SuiteNext]_<<part, vars, orderVars, streamVars, mcpVars>>
        => OrderBounds'
<1> SUFFICES ASSUME OrdersInv, OrderBounds,
                    [SuiteNext]_<<part, vars, orderVars, streamVars, mcpVars>>
             PROVE  OrderBounds'
  OBVIOUS
<1>1. {OrderSessions, MaxOutages} \subseteq Nat
  BY PartsAssumption DEF Order!OrdersAssumption
<1>2. CASE \/ Order!SessionEnds \/ Order!SessionBegins \/ Order!RedisFails
           \/ Order!RedisReturns
  <2>1. UNCHANGED <<oCall, oBroker>>
    BY <1>2
    DEF Order!SessionEnds, Order!SessionBegins, Order!RedisFails, Order!RedisReturns
  <2>2. \A c \in OrderCalls : BookFits(oCall'[c], oBroker'[c])
    BY <2>1 DEF OrderBounds
  <2>3. /\ (oUp \in BOOLEAN /\ oSession \in 1..OrderSessions)'
        /\ (~oUp => oSession < OrderSessions)'
    <3>1. /\ oUp \in BOOLEAN /\ oSession \in 1..OrderSessions
          /\ ~oUp => oSession < OrderSessions
      BY DEF OrderBounds
    <3>2. CASE Order!SessionEnds  BY <3>1, <3>2 DEF Order!SessionEnds
    <3>3. CASE Order!SessionBegins
      <4>1. ~oUp /\ oUp' = TRUE /\ oSession' = oSession + 1
        BY <3>3 DEF Order!SessionBegins
      <4>2. oSession + 1 \in 1..OrderSessions  BY <1>1, <3>1, <4>1
      <4>3. QED  BY <4>1, <4>2
    <3>4. CASE Order!RedisFails \/ Order!RedisReturns
      BY <3>1, <3>4 DEF Order!RedisFails, Order!RedisReturns
    <3>5. QED  BY <1>2, <3>2, <3>3, <3>4
  <2>4. oOutages' \in 0..MaxOutages
    BY <1>1, <1>2
    DEF OrderBounds, Order!SessionEnds, Order!SessionBegins, Order!RedisFails,
        Order!RedisReturns
  <2>5. QED  BY <2>2, <2>3, <2>4 DEF OrderBounds
<1>3. CASE UNCHANGED orderVars  BY <1>3 DEF OrderBounds, orderVars
<1>4. QED
  BY <1>2, <1>3, CallKeepsBounds
  DEF Order!Next, SuiteNext, RoutesSuite, GuardedSuite, OrdersSuite, StreamsSuite, McpSuite

LEMMA OrdersTyped == SuiteSpec => [](Order!TypeOK)
<1>1. SuiteInit => OrderBounds
  <2> SUFFICES ASSUME SuiteInit PROVE OrderBounds  OBVIOUS
  <2>1. Legs \in Nat /\ OrderSessions \in Nat \ {0} /\ MaxOutages \in Nat
    BY PartsAssumption DEF Order!OrdersAssumption
  <2>2. \A c \in OrderCalls :
          /\ oBroker[c] = 0 /\ oCall[c].attempted = 0 /\ oCall[c].trades = 0
    BY DEF SuiteInit, Order!Init
  <2>3. \A c \in OrderCalls : BookFits(oCall[c], oBroker[c])
    BY <2>1, <2>2 DEF BookFits, Before
  <2>4. QED  BY <2>1, <2>3 DEF OrderBounds, SuiteInit, Order!Init
<1>2. OrdersInv /\ OrderBounds => Order!TypeOK
  <2> SUFFICES ASSUME OrdersInv, OrderBounds PROVE Order!TypeOK  OBVIOUS
  <2>1. Legs \in Nat /\ OrderSessions \in Nat  BY PartsAssumption DEF Order!OrdersAssumption
  <2>2. ASSUME NEW c \in OrderCalls
        PROVE  /\ oBroker[c] \in 0..Legs
               /\ oCall[c] \in OrderRecord /\ oCall[c].own \in 0..OrderSessions
               /\ oCall[c].attempted \in 0..Legs /\ oCall[c].trades \in 0..Legs
    <3>1. /\ oCall[c] \in OrderRecord /\ oBroker[c] \in Nat /\ oCall[c].own <= oSession
          /\ BookFits(oCall[c], oBroker[c]) /\ oSession \in 1..OrderSessions
      BY DEF OrdersInv, CallFits, OrderBounds
    <3>2. /\ oCall[c].own \in Nat /\ oCall[c].attempted \in Nat /\ oCall[c].trades \in Nat
      BY <3>1 DEF OrderRecord
    <3>3. QED  BY <2>1, <3>1, <3>2 DEF BookFits
  <2>3. oCall \in [OrderCalls ->
          [op : DOMAIN Order!Op, at : Nat, own : 0..OrderSessions,
           st : {"run", "waiting", "record", "undo", "over"},
           own_envelope : Order!Envelope, attempted : 0..Legs, trades : 0..Legs,
           status : Order!Status, refused : BOOLEAN, lost : BOOLEAN,
           end : {"none", "ok", "replayed", "rejected", "failed", "cancelled"}]]
    BY <2>2 DEF OrdersInv, OrderRecord
  <2>4. oBroker \in [OrderCalls -> 0..Legs]  BY <2>2 DEF OrdersInv
  <2>5. QED  BY <2>3, <2>4 DEF Order!TypeOK, OrdersInv, OrderBounds
<1>3. QED  BY <1>1, <1>2, OrdersInvariant, OrderBoundsHold, PTL DEF SuiteSpec

(* Every part of what serves the clients keeps its types: the counts the code
   keeps by hand stay within what they count, the gauge of the streams within
   the streams, the sessions of a shared MCP state within the clients, a
   queue within its bound, and an operation, whatever breaks it off, attempts
   no more orders than it has legs, for any number of each. *)
THEOREM ServingIsTyped == SuiteSpec => []TypesOK
<1>1. RestAssumption  BY PartsAssumption
<1>2. TypesInv => TypeOK  BY <1>1, TypesImply
<1>3. TypesInv /\ Order!TypeOK /\ Ticker!TypeOK /\ Server!TypeOK => TypesOK
  BY <1>2 DEF TypesOK
<1>4. QED  BY <1>3, RequestsTyped, OrdersTyped, StreamsTyped, McpIsTyped, PTL
=============================================================================
