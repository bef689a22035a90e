--------------------------- MODULE StreamingTickers ---------------------------
(***************************************************************************)
(* Ticker streams over Server-Sent Events (src/webapp/routers/             *)
(* streaming.py): the registry of subscriptions, the generator that        *)
(* answers a request with its producer and its watch on the gateway's      *)
(* session, and everything that can end a stream: its client, the time     *)
(* limit of a request, max_updates, DELETE, the age limit, the session.    *)
(*                                                                         *)
(* What a ticker shows is left out: an update is the fact that one was     *)
(* taken.  The line a ticker holds is in FeedRequests; here it is held, in *)
(* the care of the feed's cleanup task, or given back.                     *)
(***************************************************************************)
EXTENDS Naturals, Sequences, FiniteSets

CONSTANTS
    Streams,
    QueueSize,                  \* asyncio.Queue(maxsize=100)
    MaxUpdates,                 \* request.max_updates of each, 0 for no limit
    MaxSessions                 \* bound

StreamAssumption ==
    /\ IsFiniteSet(Streams) /\ MaxUpdates \in [Streams -> Nat]
    /\ {QueueSize, MaxSessions} \subseteq Nat \ {0}

VARIABLES
    up, session,        \* the gateway's session and its generation
    subscriptions,      \* _active_subscriptions
    active,             \* metrics.streaming_subscriptions_active
    stream

vars == <<up, session, subscriptions, active, stream>>

TypeOK ==
    /\ up \in BOOLEAN /\ session \in 1..MaxSessions
    /\ subscriptions \subseteq Streams /\ active \in 0..Cardinality(Streams)
    /\ stream \in [Streams ->
          [pc : {"none", "made", "subscribe", "test", "get", "close", "unsubscribe",
                 "pop", "over", "dropped"},
           own : 0..MaxSessions, line : {"none", "held", "cleanup"},
           queue : Seq({"update", "end"}), producer : BOOLEAN, watcher : BOOLEAN,
           stop : BOOLEAN, old : BOOLEAN, sent : Nat, late : Nat]]
    /\ \A s \in Streams : Len(stream[s].queue) <= QueueSize

NoStream ==
    [pc |-> "none", own |-> 0, line |-> "none", queue |-> <<>>, producer |-> FALSE,
     watcher |-> FALSE, stop |-> FALSE, old |-> FALSE, sent |-> 0, late |-> 0]

Init ==
    /\ up = TRUE /\ session = 1 /\ subscriptions = {} /\ active = 0
    /\ stream = [s \in Streams |-> NoStream]

-----------------------------------------------------------------------------

At(s, pc) == stream[s].pc = pc
Becomes(s, q) == stream' = [stream EXCEPT ![s] = q]
Gateway == <<up, session>>
Registry == <<subscriptions, active>>

\* session_ended is set when the session ends, and a new event replaces it.
Ended(s) == ~up \/ stream[s].own # session

\* Mutant: whoever removes a subscription counts it out.
PopUnseen(s) ==
    /\ subscriptions' = subscriptions \ {s}
    /\ active' = IF active = 0 THEN 0 ELSE active - 1

\* _pop_subscription_locked
Pop(s) ==
    /\ subscriptions' = subscriptions \ {s}
    /\ active' = IF s \in subscriptions THEN active - 1 ELSE active

\* Mutant: the queue has no bound.
PutAlways(queue, x) == Append(queue, x)

Put(queue, x) ==
    Append(IF Len(queue) = QueueSize THEN Tail(queue) ELSE queue, x)

-----------------------------------------------------------------------------
\* POST /ticker, then the generator.

StreamTicker(s) ==
    /\ At(s, "none")
    /\ subscriptions' = subscriptions \cup {s} /\ active' = active + 1
    /\ Becomes(s, [stream[s] EXCEPT !.pc = "made"])
    /\ UNCHANGED Gateway

Begins(s) ==
    /\ At(s, "made")
    /\ Becomes(s, [stream[s] EXCEPT !.pc = "subscribe"])
    /\ UNCHANGED <<Gateway, Registry>>

Subscribed(s) ==
    /\ At(s, "subscribe") /\ up
    /\ Becomes(s, [stream[s] EXCEPT !.pc = "test", !.own = session, !.line = "held",
                                    !.producer = TRUE, !.watcher = TRUE])
    /\ UNCHANGED <<Gateway, Registry>>

\* The ticker is cleaned up by the feed; the client gets an error event.
SubscribeFails(s) ==
    /\ At(s, "subscribe")
    /\ Becomes(s, [stream[s] EXCEPT !.pc = "pop"])
    /\ UNCHANGED <<Gateway, Registry>>

\* _ticker_to_queue
Produces(s) ==
    /\ stream[s].producer
    /\ Becomes(s, IF stream[s].stop \/ Ended(s) THEN [stream[s] EXCEPT !.producer = FALSE]
                  ELSE [stream[s] EXCEPT !.queue = Put(@, "update")])
    /\ UNCHANGED <<Gateway, Registry>>

\* _stop_on_session_end
StopsOnSessionEnd(s) ==
    /\ stream[s].watcher /\ Ended(s)
    /\ Becomes(s, [stream[s] EXCEPT !.watcher = FALSE, !.stop = TRUE,
                                    !.queue = Put(@, "end")])
    /\ UNCHANGED <<Gateway, Registry>>

\* while not stop_event.is_set()
Loops(s) ==
    /\ At(s, "test")
    /\ Becomes(s, [stream[s] EXCEPT !.pc =
          IF stream[s].stop \/ (MaxUpdates[s] > 0 /\ stream[s].sent >= MaxUpdates[s])
          THEN "close" ELSE "get"])
    /\ UNCHANGED <<Gateway, Registry>>

KeepsAlive(s) ==
    /\ At(s, "get") /\ stream[s].queue = <<>>
    /\ Becomes(s, [stream[s] EXCEPT !.pc = "test"])
    /\ UNCHANGED <<Gateway, Registry>>

\* What was taken is sent, unless the session it is of has ended.
Sends(s) ==
    /\ At(s, "get") /\ stream[s].queue # <<>>
    /\ LET q == [stream[s] EXCEPT !.queue = Tail(@)]
       IN  Becomes(s, IF Head(stream[s].queue) = "end" \/ Ended(s)
                      THEN [q EXCEPT !.pc = "close"]
                      ELSE [q EXCEPT !.pc = "test", !.sent = @ + 1,
                                     !.late = IF q.stop THEN @ + 1 ELSE @])
    /\ UNCHANGED <<Gateway, Registry>>

\* The producer and the watch are cancelled.
Closes(s) ==
    /\ At(s, "close")
    /\ Becomes(s, [stream[s] EXCEPT !.pc = "unsubscribe", !.producer = FALSE,
                                    !.watcher = FALSE])
    /\ UNCHANGED <<Gateway, Registry>>

\* unsubscribe_ticker: a task of the feed, shielded, so that a cancellation
\* here only ends the wait for it
Unsubscribes(s) ==
    /\ At(s, "unsubscribe")
    /\ Becomes(s, [stream[s] EXCEPT !.pc = "pop",
                       !.line = IF @ = "held" THEN "cleanup" ELSE @])
    /\ UNCHANGED <<Gateway, Registry>>

CleansUp(s) ==
    /\ stream[s].line = "cleanup"
    /\ Becomes(s, [stream[s] EXCEPT !.line = "none"])
    /\ UNCHANGED <<Gateway, Registry>>

Pops(s) ==
    /\ At(s, "pop")
    /\ Pop(s) /\ Becomes(s, [stream[s] EXCEPT !.pc = "over"])
    /\ UNCHANGED Gateway

-----------------------------------------------------------------------------
\* The client, the registry, the session.

\* The client goes away, or the request's time is up: a generator that was
\* never started has no finally block to run.
ClientGone(s) ==
    /\ stream[s].pc \in {"made", "subscribe", "test", "get"}
    /\ Becomes(s, [stream[s] EXCEPT !.pc =
          CASE @ = "made" -> "dropped"
            [] @ = "subscribe" -> "pop"
            [] OTHER -> "close"])
    /\ UNCHANGED <<Gateway, Registry>>

StopSubscription(s) ==
    /\ s \in subscriptions
    /\ Pop(s) /\ Becomes(s, [stream[s] EXCEPT !.stop = TRUE])
    /\ UNCHANGED Gateway

GrowsOld(s) ==
    /\ ~At(s, "none") /\ ~stream[s].old
    /\ Becomes(s, [stream[s] EXCEPT !.old = TRUE])
    /\ UNCHANGED <<Gateway, Registry>>

\* _cleanup_orphaned_subscriptions, and GET /subscriptions
RemoveExpired ==
    LET expired == {s \in subscriptions : stream[s].old}
    IN  /\ expired # {}
        /\ subscriptions' = subscriptions \ expired
        /\ active' = active - Cardinality(expired)
        /\ stream' = [s \in Streams |->
              IF s \in expired THEN [stream[s] EXCEPT !.stop = TRUE] ELSE stream[s]]
        /\ UNCHANGED Gateway

\* The feed releases the lines of a session that ends.
SessionEnds ==
    /\ up /\ session < MaxSessions /\ up' = FALSE
    /\ stream' = [s \in Streams |-> [stream[s] EXCEPT !.line = "none"]]
    /\ UNCHANGED <<session, Registry>>

SessionBegins ==
    /\ ~up /\ up' = TRUE /\ session' = session + 1
    /\ UNCHANGED <<Registry, stream>>

Generator(s) ==
    \/ Begins(s) \/ Subscribed(s) \/ SubscribeFails(s) \/ Produces(s)
    \/ StopsOnSessionEnd(s) \/ Loops(s) \/ KeepsAlive(s) \/ Sends(s) \/ Closes(s)
    \/ Unsubscribes(s) \/ CleansUp(s) \/ Pops(s)

Next ==
    \/ \E s \in Streams :
          StreamTicker(s) \/ Generator(s) \/ ClientGone(s) \/ StopSubscription(s)
            \/ GrowsOld(s)
    \/ RemoveExpired \/ SessionEnds \/ SessionBegins

Spec == Init /\ [][Next]_vars

-----------------------------------------------------------------------------
(* A stream that is over, however it ended, has left the registry and holds
   neither its line nor a task, and the gauge counts the registry whoever
   removed a subscription first: its generator, DELETE, the age limit
   (event_generator, _pop_subscription_locked). *)
StreamsCleanUp ==
    /\ active = Cardinality(subscriptions)
    /\ \A s \in Streams : At(s, "over") =>
          /\ s \notin subscriptions
          /\ stream[s].line # "held" /\ ~stream[s].producer /\ ~stream[s].watcher

(* After a stream was stopped, by DELETE, by its age or by the end of its
   session, at most the one update its generator already waits for is sent,
   however many are queued (event_generator). *)
StopIsPrompt == \A s \in Streams : stream[s].late <= 1
=============================================================================
