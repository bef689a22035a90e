-------------------------------- MODULE Orders --------------------------------
(***************************************************************************)
(* The order client (src/feeds/ibkr_order_client.py): what each operation  *)
(* awaits and sends and in which order, the reservation of idempotency     *)
(* keys in Redis, the envelope that records an operation, and what becomes *)
(* of it when the session ends, the gateway refuses, Redis is away or the  *)
(* caller is cancelled.                                                    *)
(*                                                                         *)
(* An operation is the sequence of its steps; guard says in which of them  *)
(* an exception is recorded in the envelope.  A step that awaits lets any  *)
(* other task run.  Prices, contracts and texts are left out.              *)
(***************************************************************************)
EXTENDS Naturals, Sequences

CONSTANTS
    Calls,          \* tasks, one operation each
    Asked,          \* the operations the calls may be, one function each
    Legs,           \* orders of a bracket or an OCA group
    NoCall,
    MaxSessions, MaxOutages     \* bounds

VARIABLES
    up, session,        \* the gateway's session and its generation
    redis, outages,
    key,                \* who reserved the idempotency key, in Redis
    envelope,           \* the envelope of each call, in Redis
    broker,             \* how many orders of each call IBKR has
    call

vars == <<up, session, redis, outages, key, envelope, broker, call>>

-----------------------------------------------------------------------------
\* The operations.  "connect" is ensure_connected and capture_ibkr_session,
\* "ask" a read with the session checked before and after, "slot" the message
\* limiter, "send" the check after it and placeOrder, "status" the wait for an
\* acknowledgement, "write" the envelope, "final" the envelope with the answer.

Times(n, steps) == [i \in 1..(n * Len(steps)) |-> steps[1 + ((i - 1) % Len(steps))]]
Operation(steps, first, last) == [steps |-> steps, guard |-> first..last]

PlaceOrder ==
    Operation(<<"reserve", "connect", "write", "ask", "slot", "send", "status",
                "check", "final">>, 2, 8)
CancelOrder ==
    Operation(<<"connect", "look", "terminal", "slot", "cancel", "final">>, 4, 5)
ModifyOrder ==
    Operation(<<"connect", "look", "known", "slot", "send", "status", "check",
                "final">>, 4, 7)
PreviewOrder ==
    Operation(<<"connect", "ask", "slot", "send", "wait", "check", "undo",
                "final">>, 3, 6)
PlaceBracketOrder ==
    Operation(<<"connect", "write", "ask">> \o Times(Legs, <<"slot", "send", "check">>)
              \o <<"final">>, 4, 3 + 3 * Legs)
PlaceOcaGroup ==
    Operation(<<"connect", "write">> \o Times(Legs, <<"ask?">>) \o <<"qualified">>
              \o Times(Legs, <<"slot", "send", "check">>) \o <<"final">>,
              4 + Legs, 3 + 4 * Legs)
CancelAllOrders == Operation(<<"connect", "slot", "cancel">>, 1, 0)
ExerciseOption == Operation(<<"connect", "ask", "slot", "send">>, 1, 0)
LoadOpenOrders == Operation(<<"connect", "ask">>, 1, 0)
LoadExecutions == Operation(<<"connect", "ask", "archive">>, 1, 0)
LoadCompletedOrders == Operation(<<"connect", "ask">>, 1, 0)
GetAllOpenOrders == Operation(<<"connect", "ask">>, 1, 0)

Op ==
    [place |-> PlaceOrder, cancel |-> CancelOrder, modify |-> ModifyOrder,
     preview |-> PreviewOrder, bracket |-> PlaceBracketOrder, oca |-> PlaceOcaGroup,
     cancel_all |-> CancelAllOrders, exercise |-> ExerciseOption,
     open |-> LoadOpenOrders, executions |-> LoadExecutions,
     completed |-> LoadCompletedOrders, all_open |-> GetAllOpenOrders]

OrdersAssumption ==
    /\ Asked \subseteq [Calls -> DOMAIN Op]
    /\ {Legs, MaxSessions} \subseteq Nat \ {0} /\ MaxOutages \in Nat
    /\ NoCall \notin Calls

Status == {"pending", "submitted", "filled", "cancelled", "inactive"}
Envelope ==
    [there : BOOLEAN, answered : BOOLEAN, status : Status, reconcile : BOOLEAN]
NoEnvelope ==
    [there |-> FALSE, answered |-> FALSE, status |-> "pending", reconcile |-> FALSE]

TypeOK ==
    /\ up \in BOOLEAN /\ session \in 1..MaxSessions
    /\ redis \in BOOLEAN /\ outages \in 0..MaxOutages
    /\ key \in Calls \cup {NoCall}
    /\ envelope \in [Calls -> Envelope]
    /\ broker \in [Calls -> 0..Legs]
    /\ call \in [Calls ->
          [op : DOMAIN Op, at : Nat, own : 0..MaxSessions,
           st : {"run", "waiting", "record", "undo", "over"},
           own_envelope : Envelope, attempted : 0..Legs, trades : 0..Legs,
           status : Status, refused : BOOLEAN, lost : BOOLEAN,
           end : {"none", "ok", "replayed", "rejected", "failed", "cancelled"}]]

Init ==
    /\ up = TRUE /\ session = 1 /\ redis = TRUE /\ outages = 0
    /\ key = NoCall
    /\ envelope = [c \in Calls |-> NoEnvelope]
    /\ broker = [c \in Calls |-> 0]
    /\ \E ask \in Asked :
             call = [c \in Calls |->
                [op |-> ask[c], at |-> 1, own |-> 0, st |-> "run",
                 own_envelope |-> [NoEnvelope EXCEPT !.there = TRUE],
                 attempted |-> 0, trades |-> 0, status |-> "pending",
                 refused |-> FALSE, lost |-> FALSE, end |-> "none"]]

-----------------------------------------------------------------------------
\* Over the record q of a call.

Steps(q) == Op[q.op].steps
Advance(q) ==
    IF q.at = Len(Steps(q)) THEN [q EXCEPT !.st = "over", !.end = "ok"]
    ELSE [q EXCEPT !.at = @ + 1]

\* _record_interruption
Recorded(q) ==
    [q.own_envelope EXCEPT
        !.answered = TRUE,
        !.reconcile = q.attempted > 0,
        !.status = CASE q.attempted = 0 -> "inactive"
                     [] q.attempted = 1 /\ q.trades = 1 /\ q.op \in {"place", "modify"}
                           -> q.status
                     [] OTHER -> "pending"]

Raises(q, end) ==
    IF q.at \in Op[q.op].guard
    THEN [q EXCEPT !.st = "record", !.end = end, !.own_envelope = Recorded(q)]
    ELSE [q EXCEPT !.st = "over", !.end = end]

Over(c) == call[c].st = "over"
At(c, steps) == call[c].st = "run" /\ Steps(call[c])[call[c].at] \in steps
Becomes(c, q) == call' = [call EXCEPT ![c] = q]
SameSession(c) == up /\ call[c].own = session
World == <<up, session, redis, outages, key, envelope, broker>>

-----------------------------------------------------------------------------
\* Idempotency.

\* Mutant: GET before SET instead of SET NX, and the answer of GET is late.
ReserveOverwrites(c) ==
    /\ At(c, {"reserve"}) /\ redis
    /\ key' = c /\ Becomes(c, Advance(call[c]))
    /\ UNCHANGED <<up, session, redis, outages, envelope, broker>>

\* _reserve_idempotency_key: SET NX, and GET of the uuid that is there
Reserve(c) ==
    /\ At(c, {"reserve"}) /\ redis
    /\ IF key = NoCall
       THEN key' = c /\ Becomes(c, Advance(call[c]))
       ELSE UNCHANGED key /\ Becomes(c, [call[c] EXCEPT !.st = "waiting"])
    /\ UNCHANGED <<up, session, redis, outages, envelope, broker>>

\* Redis fails, before or after the key was set: nothing is sent.
ReserveFails(c) ==
    /\ At(c, {"reserve"}) /\ outages < MaxOutages /\ outages' = outages + 1
    /\ key' \in IF key = NoCall /\ redis THEN {c, key} ELSE {key}
    /\ Becomes(c, Raises(call[c], "failed"))
    /\ UNCHANGED <<up, session, redis, envelope, broker>>

\* _wait_for_idempotent_response
Replay(c) ==
    /\ call[c].st = "waiting"
    /\ IF redis /\ envelope[key].answered
       THEN Becomes(c, [call[c] EXCEPT !.st = "over", !.end = "replayed"])
       ELSE Becomes(c, [call[c] EXCEPT !.st = "over", !.end = "failed"])
    /\ UNCHANGED World

-----------------------------------------------------------------------------
\* The steps.

Connect(c) ==
    /\ At(c, {"connect"})
    /\ Becomes(c, IF up THEN Advance([call[c] EXCEPT !.own = session])
                  ELSE Raises(call[c], "failed"))
    /\ UNCHANGED World

\* _session_read; with_retry gives up
Asks(c) ==
    /\ At(c, {"ask", "ask?"})
    /\ \/ SameSession(c) /\ Becomes(c, Advance(call[c]))
       \/ At(c, {"ask"}) /\ Becomes(c, Raises(call[c], "failed"))
       \/ At(c, {"ask?"}) /\ Becomes(c, Advance([call[c] EXCEPT !.refused = TRUE]))
    /\ UNCHANGED World

\* One leg that cannot be qualified rejects the whole group.
Qualified(c) ==
    /\ At(c, {"qualified"})
    /\ Becomes(c, IF ~call[c].refused THEN Advance(call[c])
                  ELSE [call[c] EXCEPT !.st = "record", !.end = "rejected",
                            !.own_envelope.answered = TRUE,
                            !.own_envelope.status = "inactive"])
    /\ UNCHANGED World

\* _load_open_trades_for_action: a refresh that fails falls back to the
\* orders known in the session.
Looks(c) ==
    /\ At(c, {"look"})
    /\ Becomes(c, IF SameSession(c) THEN Advance(call[c]) ELSE Raises(call[c], "failed"))
    /\ UNCHANGED World

\* Not there or of another account; for a cancel also: already terminal.
Decides(c) ==
    /\ At(c, {"terminal", "known"})
    /\ \/ Becomes(c, Advance(call[c]))
       \/ Becomes(c, Raises(call[c], "failed"))
       \/ /\ At(c, {"terminal"})
          /\ \E status \in {"pending", "cancelled"} :
                Becomes(c, [call[c] EXCEPT !.st = "record", !.end = "rejected",
                              !.own_envelope.answered = TRUE,
                              !.own_envelope.status = status])
    /\ UNCHANGED World

\* The limiter, and the sleep of a preview
Waits(c) ==
    /\ At(c, {"slot", "wait", "archive"})
    /\ Becomes(c, IF At(c, {"slot"}) /\ ~SameSession(c) THEN Raises(call[c], "failed")
                  ELSE Advance(call[c]))
    /\ UNCHANGED World

Arrives(c) ==
    broker' = [broker EXCEPT ![c] = @ + 1]

Sends(c) ==
    /\ At(c, {"send"}) /\ SameSession(c)
    /\ Arrives(c)
    /\ Becomes(c, Advance([call[c] EXCEPT !.attempted = @ + 1, !.trades = @ + 1]))
    /\ UNCHANGED <<up, session, redis, outages, key, envelope>>

\* Mutant: an order counts as attempted only when placeOrder has returned.
SendRaisesUncounted(c) ==
    /\ At(c, {"send"}) /\ SameSession(c)
    /\ (Arrives(c) \/ UNCHANGED broker)
    /\ Becomes(c, Raises(call[c], "failed"))
    /\ UNCHANGED <<up, session, redis, outages, key, envelope>>

\* placeOrder raises; whether IBKR has the order is not known.
SendRaises(c) ==
    /\ At(c, {"send"}) /\ SameSession(c)
    /\ (Arrives(c) \/ UNCHANGED broker)
    /\ Becomes(c, Raises([call[c] EXCEPT !.attempted = @ + 1], "failed"))
    /\ UNCHANGED <<up, session, redis, outages, key, envelope>>

SendRefused(c) ==
    /\ At(c, {"send", "cancel", "check"}) /\ ~SameSession(c)
    /\ Becomes(c, Raises(call[c], "failed"))
    /\ UNCHANGED World

\* cancelOrder and reqGlobalCancel; the order a cancel is for is not modelled
SendsCancel(c) ==
    /\ At(c, {"cancel"}) /\ SameSession(c)
    /\ \/ Becomes(c, Advance([call[c] EXCEPT !.attempted = @ + 1]))
       \/ Becomes(c, Raises([call[c] EXCEPT !.attempted = @ + 1, !.trades = @ + 1], "failed"))
    /\ UNCHANGED World

\* statusEvent, or the end of the five seconds
StatusKnown(c) ==
    /\ At(c, {"status"})
    /\ Becomes(c, Advance(call[c]))
    /\ UNCHANGED World

Checked(c) ==
    /\ At(c, {"check"}) /\ SameSession(c)
    /\ Becomes(c, Advance(call[c]))
    /\ UNCHANGED World

\* _cache_envelope: when Redis is away the order proceeds uncached.
Final(q) ==
    CASE q.op \in {"place", "modify"} -> q.status
      [] q.op \in {"bracket", "oca"} -> "submitted"
      [] OTHER -> "pending"

Writes(c) ==
    /\ At(c, {"write", "final"})
    /\ LET q == call[c]
           last == At(c, {"final"})
           written == [q.own_envelope EXCEPT
                          !.answered = last, !.status = IF last THEN Final(q) ELSE @]
       IN  /\ envelope' = IF redis THEN [envelope EXCEPT ![c] = written] ELSE envelope
           /\ Becomes(c, Advance([q EXCEPT !.own_envelope = written,
                                           !.lost = last /\ ~redis]))
    /\ UNCHANGED <<up, session, redis, outages, key, broker>>

-----------------------------------------------------------------------------
\* The end of a preview: its finally block cancels the what-if order.

MustUndo(q) == q.op = "preview" /\ q.trades > 0

\* The envelope is written in the except block; then finally, then raise.
WritesRecord(c) ==
    /\ call[c].st = "record"
    /\ envelope' = IF redis THEN [envelope EXCEPT ![c] = call[c].own_envelope] ELSE envelope
    /\ Becomes(c, [call[c] EXCEPT !.st = IF MustUndo(call[c]) THEN "undo" ELSE "over",
                                  !.lost = ~redis])
    /\ UNCHANGED <<up, session, redis, outages, key, broker>>

Undoing(c) == At(c, {"undo"}) \/ call[c].st = "undo"
AfterUndo(q) == IF q.st = "undo" THEN [q EXCEPT !.st = "over"] ELSE Advance(q)

\* The limiter or cancelOrder may raise, whatever becomes of the order: the
\* interruption is recorded in the envelope at hand, and only logged.
CancelsWhatIf(c) ==
    /\ Undoing(c)
    /\ LET gone == [broker EXCEPT ![c] = 0]
       IN  \/ SameSession(c) /\ Becomes(c, AfterUndo(call[c])) /\ broker' = gone
           \/ /\ UNCHANGED broker \/ (SameSession(c) /\ broker' = gone)
              /\ Becomes(c, AfterUndo([call[c] EXCEPT !.own_envelope = Recorded(call[c])]))
    /\ UNCHANGED <<up, session, redis, outages, key, envelope>>

-----------------------------------------------------------------------------
\* Cancellation of the caller at an await.  One in an except block's write
\* ends the write; a preview's finally block still runs.

AtAwait(c) ==
    \/ At(c, {"reserve", "connect", "write", "ask", "ask?", "look", "slot", "wait",
              "status", "archive", "final"})
    \/ call[c].st = "waiting"

Cancelled(c) ==
    /\ AtAwait(c) /\ call[c].end # "cancelled"
    /\ Becomes(c, Raises([call[c] EXCEPT !.lost = At(c, {"final"})], "cancelled"))
    /\ UNCHANGED World

CancelledInRecord(c) ==
    /\ call[c].st = "record" /\ call[c].end # "cancelled"
    /\ Becomes(c, [call[c] EXCEPT !.st = IF MustUndo(call[c]) THEN "undo" ELSE "over",
                                  !.lost = TRUE, !.end = "cancelled"])
    /\ UNCHANGED World

CancelledInUndo(c) ==
    /\ Undoing(c) /\ call[c].end # "cancelled"
    /\ envelope' = IF redis THEN [envelope EXCEPT ![c] = Recorded(call[c])] ELSE envelope
    /\ Becomes(c, [call[c] EXCEPT !.st = "over", !.end = "cancelled", !.lost = ~redis])
    /\ UNCHANGED <<up, session, redis, outages, key, broker>>

-----------------------------------------------------------------------------
\* IBKR, the session, Redis.

\* The order is accepted, or filled, or turned inactive; the trade shows it
\* while its session lasts.
OrderMoves(c) ==
    /\ call[c].op \in {"place", "modify"} /\ call[c].trades > 0 /\ SameSession(c)
    /\ ~Over(c) /\ call[c].status = "pending"
    /\ \E status \in {"submitted", "filled", "inactive"} :
          Becomes(c, [call[c] EXCEPT !.status = status])
    /\ UNCHANGED World

SessionEnds ==
    /\ up /\ session < MaxSessions /\ up' = FALSE
    /\ UNCHANGED <<session, redis, outages, key, envelope, broker, call>>
SessionBegins ==
    /\ ~up /\ up' = TRUE /\ session' = session + 1
    /\ UNCHANGED <<redis, outages, key, envelope, broker, call>>
RedisFails ==
    /\ redis /\ outages < MaxOutages /\ redis' = FALSE /\ outages' = outages + 1
    /\ UNCHANGED <<up, session, key, envelope, broker, call>>
RedisReturns ==
    /\ ~redis /\ redis' = TRUE
    /\ UNCHANGED <<up, session, outages, key, envelope, broker, call>>

Step(c) ==
    \/ Reserve(c) \/ ReserveFails(c) \/ Replay(c) \/ Connect(c) \/ Asks(c)
    \/ Qualified(c) \/ Looks(c) \/ Decides(c) \/ Waits(c) \/ Sends(c)
    \/ SendRaises(c) \/ SendRefused(c) \/ SendsCancel(c) \/ StatusKnown(c)
    \/ Checked(c) \/ Writes(c) \/ WritesRecord(c) \/ CancelsWhatIf(c)
    \/ Cancelled(c) \/ CancelledInRecord(c) \/ CancelledInUndo(c)
    \/ OrderMoves(c)

Next ==
    \/ \E c \in Calls : Step(c)
    \/ SessionEnds \/ SessionBegins \/ RedisFails \/ RedisReturns

Spec == Init /\ [][Next]_vars

-----------------------------------------------------------------------------
(* "Concurrent callers with the same key wait for the reserved order's cached
   response instead of submitting another order": of the calls with the key at
   most one ever sends, and one that is answered without sending is answered
   with an envelope of the one that holds the key, whatever Redis and the
   session do meanwhile (_reserve_idempotency_key). *)
OneOrderPerKey ==
    /\ \A c, d \in Calls :
          call[c].op = "place" /\ call[d].op = "place"
             /\ broker[c] > 0 /\ broker[d] > 0 => c = d
    /\ \A c \in Calls :
          call[c].end = "replayed" => key # c /\ envelope[key].answered

(* "Preserve last known broker state without marking uncertain sends
   inactive": the envelope of an operation that broke off asks for
   reconciliation whenever IBKR may have an order of it, and calls an order
   inactive only when none was sent or IBKR said so.  An envelope that could
   not be written is no counterexample (_record_interruption). *)
UncertainOrdersAreMarked ==
    \A c \in Calls :
        Over(c) /\ ~call[c].lost /\ envelope[c].there
            /\ call[c].end \in {"failed", "cancelled", "rejected"} =>
          /\ broker[c] > 0 => envelope[c].reconcile
          /\ envelope[c].status = "inactive" =>
                broker[c] = 0 \/ call[c].status = "inactive"

(* A preview that is over leaves no what-if order at IBKR, unless the session
   it was sent in has ended, or the envelope asks for reconciliation, or could
   not be written (the finally block of preview_order). *)
PreviewsLeaveNoOrder ==
    \A c \in Calls :
        call[c].op = "preview" /\ Over(c) /\ broker[c] > 0
            => ~SameSession(c) \/ call[c].lost \/ envelope[c].reconcile
=============================================================================
