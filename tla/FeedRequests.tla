---------------------------- MODULE FeedRequests ----------------------------
(***************************************************************************)
(* The requests of the feed clients to the IBKR gateway: what each method  *)
(* of src/feeds/ibkr_*.py and equity_reference.py awaits and in which      *)
(* order, and what it gives back when it fails, when its task is cancelled *)
(* and when the gateway's session ends under it.                           *)
(*                                                                         *)
(* A method is the sequence of its steps and the way it cleans up (module  *)
(* FeedMethods); one interpreter runs them.  A with_retry call is two      *)
(* steps, sent and answered.  The steps "permit", "line", "slot", "wait"   *)
(* and calls await: any other task may run, the session may end, the       *)
(* caller may be cancelled.  What a reply contains is left out.            *)
(***************************************************************************)
EXTENDS Naturals, Sequences, SequencesExt, FiniteSetsExt

CONSTANTS
    Method,             \* the methods of the feed clients: FeedMethods
    Requests,           \* tasks
    MethodsOf,          \* the methods a task may be asked for
    MaxLines,           \* market-data lines of the rate limiter
    Rounds,             \* contracts, symbols or pages of one request
    MaxSessions         \* bound on sessions

VARIABLES
    up, session,        \* the gateway's session: up, and its generation
    req                 \* the state of each task

vars == <<up, session, req>>

FeedAssumption ==
    /\ MethodsOf \in [Requests -> SUBSET DOMAIN Method]
    /\ {MaxLines, Rounds, MaxSessions} \subseteq Nat \ {0}

Care == {"none", "bounded", "sync", "late", "depth", "ticker", "retained"}
Record ==
    [m : DOMAIN Method, at : Nat,
     own : 0..MaxSessions,      \* the session it captured
     via : 0..MaxSessions,      \* the session of its call or subscription
     lines : 0..MaxLines, sent : 0..Rounds,
     cut : 0..MaxLines, expired : 0..MaxLines,  \* lines never released
     st : {"idle", "run", "flight", "undo", "free", "kept", "over"},
     end : {"none", "on", "ok", "failed", "cancelled"}]

TypeOK ==
    /\ up \in BOOLEAN /\ session \in 1..MaxSessions
    /\ req \in [Requests -> Record]

Init ==
    /\ up = TRUE /\ session = 1
    /\ \E ask \in [Requests -> UNION {MethodsOf[r] : r \in Requests}] :
          /\ \A r \in Requests : ask[r] \in MethodsOf[r]
          /\ req = [r \in Requests |->
                      [m |-> ask[r], at |-> 1, own |-> 0, via |-> 0, lines |-> 0,
                       sent |-> 0, cut |-> 0, expired |-> 0, st |-> "idle", end |-> "none"]]

-----------------------------------------------------------------------------
\* Over the record q of a request.

Steps(q) == Method[q.m].steps
CareOf(q) == Method[q.m].care
Registers(q) == "keep" \in ToSet(Steps(q))
Live(q) == IF up /\ q.via = session THEN q.sent ELSE 0
Leases(q) == q.lines + q.cut + q.expired
LinesInUse == Cardinality(UNION {{r} \X (1..Leases(req[r])) : r \in Requests})

(* The finally blocks: cancel what was sent, release the lines, then end. *)
Close(q, end) ==
    CASE q.sent > 0 /\ CareOf(q) # "sync" -> [q EXCEPT !.st = "undo", !.end = end]
      [] q.sent = 0 /\ q.lines > 0 -> [q EXCEPT !.st = "free", !.end = end]
      [] OTHER -> [q EXCEPT !.sent = 0, !.end = end,
                            !.st = IF end = "on" THEN "run" ELSE "over"]

Advance(q) ==
    IF q.at = Len(Steps(q)) THEN Close(q, "ok") ELSE [q EXCEPT !.at = @ + 1]

(* A symbol of a batch that failed is given up: its own line is released, in
   a task of its own, and the batch goes on with the next symbol. *)
NextSymbol(q) ==
    [q EXCEPT !.at = 1 + CHOOSE i \in @..Len(Steps(q)) :
                        /\ Steps(q)[i] = "send?"
                        /\ \A j \in @..(i - 1) : Steps(q)[j] # "send?",
              !.st = "free", !.end = "on"]

-----------------------------------------------------------------------------
\* The steps.  r is running and its next step is op.

At(r, ops) ==
    /\ req[r].st = "run"
    /\ Steps(req[r])[req[r].at] \in ops

Becomes(r, q) == req' = [req EXCEPT ![r] = q] /\ UNCHANGED <<up, session>>
Fails(r) == Becomes(r, Close(req[r], "failed"))
SameSession(r) == up /\ req[r].own = session

Begin(r) ==
    /\ req[r].st = "idle"
    /\ Becomes(r, [req[r] EXCEPT !.st = "run"])

EnsureConnected(r) ==
    /\ At(r, {"connect"})
    /\ IF up THEN Becomes(r, Advance(req[r])) ELSE Fails(r)

CaptureSession(r) ==
    /\ At(r, {"session"})
    /\ IF up THEN Becomes(r, Advance([req[r] EXCEPT !.own = session])) ELSE Fails(r)

RequireSession(r) ==
    /\ At(r, {"check", "check?"})
    /\ CASE SameSession(r) -> Becomes(r, Advance(req[r]))
         [] ~SameSession(r) /\ At(r, {"check"}) -> Fails(r)
         [] OTHER -> Becomes(r, NextSymbol(req[r]))

(* with_retry takes the generation and the client when it begins and looks
   at both again when the reply is there. *)
Asks(r) ==
    /\ At(r, {"call", "call?", "ask"})
    /\ IF up /\ req[r].own \in {0, session}
       THEN Becomes(r, [req[r] EXCEPT !.st = "flight", !.via = session])
       ELSE Fails(r)

Skips(r) ==
    \/ At(r, {"call?", "more"}) /\ Becomes(r, Advance(req[r]))
    \/ /\ At(r, {"more"})
       /\ LET last == Len(Steps(req[r])) IN
          Becomes(r, IF Steps(req[r])[last] = "raise" THEN [req[r] EXCEPT !.at = last]
                     ELSE Close(req[r], "ok"))

Answered(r) ==
    /\ req[r].st = "flight"
    /\ IF up /\ req[r].via = session
       THEN Becomes(r, Advance([req[r] EXCEPT !.st = "run"]))
       ELSE Fails(r)

(* The gateway refuses the request, or the retries are used up. *)
Refused(r) ==
    /\ req[r].st = "flight"
    /\ IF Steps(req[r])[req[r].at] = "ask"
       THEN Becomes(r, Advance([req[r] EXCEPT !.st = "run"]))
       ELSE Fails(r)

AcquireLine(r) ==
    /\ At(r, {"line"}) /\ LinesInUse < MaxLines
    /\ Becomes(r, Advance([req[r] EXCEPT !.lines = @ + 1]))

(* The pacing guard, the message limiter and sleeps end by themselves. *)
Waits(r) ==
    /\ At(r, {"permit", "slot", "wait"})
    /\ Becomes(r, Advance(req[r]))

(* Sending is synchronous; it raises when there is no client to send with. *)
Sends(r) ==
    /\ At(r, {"send", "send?"})
    /\ up /\ req[r].own \in {0, session}
    /\ Becomes(r, Advance([req[r] EXCEPT !.sent = @ + 1, !.via = session]))

SendFails(r) ==
    \/ At(r, {"send", "raise"}) /\ Fails(r)
    \/ At(r, {"send?"}) /\ Becomes(r, NextSymbol(req[r]))

Tidies(r) ==
    /\ At(r, {"tidy"})
    /\ Becomes(r, IF req[r].at = Len(Steps(req[r])) THEN Close(req[r], "ok")
                  ELSE Close([req[r] EXCEPT !.at = @ + 1], "on"))

Keeps(r) ==
    /\ At(r, {"keep"})
    /\ IF SameSession(r) THEN Becomes(r, [req[r] EXCEPT !.st = "kept", !.end = "ok"])
                         ELSE Fails(r)

-----------------------------------------------------------------------------
\* The end of a request.

Unsubscribes(r) ==
    /\ req[r].st = "kept"
    /\ Becomes(r, Close(req[r], "ok"))

CancelsSubscription(r) ==
    /\ req[r].st = "undo"
    /\ Becomes(r, Close([req[r] EXCEPT !.sent = 0], req[r].end))

ReleasesLines(r) ==
    /\ req[r].st = "free"
    /\ LET q == [req[r] EXCEPT !.lines = IF req[r].end = "on" THEN @ - 1 ELSE 0]
       IN Becomes(r, IF req[r].end = "on" THEN [q EXCEPT !.st = "run"]
                     ELSE Close(q, req[r].end))

(* The task of the request is cancelled while it awaits, or, with end =
   "failed", runs into the time limit of the method.  Where the finally
   block awaits in the task itself, what comes after that await is lost;
   a cleanup in a task of its own goes on.  subscribe_ticker has such a task
   only for a ticker; a line alone it releases itself. *)
HasTicker(q) == \E i \in 1..(q.at - 1) : Steps(q)[i] = "send"
(* Mutant: the cleanup is awaited in the cancelled task itself. *)
NotShielded(q) == FALSE
Shielded(q) == CareOf(q) = "retained" \/ (CareOf(q) = "ticker" /\ HasTicker(q))

Unprotected(q) ==
    /\ CareOf(q) = "late"
    /\ q.lines > 0 /\ q.sent = 0 /\ Steps(q)[q.at] = "slot"

Abandons(q, end) ==
    [q EXCEPT !.st = "over", !.end = end, !.cut = q.lines, !.lines = 0]

Interrupted(r, end) ==
    LET q == req[r] IN
    \/ /\ \/ At(r, {"connect", "session", "permit", "line", "slot", "wait"})
          \/ q.st = "flight"
       /\ Becomes(r, IF Unprotected(q) THEN Abandons(q, end) ELSE Close(q, end))
    \/ /\ q.st \in {"undo", "free"} /\ Shielded(q)
       /\ Becomes(r, IF q.st = "free" /\ q.end = "on"
                     THEN Close([q EXCEPT !.lines = @ - 1], end)
                     ELSE [q EXCEPT !.end = end])
    \/ /\ q.st = "undo" /\ ~Shielded(q)
       /\ Becomes(r, CASE CareOf(q) = "late" -> Abandons(q, end)
                       [] CareOf(q) = "depth" -> Abandons([q EXCEPT !.sent = 0], end)
                       [] OTHER -> Close([q EXCEPT !.sent = 0], end))
    \/ /\ q.st = "free" /\ ~Shielded(q)
       /\ Becomes(r, Abandons(q, end))

Cancelled(r) == Interrupted(r, "cancelled")

(* The time limit of a cleanup in a task of its own.  A wait for the limiter
   that is cut short still cancels the subscription; a release that is cut
   short loses its line, and a batch that was going on fails. *)
Expires(r) ==
    LET q == req[r]
        end == IF q.end = "on" THEN "failed" ELSE q.end
        left == IF q.end = "on" THEN 1 ELSE q.lines
    IN  /\ Shielded(q)
        /\ \/ q.st = "undo" /\ Becomes(r, Close([q EXCEPT !.sent = 0], end))
           \/ /\ q.st = "free"
              /\ \E n \in 1..left :
                    Becomes(r, Close([q EXCEPT !.lines = @ - left, !.expired = @ + n], end))

TimesOut(r) ==
    /\ \/ CareOf(req[r]) = "depth" /\ req[r].end # "failed"
       \/ req[r].m = "equity_reference" /\ req[r].sent = 0 /\ req[r].st # "free"
    /\ Interrupted(r, "failed")

(* The time to live of a lease nobody released. *)
LeaseExpires(r) ==
    /\ req[r].st = "over" /\ req[r].cut + req[r].expired > 0
    /\ Becomes(r, [req[r] EXCEPT !.cut = 0, !.expired = 0])

-----------------------------------------------------------------------------
\* The session.  Its end calls back the registry of live tickers, which
\* forgets those of the session and releases their lines.

(* Mutant: no callback is registered for the end of a session. *)
SessionEndedUnheard(q) == q
SessionEnded(q) ==
    IF Registers(q) /\ q.st \in {"run", "flight", "free", "kept"} /\ q.sent > 0
    THEN [q EXCEPT !.lines = @ - q.sent, !.sent = 0,
                   !.st = IF @ = "kept" THEN "over" ELSE @]
    ELSE q

SessionEnds ==
    /\ up /\ session < MaxSessions
    /\ up' = FALSE
    /\ req' = [r \in Requests |-> SessionEnded(req[r])]
    /\ UNCHANGED session

SessionBegins ==
    /\ ~up
    /\ up' = TRUE /\ session' = session + 1
    /\ UNCHANGED req

Step(r) ==
    \/ Begin(r) \/ EnsureConnected(r) \/ CaptureSession(r) \/ RequireSession(r)
    \/ Asks(r) \/ Skips(r) \/ Answered(r) \/ Refused(r) \/ AcquireLine(r)
    \/ Waits(r) \/ Sends(r) \/ SendFails(r) \/ Tidies(r) \/ Keeps(r)
    \/ Unsubscribes(r) \/ CancelsSubscription(r) \/ ReleasesLines(r)
    \/ Cancelled(r) \/ TimesOut(r) \/ Expires(r) \/ LeaseExpires(r)

Next ==
    \/ \E r \in Requests : Step(r)
    \/ SessionEnds
    \/ SessionBegins

Spec == Init /\ [][Next]_vars

-----------------------------------------------------------------------------

(* A request that is over holds no line of the rate limiter and has left no
   subscription at the gateway, however it ended and whatever happened on the
   way: a failure between the line and the subscription, a symbol of a batch
   refused, the session gone, the caller cancelled once or again during the
   cleanup.  What the code does not promise is named here, the leases cut off:
   in an option request that is cancelled, in subscribe_ticker when it is
   cancelled while it releases the line it has no ticker for yet, and in the
   cleanup of a depth request; and the time limit of a retained cleanup. *)
CleanupIsComplete ==
    \A r \in Requests :
        LET q == req[r] IN
        q.st = "over" =>
            /\ q.lines = 0
            /\ q.cut > 0 => \/ CareOf(q) = "late" /\ q.end = "cancelled"
                            \/ CareOf(q) = "ticker" /\ q.end = "cancelled" /\ ~HasTicker(q)
                            \/ CareOf(q) = "depth" /\ q.end # "ok"
            /\ q.expired > 0 => \/ CareOf(q) = "retained"
                                \/ CareOf(q) = "ticker" /\ HasTicker(q)
            /\ Live(q) > 0 => CareOf(q) = "late" /\ q.end = "cancelled"

(* PROJECT_SETUP_ARCHITECTURE.md:890: "Market-data leases are released after
   cancelMktData and also have a TTL safety net for process crashes": no
   request of a live process leaves its lease to the time to live. *)
LeasesAreReleased ==
    \A r \in Requests : req[r].st = "over" => Leases(req[r]) = 0

(* A request that captured its session answers from that session or not at
   all: a reply or a ticker of a session that ended while the request waited
   is never returned as an answer of the next one. *)
AnswersAreOfOneSession ==
    [][\A r \in Requests :
         LET q == req[r] IN
         (q.st \in {"run", "flight"} /\ req'[r].end = "ok" /\ q.own # 0)
             => up /\ q.own = session]_vars

(* The registry of live tickers never outlives the session: a ticker that is
   handed out belongs to the session that is up, and has its line. *)
TickersHaveASession ==
    \A r \in Requests :
        LET q == req[r] IN
        q.st = "kept" => q.lines = q.sent /\ (q.sent > 0 => up /\ q.own = session)
=============================================================================
