------------------------------ MODULE McpServer ------------------------------
(***************************************************************************)
(* The MCP server (src/mcp_server.py).  Its sessions share one state: a    *)
(* Redis client and a gateway connection with a client id of its own,      *)
(* built for the first session, kept while a session has it and closed by  *)
(* a task some time after the last one has left.                           *)
(*                                                                         *)
(* A section under the lock that awaits nothing is one step; only a build  *)
(* holds the lock across awaits.  What cancels a session is its client     *)
(* going away; anyio repeats the cancellation at every await.              *)
(***************************************************************************)
EXTENDS Naturals, FiniteSets, McpTools

CONSTANTS
    Sessions,
    ToolsOf,                    \* the tools the client of a session may call
    MaxStates, MaxCancels       \* bounds

McpAssumption ==
    /\ IsFiniteSet(Sessions)
    /\ ToolsOf \in [Sessions -> SUBSET DOMAIN Tool]
    /\ MaxStates \in Nat \ {0} /\ MaxCancels \in Nat

States == 1..MaxStates
NoState == 0
NoTool == "none"

VARIABLES
    delayed,            \* idle_disconnect_seconds > 0, as configured
    current,            \* _mcp_shared_state
    state,              \* the states built so far
    sess,
    cancels

vars == <<delayed, current, state, sess, cancels>>

\* task: close_task, of which a later acquisition only needs the last one;
\* cancelled: it ended with an exception; reuse: cancel_idle_close_for_reuse.
TypeOK ==
    /\ delayed \in BOOLEAN
    /\ current \in States \cup {NoState}
    /\ state \in [States ->
          [life : {"none", "building", "open", "closing", "closed", "leaked"},
           redis : BOOLEAN, refs : 0..Cardinality(Sessions), closing : BOOLEAN,
           task : {"none", "sleep", "cancelling", "close", "again", "done", "cancelled"},
           reuse : BOOLEAN]]
    /\ sess \in [Sessions ->
          [pc : {"out", "build", "wait", "reuse", "in", "close", "over", "failed"},
           st : States \cup {NoState}, tool : DOMAIN Tool \cup {NoTool}, at : Nat,
           placed : Nat]]
    /\ \A s \in Sessions : sess[s].placed <= sess[s].at
    /\ cancels \in 0..MaxCancels

Init ==
    /\ delayed \in BOOLEAN
    /\ current = NoState
    /\ state = [st \in States |->
          [life |-> "none", redis |-> FALSE, refs |-> 0, closing |-> FALSE,
           task |-> "none", reuse |-> FALSE]]
    /\ sess = [s \in Sessions |->
          [pc |-> "out", st |-> NoState, tool |-> NoTool, at |-> 0, placed |-> 0]]
    /\ cancels = 0

-----------------------------------------------------------------------------

At(s, pc) == sess[s].pc = pc
Mine(s) == state[sess[s].st]
Becomes(s, q) == sess' = [sess EXCEPT ![s] = q]
Turns(st, r) == state' = [state EXCEPT ![st] = r]
Locked == \E s \in Sessions : At(s, "build")

-----------------------------------------------------------------------------
\* _acquire_mcp_shared_state

StartBuild(s) ==
    /\ At(s, "out") /\ ~Locked /\ current = NoState
    /\ \E st \in States :
          /\ state[st].life = "none" /\ \A other \in 1..(st - 1) : state[other].life # "none"
          /\ Turns(st, [state[st] EXCEPT !.life = "building"])
          /\ Becomes(s, [sess[s] EXCEPT !.pc = "build", !.st = st])
    /\ UNCHANGED <<current, cancels>>

\* _build_mcp_shared_state: a backend that fails is only noted
Built(s) ==
    /\ At(s, "build")
    /\ \E redis \in BOOLEAN :
          Turns(sess[s].st, [Mine(s) EXCEPT !.life = "open", !.redis = redis, !.refs = 1])
    /\ current' = sess[s].st
    /\ Becomes(s, [sess[s] EXCEPT !.pc = "in"])
    /\ UNCHANGED cancels

\* Nothing closes what had been connected.
BuildCancelled(s) ==
    /\ At(s, "build") /\ cancels < MaxCancels /\ cancels' = cancels + 1
    /\ Turns(sess[s].st, [Mine(s) EXCEPT !.life = "leaked"])
    /\ Becomes(s, [sess[s] EXCEPT !.pc = "failed"])
    /\ UNCHANGED current

\* Mutant: a state that is being closed is taken like any other.
TakeClosing(s) ==
    /\ At(s, "out") /\ ~Locked /\ current # NoState
    /\ Turns(current, [state[current] EXCEPT !.refs = @ + 1])
    /\ Becomes(s, [sess[s] EXCEPT !.pc = "in", !.st = current])
    /\ UNCHANGED <<current, cancels>>

\* The state is taken and, with _cancel_mcp_idle_close, its task cancelled.
Take(s) ==
    /\ At(s, "out") /\ ~Locked /\ current # NoState /\ ~state[current].closing
    /\ LET idle == state[current].task = "sleep"
       IN  /\ Turns(current, [state[current] EXCEPT
                 !.refs = @ + 1,
                 !.reuse = @ \/ idle,
                 !.task = IF idle THEN "cancelling" ELSE @])
           /\ Becomes(s, [sess[s] EXCEPT !.pc = IF idle THEN "reuse" ELSE "in",
                                         !.st = current])
    /\ UNCHANGED <<current, cancels>>

Taken(s) ==
    /\ At(s, "reuse") /\ Mine(s).task # "cancelling"
    /\ Becomes(s, [sess[s] EXCEPT !.pc = "in"])
    /\ UNCHANGED <<current, state, cancels>>

WaitForClose(s) ==
    /\ At(s, "out") /\ ~Locked /\ current # NoState /\ state[current].closing
    /\ Becomes(s, [sess[s] EXCEPT !.pc = "wait", !.st = current])
    /\ UNCHANGED <<current, state, cancels>>

\* A task that was cancelled cancels who waits for it.
CloseAwaited(s) ==
    /\ At(s, "wait") /\ Mine(s).task \in {"done", "cancelled"}
    /\ Becomes(s, [sess[s] EXCEPT !.st = NoState,
                       !.pc = IF Mine(s).task = "done" THEN "out" ELSE "failed"])
    /\ UNCHANGED <<current, state, cancels>>

\* A session that waits for the task passes its cancellation on to it: the
\* task closes once more, and a second one leaves it closing for ever, as the
\* first one does when the flag is still up.
WaitCancelled(s) ==
    /\ At(s, "wait") /\ cancels < MaxCancels /\ cancels' = cancels + 1
    /\ \/ /\ Mine(s).task \in {"close", "again"}
          /\ Turns(sess[s].st, [Mine(s) EXCEPT
                !.task = IF @ = "close" /\ ~Mine(s).reuse THEN "again" ELSE "cancelled",
                !.reuse = FALSE])
          /\ UNCHANGED sess
       \/ /\ Mine(s).task \in {"done", "cancelled"}
          /\ Becomes(s, [sess[s] EXCEPT !.pc = "failed"]) /\ UNCHANGED state
    /\ UNCHANGED current

-----------------------------------------------------------------------------
\* _close_mcp_shared_state_after_idle

\* A task that is cancelled before its first step leaves the flag up.
IdleCancelled(st) ==
    /\ state[st].task = "cancelling"
    /\ \E reuse \in {state[st].reuse, FALSE} :
          Turns(st, [state[st] EXCEPT !.task = "cancelled", !.reuse = reuse])
    /\ UNCHANGED <<current, sess, cancels>>

IdleElapsed(st) ==
    /\ state[st].task = "sleep" /\ ~Locked
    /\ Turns(st, IF current # st \/ state[st].refs > 0
                 THEN [state[st] EXCEPT !.task = "done"]
                 ELSE [state[st] EXCEPT !.closing = TRUE, !.life = "closing",
                                        !.task = "close"])
    /\ UNCHANGED <<current, sess, cancels>>

\* A close that raises leaves the state closing for ever.
IdleCloses(st) ==
    /\ state[st].task \in {"close", "again"}
    /\ \/ /\ Turns(st, [state[st] EXCEPT !.life = "closed",
                           !.task = IF @ = "close" THEN "done" ELSE "cancelled"])
          /\ current' = IF current = st THEN NoState ELSE current
       \/ Turns(st, [state[st] EXCEPT !.task = "cancelled"]) /\ UNCHANGED current
    /\ UNCHANGED <<sess, cancels>>

-----------------------------------------------------------------------------
\* The tools of a session.

Step(s) == Tool[sess[s].tool].steps[sess[s].at]
Running(s) == At(s, "in") /\ sess[s].tool # NoTool
AtEnd(s) == sess[s].at > Len(Tool[sess[s].tool].steps)
Idle(q) == [q EXCEPT !.tool = NoTool, !.at = 0, !.placed = 0]
GoesOn(s) == Becomes(s, [sess[s] EXCEPT !.at = @ + 1])
Answers(s) == Becomes(s, Idle(sess[s]))
Shared == <<current, state, cancels>>

CallTool(s) ==
    /\ At(s, "in") /\ sess[s].tool = NoTool
    /\ \E tool \in ToolsOf[s] : Becomes(s, [sess[s] EXCEPT !.tool = tool, !.at = 1])
    /\ UNCHANGED Shared

\* _require_redis and _require_questdb; the flags are those of the build.
LooksAtFlags(s) ==
    /\ Running(s) /\ ~AtEnd(s) /\ Step(s) \in {"redis?", "questdb?"}
    /\ IF Step(s) = "redis?" /\ Mine(s).redis THEN GoesOn(s) ELSE Answers(s)
    /\ UNCHANGED Shared

AsksOrChecks(s) ==
    /\ Running(s) /\ ~AtEnd(s)
    /\ Step(s) \in {"client?", "refuse?", "valid?", "ask", "resolve"}
    /\ (GoesOn(s) \/ Answers(s))
    /\ UNCHANGED Shared

CallsStore(s) ==
    /\ Running(s) /\ ~AtEnd(s) /\ Step(s) = "store"
    /\ Answers(s)
    /\ UNCHANGED Shared

SkipsLeg(s) ==
    /\ Running(s) /\ ~AtEnd(s) /\ Step(s) = "leg"
    /\ \/ GoesOn(s) \/ Answers(s)
       \/ Becomes(s, [sess[s] EXCEPT !.at = @ + 2])
    /\ UNCHANGED Shared

\* An order that raises leaves those before it at IBKR.
Places(s) ==
    /\ Running(s) /\ ~AtEnd(s) /\ Step(s) = "place"
    /\ \/ Becomes(s, [sess[s] EXCEPT !.at = @ + 1, !.placed = @ + 1])
       \/ Answers(s)
    /\ UNCHANGED Shared

ToolEnds(s) ==
    /\ Running(s) /\ AtEnd(s) /\ Answers(s)
    /\ UNCHANGED Shared

-----------------------------------------------------------------------------
\* _release_mcp_shared_state, when the calls of the session have ended or
\* were cancelled

Leave(s) ==
    /\ At(s, "in") /\ ~Locked
    /\ LET st == sess[s].st
           last == state[st].refs = 1
       IN  /\ Turns(st, [state[st] EXCEPT
                 !.refs = @ - 1,
                 !.task = IF last /\ delayed THEN "sleep" ELSE @,
                 !.closing = last /\ ~delayed,
                 !.life = IF last /\ ~delayed THEN "closing" ELSE @])
           /\ current' = IF last /\ ~delayed THEN NoState ELSE current
           /\ Becomes(s, [Idle(sess[s]) EXCEPT
                             !.pc = IF last /\ ~delayed THEN "close" ELSE "over"])
    /\ UNCHANGED cancels

ClosesNow(s) ==
    /\ At(s, "close")
    /\ Turns(sess[s].st, [Mine(s) EXCEPT !.life = "closed"]) \/ UNCHANGED state
    /\ Becomes(s, [sess[s] EXCEPT !.pc = "over"])
    /\ UNCHANGED <<current, cancels>>

Next ==
    /\ UNCHANGED delayed
    /\ \/ \E s \in Sessions :
             \/ StartBuild(s) \/ Built(s) \/ BuildCancelled(s) \/ Take(s) \/ Taken(s)
             \/ WaitForClose(s) \/ CloseAwaited(s) \/ WaitCancelled(s)
             \/ CallTool(s) \/ LooksAtFlags(s) \/ AsksOrChecks(s) \/ CallsStore(s)
             \/ SkipsLeg(s) \/ Places(s) \/ ToolEnds(s) \/ Leave(s) \/ ClosesNow(s)
       \/ \E st \in States : IdleCancelled(st) \/ IdleElapsed(st) \/ IdleCloses(st)

Spec == Init /\ [][Next]_vars

-----------------------------------------------------------------------------
(* Every session that is in, whatever its tools are doing, has the current
   state, which is open, not about to close and counts it
   (_acquire_mcp_shared_state against the idle close). *)
HeldStatesAreOpen ==
    \A s \in Sessions : sess[s].pc \in {"reuse", "in"} =>
        /\ sess[s].st = current /\ Mine(s).life = "open" /\ ~Mine(s).closing
        /\ Mine(s).refs = Cardinality({x \in Sessions :
                             sess[x].pc \in {"reuse", "in"} /\ sess[x].st = current})

(* "MCP retains its separate configured client ID": with a delay there are
   never two states at a time to connect with it, from the start of a build
   to the end of a close.  A build that was cancelled is not counted: nothing
   closes it (_close_mcp_shared_state_after_idle). *)
OneClientId ==
    delayed => Cardinality({st \in States :
                   state[st].life \in {"building", "open", "closing"}}) <= 1
=============================================================================
