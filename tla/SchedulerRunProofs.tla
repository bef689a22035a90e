-------------------------- MODULE SchedulerRunProofs --------------------------
(***************************************************************************)
(* Proofs about SchedulerRun, for any workers, any number of attempts, any *)
(* timeout, back-off and lease, and any number of faults.                  *)
(***************************************************************************)
EXTENDS SchedulerRun, Integers, FiniteSetTheorems, TLAPS

Pcs == {"idle", "wait", "acquire", "skip", "record", "handler", "backoff",
        "cancelled", "final", "release"}

RunType ==
    [pc : Pcs, token : Tokens \cup {NoToken}, attempt : 0..Attempts,
     timer : 0..Longest, outcome : Outcomes]

-----------------------------------------------------------------------------
\* The inductive invariant.

\* A run has a token from its trigger to its end, counts its attempts from one,
\* and backs off only before another one.
StageFits(w) ==
    /\ run[w].pc \in {"idle", "wait"} <=> run[w].token = NoToken
    /\ run[w].pc = "acquire" => run[w].attempt = 0
    /\ run[w].pc \in {"record", "handler", "backoff"} => run[w].attempt >= 1
    /\ run[w].pc = "backoff" => run[w].attempt < Attempts

TokensDiffer ==
    \A v, w \in Workers :
        run[v].token = run[w].token /\ run[v].token # NoToken => v = w

\* A run that waits for the lease is not in the ledger; one that is about to
\* give it back left "running" only if its end could not be told.
LedgerFits(w) ==
    /\ run[w].pc \in {"acquire", "skip"} => latest.run # run[w].token
    /\ run[w].pc = "release" /\ latest.run = run[w].token /\ latest.status = "running"
          => run[w].token \in untold

\* 0 + 1 + ... + (n - 1)
Triangle(n) == (n * (n - 1)) \div 2

\* The longest time after the handler of attempt a
Rest(a) ==
    (Attempts - a) * Timeout + Backoff * (Triangle(Attempts) - Triangle(a))

\* What is left of a run that executes its handler or is about to
Left(w) ==
    CASE run[w].pc = "record"  -> Timeout + Rest(run[w].attempt)
      [] run[w].pc = "handler" -> run[w].timer + Rest(run[w].attempt)
      [] OTHER -> run[w].timer + Timeout + Rest(run[w].attempt + 1)

\* The lease is the run's, and outlasts it.
LeaseFits(w) ==
    run[w].pc \in {"record", "handler", "backoff"} =>
        lease = run[w].token /\ ttl >= Left(w) + 1

RunInv ==
    /\ TypeOK
    /\ \A w \in Workers : StageFits(w)
    /\ TokensDiffer

LedgerInv ==
    /\ latest.status = "running" => latest.run \in Tokens
    /\ \A w \in Workers : LedgerFits(w)
    /\ LedgerTellsTheEnd

LeaseInv == LeaseCoversRun => \A w \in Workers : LeaseFits(w)

-----------------------------------------------------------------------------
\* What a step of w does to the runs.

\* The run of w gets these fields, those of the others stay as they are.
Moves(w, pc, token, attempt, timer, outcome) ==
    /\ run' \in [Workers -> RunType]
    /\ run'[w].pc = pc /\ run'[w].token = token /\ run'[w].attempt = attempt
    /\ run'[w].timer = timer /\ run'[w].outcome = outcome
    /\ \A v \in Workers : v # w => run'[v] = run[v]

LEMMA Numbers ==
    /\ Attempts \in Nat /\ Attempts >= 1 /\ Timeout \in Nat /\ Timeout >= 1
    /\ Backoff \in Nat /\ LeaseTtl \in Nat /\ MaxFaults \in Nat
    /\ Longest \in Nat /\ 0 \in 0..Longest /\ Timeout \in 0..Longest
    /\ \A a \in 0..Attempts : Backoff * a \in 0..Longest
<1>1. /\ Attempts \in Nat /\ Attempts >= 1 /\ Timeout \in Nat /\ Timeout >= 1
      /\ Backoff \in Nat /\ LeaseTtl \in Nat /\ MaxFaults \in Nat
  BY JobAssumption
<1>2. Backoff * Attempts \in Nat  BY <1>1
<1>3. Longest \in Nat /\ Longest >= Timeout  BY <1>1, <1>2 DEF Longest
<1>4. ASSUME NEW a \in 0..Attempts PROVE Backoff * a \in 0..Longest
  <2>1. Backoff * a \in Nat /\ Backoff * (Attempts - a) \in Nat  BY <1>1
  <2>2. Backoff * Attempts = Backoff * a + Backoff * (Attempts - a)  BY <1>1
  <2>3. QED  BY <1>1, <1>2, <2>1, <2>2 DEF Longest
<1>5. QED  BY <1>1, <1>3, <1>4

LEMMA FieldsTyped ==
    ASSUME TypeOK, NEW w \in Workers
    PROVE  /\ run[w] \in RunType /\ run[w].pc \in Pcs
           /\ run[w].token \in Tokens \cup {NoToken}
           /\ run[w].attempt \in 0..Attempts /\ run[w].timer \in 0..Longest
           /\ run[w].outcome \in Outcomes
BY DEF TypeOK, RunType, Pcs

LEMMA OneMoves ==
    ASSUME TypeOK, NEW w \in Workers, NEW q \in RunType,
           run' = [run EXCEPT ![w] = q]
    PROVE  Moves(w, q.pc, q.token, q.attempt, q.timer, q.outcome)
BY DEF TypeOK, RunType, Pcs, Moves

LEMMA GotoMoves ==
    ASSUME TypeOK, NEW w \in Workers, NEW pc \in Pcs, Goto(w, pc)
    PROVE  Moves(w, pc, run[w].token, run[w].attempt, run[w].timer, run[w].outcome)
<1> DEFINE q == [run[w] EXCEPT !.pc = pc]
<1>1. run[w] \in RunType  BY FieldsTyped
<1>2. /\ q \in RunType /\ q.pc = pc /\ q.token = run[w].token
      /\ q.attempt = run[w].attempt /\ q.timer = run[w].timer
      /\ q.outcome = run[w].outcome
  BY <1>1 DEF RunType
<1>3. run' = [run EXCEPT ![w] = q]  BY DEF Goto, TypeOK
<1> HIDE DEF q
<1>4. Moves(w, q.pc, q.token, q.attempt, q.timer, q.outcome)
  BY <1>2, <1>3, OneMoves
<1>5. QED  BY <1>2, <1>4

\* The fields set by NextAttempt, RecordsRunning and HandlerFails
LEMMA TimerMoves ==
    ASSUME TypeOK, NEW w \in Workers, NEW pc \in Pcs, NEW i \in 0..Longest,
           run' = [run EXCEPT ![w].pc = pc, ![w].timer = i]
    PROVE  Moves(w, pc, run[w].token, run[w].attempt, i, run[w].outcome)
<1> DEFINE q == [run[w] EXCEPT !.pc = pc, !.timer = i]
<1>1. run[w] \in RunType  BY FieldsTyped
<1>2. /\ q \in RunType /\ q.pc = pc /\ q.token = run[w].token
      /\ q.attempt = run[w].attempt /\ q.timer = i /\ q.outcome = run[w].outcome
  BY <1>1 DEF RunType
<1>3. run' = [run EXCEPT ![w] = q]  BY DEF TypeOK
<1> HIDE DEF q
<1>4. Moves(w, q.pc, q.token, q.attempt, q.timer, q.outcome)
  BY <1>2, <1>3, OneMoves
<1>5. QED  BY <1>2, <1>4

LEMMA NextAttemptMoves ==
    ASSUME TypeOK, NEW w \in Workers, run[w].attempt < Attempts, NextAttempt(w)
    PROVE  Moves(w, "record", run[w].token, run[w].attempt + 1, 0, run[w].outcome)
<1> DEFINE a == run[w].attempt + 1
           q == [run[w] EXCEPT !.pc = "record", !.attempt = a, !.timer = 0]
<1>1. run[w] \in RunType  BY FieldsTyped
<1>2. a \in 0..Attempts /\ 0 \in 0..Longest  BY FieldsTyped, Numbers
<1>3. run' = [run EXCEPT ![w] = q]  BY DEF NextAttempt, TypeOK
<1> HIDE DEF a
<1>4. /\ q \in RunType /\ q.pc = "record" /\ q.token = run[w].token
      /\ q.attempt = a /\ q.timer = 0 /\ q.outcome = run[w].outcome
  BY <1>1, <1>2 DEF RunType, Pcs
<1> HIDE DEF q
<1>5. Moves(w, q.pc, q.token, q.attempt, q.timer, q.outcome)
  BY <1>3, <1>4, OneMoves
<1>6. QED  BY <1>4, <1>5 DEF a

LEMMA OutcomeMoves ==
    ASSUME TypeOK, NEW w \in Workers, NEW pc \in Pcs, NEW o \in Outcomes,
           NEW i \in 0..Longest,
           run' = [run EXCEPT ![w].pc = pc, ![w].outcome = o, ![w].timer = i]
    PROVE  Moves(w, pc, run[w].token, run[w].attempt, i, o)
<1> DEFINE q == [run[w] EXCEPT !.pc = pc, !.outcome = o, !.timer = i]
<1>1. run[w] \in RunType  BY FieldsTyped
<1>2. /\ q \in RunType /\ q.pc = pc /\ q.token = run[w].token
      /\ q.attempt = run[w].attempt /\ q.timer = i /\ q.outcome = o
  BY <1>1 DEF RunType
<1>3. run' = [run EXCEPT ![w] = q]  BY DEF TypeOK
<1> HIDE DEF q
<1>4. Moves(w, q.pc, q.token, q.attempt, q.timer, q.outcome)
  BY <1>2, <1>3, OneMoves
<1>5. QED  BY <1>2, <1>4

\* A new run, and the end of one
LEMMA FreshMoves ==
    ASSUME TypeOK, NEW w \in Workers, NEW pc \in Pcs, NEW t \in Tokens \cup {NoToken},
           run' = [run EXCEPT ![w] = [Idle EXCEPT !.pc = pc, !.token = t]]
    PROVE  Moves(w, pc, t, 0, 0, "success")
<1> DEFINE q == [Idle EXCEPT !.pc = pc, !.token = t]
<1>1. 0 \in 0..Attempts /\ 0 \in 0..Longest  BY Numbers
<1>2. /\ q \in RunType /\ q.pc = pc /\ q.token = t /\ q.attempt = 0
      /\ q.timer = 0 /\ q.outcome = "success"
  BY <1>1 DEF RunType, Idle, Outcomes, Returned
<1> HIDE DEF q
<1>3. Moves(w, q.pc, q.token, q.attempt, q.timer, q.outcome)
  BY <1>2, OneMoves DEF q
<1>4. QED  BY <1>2, <1>3

LEMMA WaitingMoves ==
    ASSUME TypeOK, NEW w \in Workers, run' = [run EXCEPT ![w] = Waiting]
    PROVE  Moves(w, "wait", NoToken, 0, 0, "success")
<1>1. 0 \in 0..Attempts /\ 0 \in 0..Longest  BY Numbers
<1>2. /\ Waiting \in RunType /\ Waiting.pc = "wait" /\ Waiting.token = NoToken
      /\ Waiting.attempt = 0 /\ Waiting.timer = 0 /\ Waiting.outcome = "success"
  BY <1>1 DEF RunType, Waiting, Idle, Outcomes, Returned, Pcs
<1>3. QED  BY <1>2, OneMoves

-----------------------------------------------------------------------------
\* The parts of the invariant after a step of one run.

Statuses == Outcomes \cup {"none", "lease_skipped", "running", "cancelled"}

OthersTyped ==
    /\ lease \in Tokens \cup {NoToken} /\ ttl \in 0..LeaseTtl
    /\ latest \in [run : Tokens \cup {NoToken}, status : Statuses]
    /\ untold \subseteq Tokens
    /\ faults \in 0..MaxFaults

LEMMA TypeParts == TypeOK <=> OthersTyped /\ run \in [Workers -> RunType]
BY DEF TypeOK, OthersTyped, Statuses, RunType, Pcs

LEMMA RunInvByMove ==
    ASSUME RunInv, NEW w \in Workers, NEW pc, NEW t, NEW a \in 0..Attempts, NEW i, NEW o,
           Moves(w, pc, t, a, i, o), OthersTyped',
           pc \in {"idle", "wait"} <=> t = NoToken,
           pc = "acquire" => a = 0,
           pc \in {"record", "handler", "backoff"} => a >= 1,
           pc = "backoff" => a < Attempts,
           t = run[w].token \/ t = NoToken \/ \A v \in Workers : run[v].token # t
    PROVE  RunInv'
<1>1. TypeOK'
  <2>1. run' \in [Workers -> RunType]  BY DEF Moves
  <2>2. QED  BY <2>1, TypeParts DEF TypeOK, OthersTyped, Statuses, RunType, Pcs
<1>2. ASSUME NEW v \in Workers PROVE StageFits(v)'
  <2>1. CASE v = w  BY <2>1 DEF Moves, StageFits
  <2>2. CASE v # w  BY <2>2 DEF Moves, StageFits, RunInv
  <2>3. QED  BY <2>1, <2>2
<1>3. TokensDiffer'
  BY DEF Moves, RunInv, TokensDiffer
<1>4. QED  BY <1>1, <1>2, <1>3 DEF RunInv

\* The ledger is left alone; no token that matters to it leaves untold.
LEMMA LedgerLeftAlone ==
    ASSUME RunInv, LedgerInv, NEW w \in Workers,
           NEW pc, NEW t, NEW a, NEW i, NEW o, Moves(w, pc, t, a, i, o),
           latest' = latest,
           \A u \in untold : \/ u \in untold'
                             \/ u # latest.run /\ \A v \in Workers : run[v].token # u,
           pc \in {"acquire", "skip"} => latest.run # t,
           latest.run = run[w].token /\ latest.status = "running"
                /\ (pc = "release" \/ t # run[w].token)
              => run[w].token \in untold',
           t = run[w].token \/ pc # "release"
    PROVE  LedgerInv'
<1>1. latest'.status = "running" => latest'.run \in Tokens
  BY DEF LedgerInv
<1>2. ASSUME NEW v \in Workers PROVE LedgerFits(v)'
  <2>1. CASE v = w  BY <2>1 DEF Moves, LedgerFits
  <2>2. CASE v # w
    <3>1. run'[v] = run[v] /\ LedgerFits(v)  BY <2>2 DEF Moves, LedgerInv
    <3>2. QED  BY <3>1 DEF LedgerFits
  <2>3. QED  BY <2>1, <2>2
<1>3. LedgerTellsTheEnd'
  <2> SUFFICES ASSUME latest.status = "running"
               PROVE  latest.run \in untold' \/ \E v \in Workers : run'[v].token = latest.run
    BY DEF LedgerTellsTheEnd
  <2>1. CASE latest.run \in untold  BY <2>1
  <2>2. ASSUME NEW v \in Workers, run[v].token = latest.run
        PROVE  latest.run \in untold' \/ \E x \in Workers : run'[x].token = latest.run
    <3>1. CASE v = w  BY <2>2, <3>1 DEF Moves
    <3>2. CASE v # w  BY <2>2, <3>2 DEF Moves
    <3>3. QED  BY <3>1, <3>2
  <2>3. QED  BY <2>1, <2>2 DEF LedgerInv, LedgerTellsTheEnd
<1>4. QED  BY <1>1, <1>2, <1>3 DEF LedgerInv

\* The run of w writes the ledger.
LEMMA LedgerWritten ==
    ASSUME RunInv, LedgerInv, NEW w \in Workers,
           NEW pc, NEW t, NEW a, NEW i, NEW o, Moves(w, pc, t, a, i, o),
           NEW status, latest' = [run |-> run[w].token, status |-> status],
           untold' = untold, run[w].token \in Tokens,
           pc \notin {"acquire", "skip"},
           status = "running" => pc = "handler" /\ t = run[w].token
    PROVE  LedgerInv'
<1>1. /\ latest'.run = run[w].token /\ latest'.status = status
      /\ run[w].token # NoToken
  BY TokenAssumption
<1>2. ASSUME NEW v \in Workers PROVE LedgerFits(v)'
  <2>1. CASE v = w  BY <1>1, <2>1 DEF Moves, LedgerFits
  <2>2. CASE v # w
    <3>1. run'[v] = run[v] /\ run[v].token # run[w].token
      BY <1>1, <2>2 DEF Moves, RunInv, TokensDiffer
    <3>2. QED  BY <1>1, <3>1 DEF LedgerFits
  <2>3. QED  BY <2>1, <2>2
<1>3. LedgerTellsTheEnd'
  BY <1>1 DEF LedgerTellsTheEnd, Moves
<1>4. QED  BY <1>1, <1>2, <1>3 DEF LedgerInv

\* Nobody but w touches the lease while another run holds it.
LEMMA LeaseByMove ==
    ASSUME RunInv, LeaseInv, NEW w \in Workers,
           NEW pc, NEW t, NEW a, NEW i, NEW o, Moves(w, pc, t, a, i, o),
           \/ UNCHANGED <<lease, ttl>>
           \/ lease = NoToken
           \/ lease = run[w].token /\ lease # NoToken,
           LeaseCoversRun => LeaseFits(w)'
    PROVE  LeaseInv'
<1> SUFFICES ASSUME LeaseCoversRun, NEW v \in Workers, v # w,
                    run[v].pc \in {"record", "handler", "backoff"}
             PROVE  LeaseFits(v)'
  BY DEF LeaseInv, LeaseCoversRun, RunTime, LeaseFits, Moves
<1>1. run'[v] = run[v]  BY DEF Moves
<1>2. lease = run[v].token /\ ttl >= Left(v) + 1
  BY DEF LeaseInv, LeaseFits
<1>3. run[v].token # NoToken /\ run[v].token # run[w].token
  BY DEF RunInv, StageFits, TokensDiffer
<1>4. UNCHANGED <<lease, ttl>>  BY <1>2, <1>3
<1>5. QED  BY <1>1, <1>2, <1>4 DEF LeaseFits, Left

-----------------------------------------------------------------------------
\* How long a run still takes.

LEMMA TriangleNext ==
    ASSUME NEW n \in Nat
    PROVE  /\ Triangle(n) \in Int /\ Triangle(n + 1) = Triangle(n) + n
           /\ Triangle(0) = 0 /\ Triangle(1) = 0
<1> DEFINE p == n * (n - 1)
<1>1. p \in Int /\ (n + 1) * n = p + 2 * n  OBVIOUS
<1> HIDE DEF p
<1>2. (p + 2 * n) \div 2 = (p \div 2) + n /\ p \div 2 \in Int  BY <1>1
<1>3. (n + 1) * ((n + 1) - 1) = p + 2 * n  BY <1>1
<1>4. Triangle(n) = p \div 2 /\ Triangle(n + 1) = (p + 2 * n) \div 2
  BY <1>3 DEF Triangle, p
<1>5. 0 * (0 - 1) = 0 /\ 1 * (1 - 1) = 0 /\ 0 \div 2 = 0  OBVIOUS
<1>6. Triangle(0) = 0 /\ Triangle(1) = 0  BY <1>5 DEF Triangle
<1>7. QED  BY <1>2, <1>4, <1>6

LEMMA TriangleGrows ==
    ASSUME NEW m \in Nat, NEW n \in Nat, m <= n
    PROVE  Triangle(m) <= Triangle(n)
<1> DEFINE p == m * (m - 1)
           q == n * (n - 1)
<1>1. p \in Int /\ q \in Int  OBVIOUS
<1>2. p <= q
  <2>1. q - p = (n - m) * (n + m - 1)  OBVIOUS
  <2>2. CASE n = 0  BY <2>2
  <2>3. CASE n >= 1
    <3>1. n - m \in Nat /\ n + m - 1 \in Nat  BY <2>3
    <3>2. (n - m) * (n + m - 1) \in Nat  BY <3>1
    <3>3. QED  BY <1>1, <2>1, <3>2
  <2>4. QED  BY <2>2, <2>3
<1> HIDE DEF p, q
<1>3. p \div 2 <= q \div 2  BY <1>1, <1>2
<1>4. QED  BY <1>3 DEF Triangle, p, q

LEMMA RestNatural ==
    ASSUME NEW a \in 0..Attempts PROVE Rest(a) \in Nat
<1>1. a \in Nat /\ Attempts - a \in Nat  BY Numbers
<1>2. Triangle(Attempts) - Triangle(a) \in Nat
  BY <1>1, Numbers, TriangleGrows, TriangleNext
<1>3. (Attempts - a) * Timeout \in Nat  BY <1>1, Numbers
<1>4. Backoff * (Triangle(Attempts) - Triangle(a)) \in Nat  BY <1>2, Numbers
<1>5. QED  BY <1>3, <1>4 DEF Rest

LEMMA RestNext ==
    ASSUME NEW a \in 0..Attempts, a < Attempts
    PROVE  Rest(a) = Backoff * a + Timeout + Rest(a + 1)
<1>1. a \in Nat /\ Attempts \in Nat /\ Timeout \in Nat /\ Backoff \in Nat
  BY Numbers
<1> DEFINE s == Triangle(Attempts) - Triangle(a + 1)
<1>2. /\ s \in Int
      /\ Triangle(Attempts) - Triangle(a) = s + a
  BY <1>1, TriangleNext
<1> HIDE DEF s
<1>3. (Attempts - a) * Timeout = Timeout + (Attempts - (a + 1)) * Timeout
  BY <1>1
<1>4. Backoff * (s + a) = Backoff * s + Backoff * a  BY <1>1, <1>2
<1>5. /\ Rest(a) = (Attempts - a) * Timeout + Backoff * (s + a)
      /\ Rest(a + 1) = (Attempts - (a + 1)) * Timeout + Backoff * s
  BY <1>2 DEF Rest, s
<1>6. /\ (Attempts - (a + 1)) * Timeout \in Int /\ Backoff * s \in Int
      /\ Backoff * a \in Int
  BY <1>1, <1>2
<1>7. QED  BY <1>1, <1>3, <1>4, <1>5, <1>6

LEMMA RestOfAll ==
    /\ RunTime = Timeout + Rest(1)
    /\ RunTime \in Nat
<1>1. /\ Attempts \in Nat /\ Attempts >= 1 /\ Timeout \in Nat /\ Backoff \in Nat
      /\ Triangle(Attempts) \in Int /\ Triangle(1) = 0
  BY Numbers, TriangleNext
<1>2. RunTime = Attempts * Timeout + Backoff * Triangle(Attempts)
  BY DEF RunTime, Triangle
<1>3. Attempts * Timeout = Timeout + (Attempts - 1) * Timeout  BY <1>1
<1>4. Rest(1) = (Attempts - 1) * Timeout + Backoff * Triangle(Attempts)
  <2>1. Triangle(Attempts) - Triangle(1) = Triangle(Attempts)  BY <1>1
  <2>2. QED  BY <2>1 DEF Rest
<1>5. /\ (Attempts - 1) * Timeout \in Int /\ Backoff * Triangle(Attempts) \in Int
  BY <1>1
<1>6. RunTime = Timeout + Rest(1)  BY <1>1, <1>2, <1>3, <1>4, <1>5
<1>7. Rest(1) \in Nat  BY <1>1, RestNatural
<1>8. QED  BY <1>1, <1>6, <1>7

-----------------------------------------------------------------------------
\* The steps of one run.

Inv == RunInv /\ LedgerInv /\ LeaseInv

LEMMA LeaseTyped ==
    ASSUME OthersTyped, NEW t \in Tokens \cup {NoToken},
           Lease(t) \/ DeleteOwn(t) \/ UNCHANGED <<lease, ttl>>
    PROVE  lease' \in Tokens \cup {NoToken} /\ ttl' \in 0..LeaseTtl
BY Numbers DEF OthersTyped, Lease, DeleteOwn

LEMMA FaultTyped == ASSUME OthersTyped, Fault PROVE faults' \in 0..MaxFaults
BY Numbers DEF OthersTyped, Fault

LEMMA TriggeredKeeps ==
    ASSUME Inv, NEW w \in Workers, Triggered(w) PROVE Inv'
<1>1. PICK t \in FreshTokens :
         /\ run' = [run EXCEPT ![w] = [Idle EXCEPT !.pc = "acquire", !.token = t]]
         /\ untold' = untold \ {t}
  BY DEF Triggered
<1>2. /\ t \in Tokens /\ t # lease /\ t # latest.run /\ t # NoToken
      /\ \A v \in Workers : run[v].token # t
  BY TokenAssumption DEF FreshTokens
<1>3. TypeOK /\ OthersTyped /\ UNCHANGED <<lease, ttl, latest, faults>>
      /\ run[w].token = NoToken
  BY TypeParts DEF Inv, RunInv, Triggered, StageFits
<1>4. Moves(w, "acquire", t, 0, 0, "success")
  BY <1>1, <1>2, <1>3, FreshMoves DEF Pcs
<1>5. RunInv'
  <2>1. untold' \subseteq Tokens  BY <1>1, <1>3 DEF OthersTyped
  <2>2. OthersTyped'  BY <1>3, <2>1 DEF OthersTyped
  <2>3. 0 \in 0..Attempts  BY Numbers
  <2>4. QED  BY <1>2, <1>4, <2>2, <2>3, RunInvByMove DEF Inv
<1>6. LedgerInv'
  <2>1. latest.status = "running" => latest.run # NoToken
    BY TokenAssumption DEF Inv, LedgerInv
  <2>2. QED
    BY <1>1, <1>2, <1>3, <1>4, <2>1, LedgerLeftAlone DEF Inv
<1>7. LeaseInv'
  BY <1>3, <1>4, LeaseByMove DEF Inv, LeaseFits, Moves
<1>8. QED  BY <1>5, <1>6, <1>7 DEF Inv

LEMMA AcquiresKeeps ==
    ASSUME Inv, NEW w \in Workers, Acquires(w) PROVE Inv'
<1>1. /\ TypeOK /\ OthersTyped /\ UNCHANGED <<latest, untold, faults>>
      /\ run[w].pc = "acquire" /\ run[w].attempt = 0 /\ run[w].token # NoToken
      /\ lease = NoToken /\ lease' = run[w].token /\ ttl' = LeaseTtl
      /\ latest.run # run[w].token
  BY TypeParts DEF Inv, RunInv, Acquires, Lease, StageFits, LedgerInv, LedgerFits
<1>2. Moves(w, "record", run[w].token, 1, 0, run[w].outcome)
  BY <1>1, Numbers, NextAttemptMoves DEF Acquires
<1>3. RunInv'
  <2>1. OthersTyped'
    BY <1>1, LeaseTyped, FieldsTyped DEF OthersTyped, Acquires
  <2>2. QED  BY <1>1, <1>2, <2>1, Numbers, RunInvByMove DEF Inv
<1>4. LedgerInv'
  BY <1>1, <1>2, LedgerLeftAlone DEF Inv
<1>5. LeaseInv'
  <2>1. LeaseCoversRun => LeaseFits(w)'
    <3> SUFFICES ASSUME LeaseCoversRun PROVE LeaseFits(w)'  OBVIOUS
    <3>1. Left(w)' = Timeout + Rest(1)
      BY <1>2 DEF Moves, Left, Rest, Triangle
    <3>2. LeaseTtl >= RunTime + 1
      BY RestOfAll, Numbers DEF LeaseCoversRun
    <3>3. QED  BY <1>1, <1>2, <3>1, <3>2, RestOfAll DEF LeaseFits, Moves
  <2>2. QED  BY <1>1, <1>2, <2>1, LeaseByMove DEF Inv
<1>6. QED  BY <1>3, <1>4, <1>5 DEF Inv

\* Waiting for the lease ends in a run to skip, whatever Redis did.
LEMMA ToSkipKeeps ==
    ASSUME Inv, NEW w \in Workers, run[w].pc = "acquire", Goto(w, "skip"),
           Lease(run[w].token) \/ UNCHANGED <<lease, ttl>>,
           UNCHANGED <<latest, untold>>, faults' \in 0..MaxFaults
    PROVE  Inv'
<1>1. /\ TypeOK /\ OthersTyped /\ run[w].token # NoToken
      /\ latest.run # run[w].token
  BY TypeParts DEF Inv, RunInv, StageFits, LedgerInv, LedgerFits
<1>2. Moves(w, "skip", run[w].token, run[w].attempt, run[w].timer, run[w].outcome)
  BY <1>1, GotoMoves DEF Pcs
<1>3. RunInv'
  <2>1. OthersTyped'
    BY <1>1, LeaseTyped, FieldsTyped DEF OthersTyped
  <2>2. QED  BY <1>1, <1>2, <2>1, FieldsTyped, RunInvByMove DEF Inv
<1>4. LedgerInv'
  BY <1>1, <1>2, LedgerLeftAlone DEF Inv
<1>5. LeaseInv'
  BY <1>1, <1>2, LeaseByMove DEF Inv, Lease, LeaseFits, Moves
<1>6. QED  BY <1>3, <1>4, <1>5 DEF Inv

\* A run ends; what it leaves in the ledger is known not to be told.
LEMMA EndKeeps ==
    ASSUME Inv, NEW w \in Workers, run' = [run EXCEPT ![w] = Waiting],
           OthersTyped', latest' = latest, untold \subseteq untold',
           latest.run = run[w].token /\ latest.status = "running"
               => run[w].token \in untold',
           \/ UNCHANGED <<lease, ttl>> \/ lease = NoToken
           \/ lease = run[w].token /\ lease # NoToken
    PROVE  Inv'
<1>1. TypeOK  BY DEF Inv, RunInv
<1>2. Moves(w, "wait", NoToken, 0, 0, "success")  BY <1>1, WaitingMoves
<1>3. RunInv'
  BY <1>2, Numbers, RunInvByMove DEF Inv
<1>4. LedgerInv'
  BY <1>2, LedgerLeftAlone DEF Inv
<1>5. LeaseInv'
  BY <1>2, LeaseByMove DEF Inv, LeaseFits, Moves
<1>6. QED  BY <1>3, <1>4, <1>5 DEF Inv

\* What Record leaves of the types
LEMMA RecordTyped ==
    ASSUME OthersTyped, NEW w \in Workers, run[w].token \in Tokens,
           NEW status \in Statuses, Record(w, status), UNCHANGED <<lease, ttl>>
    PROVE  OthersTyped'
<1>1. latest' \in [run : Tokens \cup {NoToken}, status : Statuses]
  BY DEF OthersTyped, Record
<1>2. faults' \in 0..MaxFaults /\ untold' \subseteq Tokens
  BY FaultTyped DEF OthersTyped, Record
<1>3. QED  BY <1>1, <1>2 DEF OthersTyped

LEMMA RecordsSkipKeeps ==
    ASSUME Inv, NEW w \in Workers, RecordsSkip(w) PROVE Inv'
<1>1. /\ TypeOK /\ OthersTyped /\ UNCHANGED <<lease, ttl>>
      /\ run[w].token \in Tokens /\ latest.run # run[w].token
      /\ Record(w, "lease_skipped") /\ "lease_skipped" \in Statuses
  BY TypeParts, FieldsTyped
     DEF Inv, RunInv, StageFits, LedgerInv, LedgerFits, RecordsSkip, Statuses
<1>2. OthersTyped'  BY <1>1, RecordTyped
<1>3. Moves(w, "wait", NoToken, 0, 0, "success")
  BY <1>1, WaitingMoves DEF RecordsSkip
<1>4. CASE latest' = latest /\ untold' = untold
  BY <1>1, <1>2, <1>4, EndKeeps DEF RecordsSkip
<1>5. CASE /\ latest' = [run |-> run[w].token, status |-> "lease_skipped"]
           /\ untold' = untold
  <2>1. RunInv'  BY <1>2, <1>3, Numbers, RunInvByMove DEF Inv
  <2>2. LedgerInv'  BY <1>1, <1>3, <1>5, LedgerWritten DEF Inv
  <2>3. LeaseInv'
    BY <1>1, <1>3, LeaseByMove DEF Inv, LeaseFits, Moves
  <2>4. QED  BY <2>1, <2>2, <2>3 DEF Inv
<1>6. QED  BY <1>1, <1>4, <1>5 DEF Record

LEMMA RecordsRunningKeeps ==
    ASSUME Inv, NEW w \in Workers, RecordsRunning(w) PROVE Inv'
<1>1. /\ TypeOK /\ OthersTyped /\ UNCHANGED <<lease, ttl>>
      /\ run[w].pc = "record" /\ run[w].token \in Tokens /\ run[w].attempt >= 1
      /\ Record(w, "running") /\ "running" \in Statuses
  BY TypeParts, FieldsTyped DEF Inv, RunInv, StageFits, RecordsRunning, Statuses
<1>2. OthersTyped'  BY <1>1, RecordTyped
<1>3. Moves(w, "handler", run[w].token, run[w].attempt, Timeout, run[w].outcome)
  BY <1>1, Numbers, TimerMoves DEF RecordsRunning, Pcs
<1>4. RunInv'
  BY <1>1, <1>2, <1>3, TokenAssumption, FieldsTyped, RunInvByMove DEF Inv
<1>5. LedgerInv'
  <2>1. CASE latest' = latest /\ untold' = untold
    BY <1>3, <2>1, LedgerLeftAlone DEF Inv
  <2>2. CASE /\ latest' = [run |-> run[w].token, status |-> "running"]
             /\ untold' = untold
    BY <1>1, <1>3, <2>2, LedgerWritten DEF Inv
  <2>3. QED  BY <1>1, <2>1, <2>2 DEF Record
<1>6. LeaseInv'
  <2>1. LeaseCoversRun => LeaseFits(w)'
    <3> SUFFICES ASSUME LeaseCoversRun PROVE LeaseFits(w)'  OBVIOUS
    <3>1. lease = run[w].token /\ ttl >= Timeout + Rest(run[w].attempt) + 1
      BY <1>1 DEF Inv, LeaseInv, LeaseFits, Left
    <3>2. Left(w)' = Timeout + Rest(run[w].attempt)
      BY <1>3 DEF Moves, Left, Rest, Triangle
    <3>3. QED  BY <1>1, <1>3, <3>1, <3>2 DEF LeaseFits, Moves
  <2>2. QED  BY <1>1, <1>3, <2>1, LeaseByMove DEF Inv
<1>7. QED  BY <1>4, <1>5, <1>6 DEF Inv

\* The end of the attempts: the run has a result, or was cancelled.
LEMMA LeavesHandlerKeeps ==
    ASSUME Inv, NEW w \in Workers, run[w].pc # "idle", run[w].pc # "wait",
           NEW pc \in {"final", "cancelled"}, NEW i, NEW o,
           Moves(w, pc, run[w].token, run[w].attempt, i, o),
           UNCHANGED <<lease, ttl, latest, untold>>, faults' \in 0..MaxFaults
    PROVE  Inv'
<1>1. /\ TypeOK /\ OthersTyped /\ run[w].token # NoToken
      /\ run[w].attempt \in 0..Attempts
  BY TypeParts, FieldsTyped DEF Inv, RunInv, StageFits
<1>2. RunInv'
  <2>1. OthersTyped'  BY <1>1 DEF OthersTyped
  <2>2. QED  BY <1>1, <2>1, RunInvByMove DEF Inv
<1>3. LedgerInv'  BY LedgerLeftAlone DEF Inv
<1>4. LeaseInv'  BY LeaseByMove DEF Inv, LeaseFits, Moves
<1>5. QED  BY <1>2, <1>3, <1>4 DEF Inv

LEMMA HandlerReturnsKeeps ==
    ASSUME Inv, NEW w \in Workers, NEW status \in Returned, HandlerReturns(w, status)
    PROVE  Inv'
<1>1. /\ TypeOK /\ run[w].pc = "handler" /\ status \in Outcomes /\ faults \in 0..MaxFaults
      /\ UNCHANGED <<lease, ttl, latest, untold, faults>>
  BY DEF Inv, RunInv, TypeOK, HandlerReturns, Outcomes
<1>2. Moves(w, "final", run[w].token, run[w].attempt, 0, status)
  BY <1>1, Numbers, OutcomeMoves DEF HandlerReturns, Ends, Pcs
<1>3. QED  BY <1>1, <1>2, LeavesHandlerKeeps

LEMMA HandlerFailsKeeps ==
    ASSUME Inv, NEW w \in Workers, NEW status \in {"failed", "timeout"},
           HandlerFails(w, status)
    PROVE  Inv'
<1>1. /\ TypeOK /\ OthersTyped /\ run[w].pc = "handler" /\ run[w].attempt >= 1
      /\ run[w].attempt \in 0..Attempts /\ run[w].timer \in 0..Longest
      /\ run[w].token # NoToken
      /\ status \in Outcomes /\ faults \in 0..MaxFaults
      /\ UNCHANGED <<lease, ttl, latest, untold, faults>>
  BY TypeParts, FieldsTyped
     DEF Inv, RunInv, TypeOK, HandlerFails, StageFits, Outcomes, Returned
<1>2. CASE ~Retries(w)
  <2>1. Moves(w, "final", run[w].token, run[w].attempt, 0, status)
    BY <1>1, <1>2, Numbers, OutcomeMoves DEF HandlerFails, Ends, Pcs
  <2>2. QED  BY <1>1, <2>1, LeavesHandlerKeeps
<1>3. CASE Retries(w)
  <2>1. run[w].attempt < Attempts /\ Backoff * run[w].attempt \in 0..Longest
    BY <1>1, <1>3, Numbers DEF Retries
  <2>2. Moves(w, "backoff", run[w].token, run[w].attempt,
              Backoff * run[w].attempt, status)
    BY <1>1, <1>3, <2>1, OutcomeMoves DEF HandlerFails, Pcs
  <2>3. RunInv'
    <3>1. OthersTyped'  BY <1>1 DEF OthersTyped
    <3>2. QED  BY <1>1, <2>1, <2>2, <3>1, RunInvByMove DEF Inv
  <2>4. LedgerInv'  BY <1>1, <2>2, LedgerLeftAlone DEF Inv
  <2>5. LeaseInv'
    <3>1. LeaseCoversRun => LeaseFits(w)'
      <4> SUFFICES ASSUME LeaseCoversRun PROVE LeaseFits(w)'  OBVIOUS
      <4>1. lease = run[w].token /\ ttl >= run[w].timer + Rest(run[w].attempt) + 1
        BY <1>1 DEF Inv, LeaseInv, LeaseFits, Left
      <4>2. Left(w)' = Backoff * run[w].attempt + Timeout + Rest(run[w].attempt + 1)
        BY <2>2 DEF Moves, Left, Rest, Triangle
      <4>3. Left(w)' = Rest(run[w].attempt) /\ Rest(run[w].attempt) \in Nat
        BY <1>1, <2>1, <4>2, RestNext, RestNatural
      <4>4. ttl >= Left(w)' + 1  BY <1>1, <4>1, <4>3 DEF OthersTyped
      <4>5. QED  BY <1>1, <2>2, <4>1, <4>4 DEF LeaseFits, Moves
    <3>2. QED  BY <1>1, <2>2, <3>1, LeaseByMove DEF Inv
  <2>6. QED  BY <2>3, <2>4, <2>5 DEF Inv
<1>4. QED  BY <1>2, <1>3

LEMMA BacksOffKeeps ==
    ASSUME Inv, NEW w \in Workers, BacksOff(w) PROVE Inv'
<1>1. /\ TypeOK /\ OthersTyped /\ run[w].pc = "backoff" /\ run[w].attempt < Attempts
      /\ run[w].attempt \in 0..Attempts /\ run[w].timer = 0 /\ run[w].token # NoToken
      /\ UNCHANGED <<lease, ttl, latest, untold, faults>>
  BY TypeParts, FieldsTyped DEF Inv, RunInv, BacksOff, StageFits
<1>2. Moves(w, "record", run[w].token, run[w].attempt + 1, 0, run[w].outcome)
  BY <1>1, NextAttemptMoves DEF BacksOff
<1>3. RunInv'
  <2>1. OthersTyped'  BY <1>1 DEF OthersTyped
  <2>2. run[w].attempt + 1 \in 0..Attempts /\ run[w].attempt + 1 >= 1
    BY <1>1, Numbers
  <2>3. QED  BY <1>1, <1>2, <2>1, <2>2, RunInvByMove DEF Inv
<1>4. LedgerInv'  BY <1>1, <1>2, LedgerLeftAlone DEF Inv
<1>5. LeaseInv'
  <2>1. LeaseCoversRun => LeaseFits(w)'
    <3> SUFFICES ASSUME LeaseCoversRun PROVE LeaseFits(w)'  OBVIOUS
    <3>1. /\ lease = run[w].token
          /\ ttl >= run[w].timer + Timeout + Rest(run[w].attempt + 1) + 1
      BY <1>1 DEF Inv, LeaseInv, LeaseFits, Left
    <3>2. Left(w)' = Timeout + Rest(run[w].attempt + 1)
      BY <1>2 DEF Moves, Left, Rest, Triangle
    <3>3. Rest(run[w].attempt + 1) \in Nat /\ Timeout \in Nat /\ ttl \in Nat
      BY <1>1, Numbers, RestNatural DEF OthersTyped
    <3>4. ttl >= Left(w)' + 1  BY <1>1, <3>1, <3>2, <3>3
    <3>5. QED  BY <1>1, <1>2, <3>1, <3>4 DEF LeaseFits, Moves
  <2>2. QED  BY <1>1, <1>2, <2>1, LeaseByMove DEF Inv
<1>6. QED  BY <1>3, <1>4, <1>5 DEF Inv

LEMMA RecordsFinalKeeps ==
    ASSUME Inv, NEW w \in Workers, RecordsFinal(w) \/ RecordsCancelled(w)
    PROVE  Inv'
<1>1. PICK status \in Outcomes \cup {"cancelled"} :
        Record(w, status) /\ run[w].pc \in {"final", "cancelled"}
  BY FieldsTyped DEF RecordsFinal, RecordsCancelled, Inv, RunInv
<1>2. /\ TypeOK /\ OthersTyped /\ UNCHANGED <<lease, ttl>> /\ Goto(w, "release")
      /\ run[w].token \in Tokens /\ status \in Statuses /\ status # "running"
  BY <1>1, TypeParts, FieldsTyped
     DEF Inv, RunInv, StageFits, RecordsFinal, RecordsCancelled, Statuses,
         Outcomes, Returned
<1>3. OthersTyped'  BY <1>1, <1>2, RecordTyped
<1>4. Moves(w, "release", run[w].token, run[w].attempt, run[w].timer, run[w].outcome)
  BY <1>2, GotoMoves DEF Pcs
<1>5. RunInv'
  BY <1>2, <1>3, <1>4, TokenAssumption, FieldsTyped, RunInvByMove DEF Inv
<1>6. LedgerInv'
  <2>1. CASE latest' = latest /\ untold' = untold \cup {run[w].token}
    BY <1>4, <2>1, LedgerLeftAlone DEF Inv
  <2>2. CASE /\ latest' = [run |-> run[w].token, status |-> status]
             /\ untold' = untold
    BY <1>2, <1>4, <2>2, LedgerWritten DEF Inv
  <2>3. status \notin {"running", "lease_skipped"}
    BY DEF Outcomes, Returned
  <2>4. QED  BY <1>1, <2>1, <2>2, <2>3 DEF Record
<1>7. LeaseInv'  BY <1>2, <1>4, LeaseByMove DEF Inv, LeaseFits, Moves
<1>8. QED  BY <1>5, <1>6, <1>7 DEF Inv

\* The lease of the run that ends, if it still is its own
LEMMA OwnLease ==
    ASSUME Inv, NEW w \in Workers, run[w].token # NoToken,
           DeleteOwn(run[w].token) \/ UNCHANGED <<lease, ttl>>
    PROVE  \/ UNCHANGED <<lease, ttl>> \/ lease = NoToken
           \/ lease = run[w].token /\ lease # NoToken
BY DEF DeleteOwn

LEMMA ReleasesKeeps ==
    ASSUME Inv, NEW w \in Workers, Releases(w) \/ ReleaseErrs(w) PROVE Inv'
<1>1. /\ TypeOK /\ OthersTyped /\ run[w].pc = "release" /\ run[w].token # NoToken
      /\ run[w].token \in Tokens \cup {NoToken}
      /\ latest.run = run[w].token /\ latest.status = "running"
             => run[w].token \in untold
      /\ DeleteOwn(run[w].token) \/ UNCHANGED <<lease, ttl>>
      /\ UNCHANGED <<latest, untold>> /\ run' = [run EXCEPT ![w] = Waiting]
  BY TypeParts, FieldsTyped
     DEF Inv, RunInv, StageFits, LedgerInv, LedgerFits, Releases, ReleaseErrs
<1>2. OthersTyped'
  <2>1. faults' \in 0..MaxFaults
    BY <1>1, FaultTyped DEF Releases, ReleaseErrs, OthersTyped
  <2>2. lease' \in Tokens \cup {NoToken} /\ ttl' \in 0..LeaseTtl
    BY <1>1, LeaseTyped
  <2>3. QED  BY <1>1, <2>1, <2>2 DEF OthersTyped
<1>3. QED  BY <1>1, <1>2, OwnLease, EndKeeps

LEMMA CrashesKeeps ==
    ASSUME Inv, NEW w \in Workers, Crashes(w) PROVE Inv'
<1>1. /\ TypeOK /\ OthersTyped /\ run[w].token \in Tokens
      /\ UNCHANGED <<lease, ttl, latest>> /\ run' = [run EXCEPT ![w] = Waiting]
      /\ untold' = untold \cup {run[w].token} /\ faults' \in 0..MaxFaults
  BY TypeParts, FieldsTyped, FaultTyped DEF Inv, RunInv, StageFits, Crashes
<1>2. OthersTyped'  BY <1>1 DEF OthersTyped
<1>3. QED  BY <1>1, <1>2, EndKeeps

LEMMA CancelledKeeps ==
    ASSUME Inv, NEW w \in Workers, Cancelled(w) PROVE Inv'
<1>1. /\ TypeOK /\ OthersTyped /\ faults' \in 0..MaxFaults /\ latest' = latest
      /\ run[w].pc \in Pcs \ {"idle", "wait", "release"} /\ run[w].token \in Tokens
  BY TypeParts, FieldsTyped, FaultTyped DEF Inv, RunInv, StageFits, Cancelled
<1>2. CASE run[w].pc \in {"acquire", "skip"}
  <2>1. /\ run' = [run EXCEPT ![w] = Waiting] /\ untold' = untold
        /\ Lease(run[w].token) \/ UNCHANGED <<lease, ttl>>
    BY <1>2 DEF Cancelled
  <2>2. OthersTyped'
    <3>1. lease' \in Tokens \cup {NoToken} /\ ttl' \in 0..LeaseTtl
      BY <1>1, <2>1, LeaseTyped
    <3>2. QED  BY <1>1, <2>1, <3>1 DEF OthersTyped
  <2>3. latest.run # run[w].token
    BY <1>2 DEF Inv, LedgerInv, LedgerFits
  <2>4. UNCHANGED <<lease, ttl>> \/ lease = NoToken  BY <2>1 DEF Lease
  <2>5. QED  BY <1>1, <2>1, <2>2, <2>3, <2>4, EndKeeps
<1>3. CASE run[w].pc = "handler"
  <2>1. Goto(w, "cancelled") /\ UNCHANGED <<lease, ttl, latest, untold>>
    BY <1>1, <1>3 DEF Cancelled, CancelInHandler
  <2>2. Moves(w, "cancelled", run[w].token, run[w].attempt, run[w].timer,
              run[w].outcome)
    BY <1>1, <2>1, GotoMoves DEF Pcs
  <2>3. QED  BY <1>1, <1>3, <2>1, <2>2, LeavesHandlerKeeps
<1>4. CASE run[w].pc \notin {"acquire", "skip", "handler"}
  <2>1. /\ Goto(w, "release") /\ untold' = untold \cup {run[w].token}
        /\ UNCHANGED <<lease, ttl>>
    BY <1>4 DEF Cancelled
  <2>2. Moves(w, "release", run[w].token, run[w].attempt, run[w].timer,
              run[w].outcome)
    BY <1>1, <2>1, GotoMoves DEF Pcs
  <2>3. RunInv'
    <3>1. OthersTyped'  BY <1>1, <2>1 DEF OthersTyped
    <3>2. QED
      BY <1>1, <2>2, <3>1, TokenAssumption, FieldsTyped, RunInvByMove DEF Inv
  <2>4. LedgerInv'  BY <1>1, <2>1, <2>2, LedgerLeftAlone DEF Inv
  <2>5. LeaseInv'  BY <2>1, <2>2, LeaseByMove DEF Inv, LeaseFits, Moves
  <2>6. QED  BY <2>3, <2>4, <2>5 DEF Inv
<1>5. QED  BY <1>2, <1>3, <1>4

-----------------------------------------------------------------------------
\* Time passes.

\* A tick lets the timers run, and a run that waits for its trigger idle.
LEMMA TickMoves ==
    ASSUME RunInv, Tick, NEW w \in Workers
    PROVE  /\ run'[w] \in RunType /\ run'[w].token = run[w].token
           /\ \/ run[w].pc = "wait" /\ run'[w].pc = "idle"
              \/ /\ run[w].pc # "wait" /\ run'[w].pc = run[w].pc
                 /\ run'[w].attempt = run[w].attempt
           /\ run[w].pc \in {"handler", "backoff"}
                 => run[w].timer >= 1 /\ run'[w].timer = run[w].timer - 1
           /\ run[w].pc \in {"idle", "wait", "handler", "backoff"}
<1>1. /\ TypeOK /\ run[w] \in RunType /\ run[w].timer \in 0..Longest
      /\ run[w].pc \in {"idle", "wait"} \/ Waits(w)
      /\ run'[w] = CASE Waits(w) -> [run[w] EXCEPT !.timer = run[w].timer - 1]
                     [] run[w].pc = "wait" -> Idle
                     [] OTHER -> run[w]
  BY FieldsTyped DEF RunInv, Tick
<1>2. CASE Waits(w)
  <2>1. /\ run[w].pc \in {"handler", "backoff"} /\ run[w].timer >= 1
        /\ run[w].timer - 1 \in 0..Longest
    BY <1>1, <1>2, Numbers DEF Waits
  <2>2. run'[w] = [run[w] EXCEPT !.timer = run[w].timer - 1]
    BY <1>1, <1>2, <2>1 DEF Waits
  <2>3. QED  BY <1>1, <2>1, <2>2 DEF RunType
<1>3. CASE ~Waits(w) /\ run[w].pc = "wait"
  <2>1. run'[w] = Idle /\ run[w].token = NoToken
    BY <1>1, <1>3 DEF RunInv, StageFits
  <2>2. 0 \in 0..Attempts /\ 0 \in 0..Longest  BY Numbers
  <2>3. QED  BY <1>3, <2>1, <2>2 DEF Idle, RunType, Pcs, Outcomes, Returned
<1>4. CASE ~Waits(w) /\ run[w].pc = "idle"
  <2>1. run'[w] = run[w]  BY <1>1, <1>4
  <2>2. QED  BY <1>1, <1>4, <2>1
<1>5. QED  BY <1>1, <1>2, <1>3, <1>4

LEMMA TickKeeps == ASSUME Inv, Tick PROVE Inv'
<1>1. /\ TypeOK /\ OthersTyped /\ RunInv
      /\ ttl' = (IF ttl > 0 THEN ttl - 1 ELSE 0)
      /\ lease' = (IF ttl' = 0 THEN NoToken ELSE lease)
      /\ UNCHANGED <<latest, untold, faults>>
  BY TypeParts DEF Inv, RunInv, Tick, Expiry
<1>2. TypeOK'
  <2>1. OthersTyped'
    <3>1. ttl' \in 0..LeaseTtl  BY <1>1, Numbers DEF OthersTyped
    <3>2. lease' \in Tokens \cup {NoToken}  BY <1>1 DEF OthersTyped
    <3>3. QED  BY <1>1, <3>1, <3>2 DEF OthersTyped
  <2>2. run' \in [Workers -> RunType]
    <3>1. run' = [w \in Workers |-> run'[w]]  BY DEF Tick
    <3>2. \A w \in Workers : run'[w] \in RunType  BY <1>1, TickMoves
    <3>3. QED  BY <3>1, <3>2
  <2>3. QED  BY <2>1, <2>2 DEF TypeOK, OthersTyped, Statuses, RunType, Pcs
<1>3. \A w \in Workers : StageFits(w)'
  <2> TAKE w \in Workers
  <2>1. StageFits(w)  BY <1>1 DEF RunInv
  <2>2. QED  BY <1>1, <2>1, TickMoves DEF StageFits
<1>4. TokensDiffer'  BY <1>1, TickMoves DEF RunInv, TokensDiffer
<1>5. LedgerInv'
  <2>1. \A w \in Workers : LedgerFits(w)'
    <3> TAKE w \in Workers
    <3>1. LedgerFits(w)  BY DEF Inv, LedgerInv
    <3>2. QED  BY <1>1, <3>1, TickMoves DEF LedgerFits
  <2>2. LedgerTellsTheEnd'
    BY <1>1, TickMoves DEF Inv, LedgerInv, LedgerTellsTheEnd
  <2>3. QED  BY <1>1, <2>1, <2>2 DEF Inv, LedgerInv
<1>6. LeaseInv'
  <2> SUFFICES ASSUME LeaseCoversRun, NEW w \in Workers,
                      run'[w].pc \in {"record", "handler", "backoff"}
               PROVE  lease' = run'[w].token /\ ttl' >= Left(w)' + 1
    BY DEF LeaseInv, LeaseCoversRun, RunTime, LeaseFits
  <2>1. /\ run[w].pc \in {"handler", "backoff"} /\ run'[w].pc = run[w].pc
        /\ run'[w].attempt = run[w].attempt /\ run'[w].token = run[w].token
        /\ run[w].timer >= 1 /\ run'[w].timer = run[w].timer - 1
        /\ run[w].attempt \in 0..Attempts /\ run[w].timer \in Nat
    BY <1>1, TickMoves, FieldsTyped, Numbers
  <2>2. lease = run[w].token /\ ttl >= Left(w) + 1 /\ ttl \in Nat
    BY <1>1, <2>1 DEF Inv, LeaseInv, LeaseFits, OthersTyped
  <2>3. CASE run[w].pc = "handler"
    <3>1. /\ Left(w) = run[w].timer + Rest(run[w].attempt)
          /\ Left(w)' = run[w].timer - 1 + Rest(run[w].attempt)
      BY <2>1, <2>3 DEF Left, Rest, Triangle
    <3>2. Rest(run[w].attempt) \in Nat  BY <2>1, RestNatural
    <3>3. ttl' = ttl - 1 /\ ttl' >= Left(w)' + 1 /\ ttl' # 0
      BY <1>1, <2>1, <2>2, <3>1, <3>2
    <3>4. QED  BY <1>1, <2>1, <2>2, <3>3
  <2>4. CASE run[w].pc = "backoff"
    <3>1. run[w].attempt + 1 \in 0..Attempts
      BY <1>1, <2>1, <2>4, Numbers DEF RunInv, StageFits
    <3>2. /\ Left(w) = run[w].timer + Timeout + Rest(run[w].attempt + 1)
          /\ Left(w)' = run[w].timer - 1 + Timeout + Rest(run[w].attempt + 1)
      BY <2>1, <2>4 DEF Left, Rest, Triangle
    <3>3. Rest(run[w].attempt + 1) \in Nat /\ Timeout \in Nat
      BY <3>1, RestNatural, Numbers
    <3>4. ttl' = ttl - 1 /\ ttl' >= Left(w)' + 1 /\ ttl' # 0
      BY <1>1, <2>1, <2>2, <3>2, <3>3
    <3>5. QED  BY <1>1, <2>1, <2>2, <3>4
  <2>5. QED  BY <2>1, <2>3, <2>4
<1>7. QED  BY <1>2, <1>3, <1>4, <1>5, <1>6 DEF Inv, RunInv

-----------------------------------------------------------------------------
\* The theorems.

LEMMA InitInv == Init => Inv
<1> SUFFICES ASSUME Init PROVE Inv  OBVIOUS
<1>1. /\ lease = NoToken /\ ttl = 0 /\ latest = [run |-> NoToken, status |-> "none"]
      /\ run = [w \in Workers |-> Idle] /\ untold = {} /\ faults = 0
  BY DEF Init
<1>2. 0 \in 0..Attempts /\ 0 \in 0..Longest /\ 0 \in 0..LeaseTtl /\ 0 \in 0..MaxFaults
  BY Numbers
<1>3. /\ Idle \in RunType /\ Idle.pc = "idle" /\ Idle.token = NoToken
  BY <1>2 DEF Idle, RunType, Pcs, Outcomes, Returned
<1>4. TypeOK
  <2>1. OthersTyped  BY <1>1, <1>2 DEF OthersTyped, Statuses
  <2>2. run \in [Workers -> RunType]  BY <1>1, <1>3
  <2>3. QED  BY <2>1, <2>2, TypeParts
<1>5. RunInv  BY <1>1, <1>3, <1>4 DEF RunInv, StageFits, TokensDiffer
<1>6. LedgerInv  BY <1>1, <1>3 DEF LedgerInv, LedgerFits, LedgerTellsTheEnd
<1>7. LeaseInv  BY <1>1, <1>3 DEF LeaseInv, LeaseFits
<1>8. QED  BY <1>5, <1>6, <1>7 DEF Inv

LEMMA NextInv == Inv /\ [Next]_vars => Inv'
<1> SUFFICES ASSUME Inv, [Next]_vars PROVE Inv'  OBVIOUS
<1>1. CASE Tick  BY <1>1, TickKeeps
<1>2. ASSUME NEW w \in Workers, Triggered(w) PROVE Inv'  BY <1>2, TriggeredKeeps
<1>3. ASSUME NEW w \in Workers, RunSteps(w) PROVE Inv'
  <2>1. CASE Acquires(w)  BY <2>1, AcquiresKeeps
  <2>2. CASE Refused(w)
    <3>1. faults' \in 0..MaxFaults  BY <2>2 DEF Refused, Inv, RunInv, TypeOK
    <3>2. QED  BY <2>2, <3>1, ToSkipKeeps DEF Refused
  <2>3. CASE RecordsSkip(w)  BY <2>3, RecordsSkipKeeps
  <2>4. CASE RecordsRunning(w)  BY <2>4, RecordsRunningKeeps
  <2>5. CASE BacksOff(w)  BY <2>5, BacksOffKeeps
  <2>6. CASE RecordsFinal(w) \/ RecordsCancelled(w)  BY <2>6, RecordsFinalKeeps
  <2>7. CASE Releases(w)  BY <2>7, ReleasesKeeps
  <2>8. CASE \E status \in Returned : HandlerReturns(w, status)
    BY <2>8, HandlerReturnsKeeps
  <2>9. CASE \E status \in {"failed", "timeout"} : HandlerFails(w, status)
    BY <2>9, HandlerFailsKeeps
  <2>10. QED
    BY <1>3, <2>1, <2>2, <2>3, <2>4, <2>5, <2>6, <2>7, <2>8, <2>9 DEF RunSteps
<1>4. ASSUME NEW w \in Workers, Faulty(w) PROVE Inv'
  <2>1. CASE AcquireErrs(w)
    <3>1. faults' \in 0..MaxFaults
      BY <2>1, FaultTyped, TypeParts DEF AcquireErrs, Inv, RunInv
    <3>2. QED  BY <2>1, <3>1, ToSkipKeeps DEF AcquireErrs
  <2>2. CASE ReleaseErrs(w)  BY <2>2, ReleasesKeeps
  <2>3. CASE Cancelled(w)  BY <2>3, CancelledKeeps
  <2>4. CASE Crashes(w)  BY <2>4, CrashesKeeps
  <2>5. QED  BY <1>4, <2>1, <2>2, <2>3, <2>4 DEF Faulty
<1>5. CASE UNCHANGED vars
  <2>1. UNCHANGED <<lease, ttl, latest, run, untold, faults>>  BY <1>5 DEF vars
  <2>2. RunInv'
    BY <2>1 DEF Inv, RunInv, TypeOK, StageFits, TokensDiffer
  <2>3. LedgerInv'
    BY <2>1 DEF Inv, LedgerInv, LedgerFits, LedgerTellsTheEnd
  <2>4. LeaseInv'
    BY <2>1 DEF Inv, LeaseInv, LeaseCoversRun, RunTime, LeaseFits, Left, Rest,
                Triangle
  <2>5. QED  BY <2>2, <2>3, <2>4 DEF Inv
<1>6. QED  BY <1>1, <1>2, <1>3, <1>4, <1>5 DEF Next

LEMMA InvAlways == Spec => []Inv
BY InitInv, NextInv, PTL DEF Spec

(* The lease, the ledger and the runs of any number of workers are of their  *)
(* types: _run_once and its Redis records.                                   *)
THEOREM RunsTyped == Spec => []TypeOK
<1>1. Inv => TypeOK  BY DEF Inv, RunInv
<1>2. QED  BY <1>1, InvAlways, PTL

(* The ledger shows "running" only while that run is under way or could not   *)
(* tell its end, whatever fails or is cancelled: _record_run_result.          *)
THEOREM LedgerIsTrue == Spec => []LedgerTellsTheEnd
<1>1. Inv => LedgerTellsTheEnd  BY DEF Inv, LedgerInv
<1>2. QED  BY <1>1, InvAlways, PTL

\* At most one worker executes the handler if the lease covers every run: all
\* that execute it hold the lease.
LEMMA InvExcludes == Inv => CoveredRunsAreExclusive
<1> SUFFICES ASSUME Inv, LeaseCoversRun PROVE NoDuplicateExecution
  BY DEF CoveredRunsAreExclusive
<1> DEFINE executing == {w \in Workers : run[w].pc = "handler"}
<1>1. \A v, w \in executing : v = w
  BY DEF Inv, RunInv, LeaseInv, LeaseFits, StageFits, TokensDiffer
<1>2. CASE executing = {}
  BY <1>2, FS_EmptySet DEF NoDuplicateExecution
<1>3. CASE executing # {}
  <2>1. PICK w \in executing : TRUE  BY <1>3
  <2>2. executing = {w}  BY <1>1, <2>1
  <2>3. Cardinality(executing) = 1  BY <2>2, FS_Singleton
  <2>4. QED  BY <2>3 DEF NoDuplicateExecution
<1>4. QED  BY <1>2, <1>3

(* A lease longer than every attempt and back-off excludes a second execution *)
(* of the job, for any number of workers and faults and any such lease:       *)
(* _acquire_job_lease and _run_once.                                          *)
THEOREM CoveringLeaseExcludes == Spec => []CoveredRunsAreExclusive
BY InvExcludes, InvAlways, PTL
=============================================================================
