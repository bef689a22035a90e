-------------------------- MODULE RepairQueueProofs --------------------------
(***************************************************************************)
(* Proofs about RepairQueue, for any number of jobs, runs and tokens and   *)
(* any limit.                                                              *)
(***************************************************************************)
EXTENDS RepairQueue, TLAPS

-----------------------------------------------------------------------------
\* Typing.

LEMMA BackoffWithinLease ==
    ASSUME NEW n \in 0..2 PROVE Backoff(n) \in 0..Lease
<1>1. CASE n = 0
  <2>1. 2 ^ n = 2 ^ 0  BY <1>1
  <2>2. QED  BY <2>1, SMT DEF Backoff, Lease
<1>2. CASE n = 1
  <2>1. 2 ^ n = 2 ^ 1  BY <1>2
  <2>2. QED  BY <2>1, SMT DEF Backoff, Lease
<1>3. CASE n = 2
  <2>1. 2 ^ n = 2 ^ 2  BY <1>3
  <2>2. QED  BY <2>1, SMT DEF Backoff, Lease
<1>4. QED  BY <1>1, <1>2, <1>3

LEMMA BlankTypes ==
    /\ AbsentRow \in Rows
    /\ Idle \in Locals
    /\ SchedulerRuns \subseteq Runs
BY NullsAssumption, LimitAssumption
   DEF AbsentRow, Rows, Idle, Locals, Lease, MaxAttempts, Answers, Statuses, Runs

LEMMA SweptTypes == ASSUME TypeOK PROVE Swept \in [Jobs -> Rows]
BY DEF Swept, TypeOK, Rows, Spent, Open

LEMMA SettledRowTypes ==
    ASSUME NEW r \in Rows, NEW d \in 0..Lease,
           NEW s \in {"pending", "complete", "exhausted"}
    PROVE  /\ [r EXCEPT !.token = NoToken] \in Rows
           /\ [r EXCEPT !.state = s, !.wait = d] \in Rows
BY DEF Rows

LEMMA FinishedRowTypes ==
    ASSUME TypeOK, NEW w \in Runs, run[w].job \in Jobs
    PROVE  FinishedRow(w) \in Rows
<1> DEFINE r == [row[run[w].job] EXCEPT !.token = NoToken]
<1>1. row[run[w].job] \in Rows /\ run[w].attempts \in 0..3 /\ 0 \in 0..Lease
  BY DEF TypeOK, Locals, MaxAttempts, Lease
<1>2. r \in Rows
  BY <1>1, SettledRowTypes
<1> HIDE DEF r
<1>3. /\ [r EXCEPT !.state = "complete", !.wait = 0] \in Rows
      /\ [r EXCEPT !.state = "exhausted", !.wait = 0] \in Rows
  BY <1>1, <1>2, SettledRowTypes
<1>4. ASSUME ~(run[w].attempts >= MaxAttempts)
      PROVE  [r EXCEPT !.state = "pending", !.wait = Backoff(run[w].attempts)]
                \in Rows
  <2>1. run[w].attempts \in 0..2
    BY <1>1, <1>4 DEF MaxAttempts
  <2>2. Backoff(run[w].attempts) \in 0..Lease
    BY <2>1, BackoffWithinLease
  <2>3. QED  BY <1>2, <2>2, SettledRowTypes
<1>5. QED  BY <1>3, <1>4 DEF FinishedRow, r

LEMMA NextIterationTypes ==
    ASSUME TypeOK, NEW w \in Runs PROVE NextIteration(w) \in Locals
<1>1. run[w].left \in 0..MaxLimit /\ run[w].persist \in BOOLEAN
  BY DEF TypeOK, Locals
<1>2. CASE run[w].left = 0
  BY <1>2, BlankTypes DEF NextIteration
<1>3. CASE run[w].left # 0
  <2>1. run[w].left - 1 \in 0..MaxLimit
    BY <1>1, <1>3, LimitAssumption
  <2>2. [Idle EXCEPT !.pc = "claim", !.persist = run[w].persist,
                     !.left = run[w].left - 1] \in Locals
    BY <1>1, <2>1, BlankTypes DEF Idle, Locals
  <2>3. QED  BY <1>3, <2>2 DEF NextIteration
<1>4. QED  BY <1>2, <1>3

-----------------------------------------------------------------------------
\* The inductive invariant.

\* A run has a job, with a token and a number of attempts, exactly while it
\* works on one, and that job is in the table.
RunShape ==
    \A w \in Runs :
        /\ run[w].pc \in {"idle", "claim"} => run[w].token = NoToken
        /\ run[w].pc \notin {"idle", "claim"} =>
              /\ run[w].job \in Jobs
              /\ row[run[w].job].state # "absent"
              /\ run[w].token # NoToken
              /\ run[w].attempts > 0

\* Only a running row has a lease.
LeaseShape ==
    \A j \in Jobs : row[j].state = "running" <=> row[j].token # NoToken

\* A run that has the lease of a row claimed that row last, so it knows how
\* often the row was tried.
HolderIsCurrent ==
    \A w \in Runs, j \in Jobs :
        row[j].token # NoToken /\ run[w].token = row[j].token
        => run[w].job = j /\ run[w].attempts = row[j].attempts

\* What job j needs before it may be called complete
Repaired(j) ==
    /\ archived[j] # {}
    /\ row[j].failed => j \in submitted \/ "none" \in archived[j]

\* What a run has done when it is about to report success
WorkBacked ==
    \A w \in Runs :
        /\ run[w].pc \in {"store", "archive"} =>
              (row[run[w].job].failed => run[w].persist)
        /\ run[w].pc = "store" => run[w].bars \in {"clean", "flawed"}
        /\ run[w].pc = "archive" /\ run[w].persist
           /\ run[w].bars \in {"clean", "flawed"}
           /\ run[w].status \notin {"failed", "no_store"} => run[w].job \in submitted
        /\ run[w].pc = "finish" /\ ~run[w].error => Repaired(run[w].job)

QueueInv ==
    /\ TypeOK
    /\ RunShape
    /\ LeaseShape
    /\ HolderIsCurrent
    /\ WorkBacked
    /\ CompleteMeansRepaired

LEMMA InitQueueInv == Init => QueueInv
<1> SUFFICES ASSUME Init PROVE QueueInv
  OBVIOUS
<1>1. TypeOK
  BY BlankTypes DEF Init, TypeOK
<1>2. /\ \A w \in Runs : run[w].pc = "idle" /\ run[w].token = NoToken
      /\ \A j \in Jobs : row[j].state = "absent" /\ row[j].token = NoToken
  BY DEF Init, AbsentRow, Idle
<1>3. QED
  BY <1>1, <1>2 DEF QueueInv, RunShape, LeaseShape, HolderIsCurrent, WorkBacked,
                    CompleteMeansRepaired

\* How a step may change the table without a claim: leases end, rows stay, and
\* a job is completed only with its repair behind it.
TableKept ==
    /\ row' \in [Jobs -> Rows]
    /\ \A j \in Jobs :
        /\ row[j].state # "absent" =>
              row'[j].state # "absent" /\ row'[j].failed = row[j].failed
        /\ row'[j].state = "running" <=> row'[j].token # NoToken
        /\ row'[j].token # NoToken =>
              row'[j].token = row[j].token /\ row'[j].attempts = row[j].attempts
        /\ row'[j].state = "complete" =>
              row[j].state = "complete" \/ (row[j].state # "absent" /\ Repaired(j))

\* How a step may change the two stores
StoresGrow ==
    /\ submitted \subseteq submitted' /\ submitted' \subseteq Jobs
    /\ archived' \in [Jobs -> SUBSET {"clean", "none"}]
    /\ \A j \in Jobs : archived[j] \subseteq archived'[j]

\* What a run must have done to be in f
Backed(f) ==
    /\ f.pc \in {"store", "archive"} => (row[f.job].failed => f.persist)
    /\ f.pc = "store" => f.bars \in {"clean", "flawed"}
    /\ f.pc = "archive" /\ f.persist /\ f.bars \in {"clean", "flawed"}
       /\ f.status \notin {"failed", "no_store"} => f.job \in submitted'
    /\ f.pc = "finish" /\ ~f.error =>
          /\ archived'[f.job] # {}
          /\ row[f.job].failed => f.job \in submitted' \/ "none" \in archived'[f.job]

\* A run gives its job up or goes on with it.
RunKept(w, f) ==
    \/ f.pc \in {"idle", "claim"} /\ f.token = NoToken
    \/ /\ f.pc \notin {"idle", "claim"} /\ run[w].pc \notin {"idle", "claim"}
       /\ f.job = run[w].job /\ f.token = run[w].token
       /\ f.attempts = run[w].attempts
       /\ Backed(f)

LEMMA RunStep ==
    ASSUME QueueInv, NEW w \in Runs, NEW f \in Locals, RunKept(w, f),
           run' = [run EXCEPT ![w] = f], TableKept, StoresGrow
    PROVE  QueueInv'
<1>1. /\ TypeOK /\ RunShape /\ LeaseShape /\ HolderIsCurrent /\ WorkBacked
      /\ CompleteMeansRepaired
  BY DEF QueueInv
<1>2. run'[w] = f /\ \A v \in Runs : v # w => run'[v] = run[v]
  BY <1>1 DEF TypeOK
<1>3. TypeOK'
  BY <1>1 DEF TypeOK, TableKept, StoresGrow
<1>4. RunShape'
  <2>1. SUFFICES ASSUME NEW v \in Runs
                 PROVE  /\ run'[v].pc \in {"idle", "claim"} => run'[v].token = NoToken
                        /\ run'[v].pc \notin {"idle", "claim"} =>
                              /\ run'[v].job \in Jobs
                              /\ row'[run'[v].job].state # "absent"
                              /\ run'[v].token # NoToken
                              /\ run'[v].attempts > 0
    BY DEF RunShape
  <2>2. CASE v = w
    BY <1>1, <1>2, <2>2 DEF RunShape, RunKept, TableKept
  <2>3. CASE v # w
    BY <1>1, <1>2, <2>3 DEF RunShape, TableKept
  <2>4. QED  BY <2>2, <2>3
<1>5. LeaseShape'
  BY DEF LeaseShape, TableKept
<1>6. HolderIsCurrent'
  <2>1. SUFFICES ASSUME NEW v \in Runs, NEW j \in Jobs,
                        row'[j].token # NoToken, run'[v].token = row'[j].token
                 PROVE  run'[v].job = j /\ run'[v].attempts = row'[j].attempts
    BY DEF HolderIsCurrent
  <2>2. row'[j].token = row[j].token /\ row'[j].attempts = row[j].attempts
    BY <2>1 DEF TableKept
  <2>3. CASE v = w
    BY <1>1, <1>2, <2>1, <2>2, <2>3 DEF HolderIsCurrent, RunKept
  <2>4. CASE v # w
    BY <1>1, <1>2, <2>1, <2>2, <2>4 DEF HolderIsCurrent
  <2>5. QED  BY <2>3, <2>4
<1>7. WorkBacked'
  <2>1. ASSUME NEW v \in Runs, run'[v].pc \notin {"idle", "claim"}
        PROVE  /\ run'[v].job \in Jobs
               /\ row'[run'[v].job].failed = row[run'[v].job].failed
    <3>1. run[v].pc \notin {"idle", "claim"} /\ run'[v].job = run[v].job
      BY <1>2, <2>1 DEF RunKept
    <3>2. QED  BY <1>1, <3>1 DEF RunShape, TableKept
  <2>2. run'[w].pc \notin {"idle", "claim"} => Backed(run'[w])
    BY <1>2 DEF RunKept
  <2>3. ASSUME NEW v \in Runs, v # w, run'[v].pc \notin {"idle", "claim"}
        PROVE  Backed(run'[v])
    <3>1. run'[v] = run[v] /\ run[v].job \in Jobs
      BY <1>2, <2>1, <2>3
    <3>2. QED
      BY <1>1, <3>1 DEF WorkBacked, Backed, Repaired, StoresGrow
  <2>4. QED
    BY <2>1, <2>2, <2>3 DEF WorkBacked, Backed, Repaired
<1>8. CompleteMeansRepaired'
  BY <1>1 DEF CompleteMeansRepaired, TableKept, StoresGrow, Repaired
<1>9. QED  BY <1>3, <1>4, <1>5, <1>6, <1>7, <1>8 DEF QueueInv

LEMMA TableStep ==
    ASSUME QueueInv, UNCHANGED <<run, submitted, archived>>, TableKept
    PROVE  QueueInv'
<1>1. /\ TypeOK /\ RunShape /\ LeaseShape /\ HolderIsCurrent /\ WorkBacked
      /\ CompleteMeansRepaired
  BY DEF QueueInv
<1>2. TypeOK'
  BY <1>1 DEF TypeOK, TableKept
<1>3. RunShape'
  BY <1>1 DEF RunShape, TableKept
<1>4. LeaseShape'
  BY DEF LeaseShape, TableKept
<1>5. HolderIsCurrent'
  BY <1>1 DEF HolderIsCurrent, TableKept
<1>6. WorkBacked'
  <2>1. \A w \in Runs : run[w].pc \notin {"idle", "claim"} =>
            run[w].job \in Jobs /\ row'[run[w].job].failed = row[run[w].job].failed
    BY <1>1 DEF RunShape, TableKept
  <2>2. QED  BY <1>1, <2>1 DEF WorkBacked, Repaired
<1>7. CompleteMeansRepaired'
  BY <1>1 DEF CompleteMeansRepaired, TableKept, Repaired
<1>8. QED  BY <1>2, <1>3, <1>4, <1>5, <1>6, <1>7 DEF QueueInv

-----------------------------------------------------------------------------
\* The steps.

LEMMA InvParts ==
    QueueInv => /\ TypeOK /\ RunShape /\ LeaseShape /\ HolderIsCurrent
                /\ WorkBacked /\ CompleteMeansRepaired
BY DEF QueueInv

LEMMA RowOf ==
    ASSUME QueueInv, NEW w \in Runs, run[w].pc \notin {"idle", "claim"}
    PROVE  /\ run[w].job \in Jobs /\ row[run[w].job] \in Rows
           /\ row[run[w].job].state # "absent"
           /\ run[w].attempts > 0 /\ run[w].token # NoToken
BY InvParts DEF TypeOK, RunShape

LEMMA TableUnchanged ==
    ASSUME QueueInv, UNCHANGED row PROVE TableKept
BY InvParts DEF TableKept, TypeOK, LeaseShape

LEMMA StoresUnchanged ==
    ASSUME QueueInv, UNCHANGED <<submitted, archived>> PROVE StoresGrow
BY InvParts DEF StoresGrow, TypeOK

LEMMA SweptKept ==
    ASSUME QueueInv, NEW j \in Jobs
    PROVE  /\ Swept[j] \in Rows
           /\ Swept[j].failed = row[j].failed
           /\ Swept[j].attempts = row[j].attempts
           /\ Swept[j].state # "absent" <=> row[j].state # "absent"
           /\ Swept[j].token \in {row[j].token, NoToken}
           /\ Swept[j].state = "running" <=> Swept[j].token # NoToken
           /\ Swept[j].state = "complete" => row[j].state = "complete"
<1>1. row[j] \in Rows /\ Swept[j] \in Rows
  BY InvParts, SweptTypes DEF TypeOK
<1>2. CASE Spent(j)
  BY <1>1, <1>2 DEF Swept, Spent, Open, Rows
<1>3. CASE ~Spent(j)
  BY <1>1, <1>3, InvParts DEF Swept, LeaseShape
<1>4. QED  BY <1>2, <1>3

LEMMA EnqueueStep ==
    ASSUME QueueInv, NEW j \in Jobs, NEW failed \in BOOLEAN,
           NEW continuous \in BOOLEAN, Enqueue(j, failed, continuous)
    PROVE  QueueInv'
<1> DEFINE r == [AbsentRow EXCEPT !.state = "pending", !.wait = EnqueueDelay,
                     !.failed = failed, !.continuous = continuous]
<1>1. r \in Rows /\ r.state = "pending" /\ r.token = NoToken
  <2>1. AbsentRow.token = NoToken
    BY DEF AbsentRow
  <2>2. 1 \in 0..Lease
    BY DEF Lease
  <2>3. QED  BY <2>1, <2>2, BlankTypes DEF Rows, EnqueueDelay
<1>2. row' = [row EXCEPT ![j] = r] /\ row[j].state = "absent"
  BY DEF Enqueue
<1> HIDE DEF r
<1>3. TableKept
  BY <1>1, <1>2, InvParts DEF TableKept, TypeOK, LeaseShape
<1>4. QED  BY <1>3, TableStep DEF Enqueue

LEMMA TickStep == ASSUME QueueInv, Tick PROVE QueueInv'
<1>1. \A j \in Jobs :
          /\ row'[j] \in Rows
          /\ row'[j].state = row[j].state /\ row'[j].token = row[j].token
          /\ row'[j].attempts = row[j].attempts /\ row'[j].failed = row[j].failed
  BY InvParts DEF Tick, TypeOK, Rows, Lease
<1>2. row' \in [Jobs -> Rows]
  BY <1>1 DEF Tick
<1>3. TableKept
  BY <1>1, <1>2, InvParts DEF TableKept, LeaseShape
<1>4. QED  BY <1>3, TableStep DEF Tick

LEMMA ClaimsNothingStep ==
    ASSUME QueueInv, NEW w \in Runs, ClaimsNothing(w) PROVE QueueInv'
<1>1. TableKept
  BY SweptKept, SweptTypes, InvParts DEF ClaimsNothing, TableKept
<1>2. RunKept(w, Idle)
  BY DEF RunKept, Idle
<1>3. QED
  BY <1>1, <1>2, RunStep, StoresUnchanged, BlankTypes DEF ClaimsNothing

LEMMA FinishStep == ASSUME QueueInv, NEW w \in Runs, Finish(w) PROVE QueueInv'
<1> DEFINE j == run[w].job
<1>1. /\ run[w].pc = "finish" /\ Holds(w)
      /\ row' = [row EXCEPT ![j] = FinishedRow(w)]
      /\ run' = [run EXCEPT ![w] = NextIteration(w)]
      /\ UNCHANGED <<submitted, archived>>
  BY DEF Finish
<1>2. j \in Jobs /\ row[j] \in Rows /\ row[j].state # "absent"
  BY <1>1, RowOf
<1>3. /\ FinishedRow(w) \in Rows
      /\ FinishedRow(w).token = NoToken
      /\ FinishedRow(w).failed = row[j].failed
      /\ FinishedRow(w).state \in {"complete", "pending", "exhausted"}
      /\ FinishedRow(w).state = "complete" => ~run[w].error
  <2>1. FinishedRow(w) \in Rows
    BY <1>2, FinishedRowTypes, InvParts
  <2>2. QED  BY <1>2, <2>1 DEF FinishedRow, Rows
<1>4. ~run[w].error => Repaired(j)
  BY <1>1, InvParts DEF WorkBacked
<1>5. TableKept
  BY <1>1, <1>2, <1>3, <1>4, InvParts DEF TableKept, TypeOK, LeaseShape
<1>6. /\ NextIteration(w) \in Locals
      /\ NextIteration(w).pc \in {"idle", "claim"}
      /\ NextIteration(w).token = NoToken
  BY NextIterationTypes, InvParts DEF NextIteration, Idle
<1>7. RunKept(w, NextIteration(w))
  BY <1>6 DEF RunKept
<1>8. QED  BY <1>1, <1>5, <1>6, <1>7, RunStep, StoresUnchanged

LEMMA LeaseLostStep ==
    ASSUME QueueInv, NEW w \in Runs, LeaseLost(w) \/ RunDies(w) PROVE QueueInv'
<1>1. /\ run' = [run EXCEPT ![w] = Idle]
      /\ UNCHANGED row /\ UNCHANGED <<submitted, archived>>
  BY DEF LeaseLost, RunDies
<1>2. RunKept(w, Idle)
  BY DEF RunKept, Idle
<1>3. QED
  BY <1>1, <1>2, RunStep, TableUnchanged, StoresUnchanged, BlankTypes

LEMMA StartRunStep ==
    ASSUME QueueInv, NEW w \in Runs, Starts(w) PROVE QueueInv'
<1>1. PICK persist \in BOOLEAN, limit \in 1..MaxLimit : StartRun(w, persist, limit)
  BY DEF Starts
<1> DEFINE f == [Idle EXCEPT !.pc = "claim", !.persist = persist,
                             !.left = limit - 1]
<1>2. f \in Locals /\ f.pc = "claim" /\ f.token = NoToken
  <2>1. limit - 1 \in 0..MaxLimit
    BY LimitAssumption
  <2>2. Idle.token = NoToken
    BY DEF Idle
  <2>3. QED  BY <2>1, <2>2, BlankTypes DEF Locals
<1> HIDE DEF f
<1>3. RunKept(w, f)
  BY <1>2 DEF RunKept
<1>4. /\ run' = [run EXCEPT ![w] = f]
      /\ UNCHANGED row /\ UNCHANGED <<submitted, archived>>
  BY <1>1 DEF StartRun, f
<1>5. QED
  BY <1>2, <1>3, <1>4, RunStep, TableUnchanged, StoresUnchanged

LEMMA ErrsStep ==
    ASSUME QueueInv, NEW w \in Runs, LoadErrs(w) \/ ArchiveErrs(w) PROVE QueueInv'
<1> DEFINE f == [run[w] EXCEPT !.pc = "finish", !.error = TRUE,
                               !.bars = "none", !.status = "not_requested"]
<1>1. run[w] \in Locals /\ run[w].pc \in {"load", "archive"}
  BY InvParts DEF TypeOK, LoadErrs, ArchiveErrs
<1>2. /\ f \in Locals /\ f.pc = "finish" /\ f.error = TRUE
      /\ f.job = run[w].job /\ f.token = run[w].token
      /\ f.attempts = run[w].attempts
  BY <1>1 DEF Locals, Answers, Statuses
<1>3. /\ run' = [run EXCEPT ![w] = f]
      /\ UNCHANGED row /\ UNCHANGED <<submitted, archived>>
  BY <1>1, InvParts DEF LoadErrs, ArchiveErrs, Errs, Judged, TypeOK
<1> HIDE DEF f
<1>4. RunKept(w, f)
  BY <1>1, <1>2 DEF RunKept, Backed
<1>5. QED
  BY <1>2, <1>3, <1>4, RunStep, TableUnchanged, StoresUnchanged

LEMMA BarsArriveStep ==
    ASSUME QueueInv, NEW w \in Runs, NEW bars \in Answers, BarsArrive(w, bars)
    PROVE  QueueInv'
<1>1. /\ run[w] \in Locals /\ run[w].pc = "load" /\ ~Refused(w)
      /\ UNCHANGED row /\ UNCHANGED <<submitted, archived>>
  BY InvParts DEF TypeOK, BarsArrive
<1>2. row[run[w].job].failed => run[w].persist
  BY <1>1, RowOf DEF Refused, Rows, Locals
<1>3. CASE /\ run[w].persist /\ bars \in {"clean", "flawed"}
           /\ run' = [run EXCEPT ![w].pc = "store", ![w].bars = bars]
  <2> DEFINE f == [run[w] EXCEPT !.pc = "store", !.bars = bars]
  <2>1. /\ f \in Locals /\ f.pc = "store" /\ f.persist = run[w].persist
        /\ f.bars = bars /\ f.job = run[w].job /\ f.token = run[w].token
        /\ f.attempts = run[w].attempts
    BY <1>1 DEF Locals
  <2>2. run' = [run EXCEPT ![w] = f]
    BY <1>3, InvParts DEF TypeOK
  <2> HIDE DEF f
  <2>3. RunKept(w, f)
    BY <1>1, <1>2, <1>3, <2>1 DEF RunKept, Backed
  <2>4. QED
    BY <1>1, <2>1, <2>2, <2>3, RunStep, TableUnchanged, StoresUnchanged
<1>4. CASE /\ ~run[w].persist \/ bars \in {"fatal", "none"}
           /\ \E status \in IF bars = "fatal" THEN {"quarantined"}
                           ELSE IF run[w].persist THEN {"no_store", "not_requested"}
                           ELSE {"not_requested"} :
                run' = [run EXCEPT ![w].pc = "archive", ![w].bars = bars,
                                   ![w].status = status]
  <2>1. PICK status \in Statuses :
                run' = [run EXCEPT ![w].pc = "archive", ![w].bars = bars,
                                   ![w].status = status]
    BY <1>4 DEF Statuses
  <2> DEFINE f == [run[w] EXCEPT !.pc = "archive", !.bars = bars, !.status = status]
  <2>2. /\ f \in Locals /\ f.pc = "archive" /\ f.persist = run[w].persist
        /\ f.bars = bars /\ f.job = run[w].job /\ f.token = run[w].token
        /\ f.attempts = run[w].attempts
    BY <1>1 DEF Locals
  <2>3. run' = [run EXCEPT ![w] = f]
    BY <2>1, InvParts DEF TypeOK
  <2> HIDE DEF f
  <2>4. RunKept(w, f)
    BY <1>1, <1>2, <1>4, <2>2 DEF RunKept, Backed
  <2>5. QED
    BY <1>1, <2>2, <2>3, <2>4, RunStep, TableUnchanged, StoresUnchanged
<1>5. QED  BY <1>3, <1>4 DEF BarsArrive

LEMMA PrimaryStoreStep ==
    ASSUME QueueInv, NEW w \in Runs,
           NEW status \in {"no_store", "submitted", "failed"}, PrimaryStore(w, status)
    PROVE  QueueInv'
<1> DEFINE f == [run[w] EXCEPT !.pc = "archive", !.status = status]
<1>1. /\ run[w] \in Locals /\ run[w].pc = "store"
      /\ row[run[w].job].failed => run[w].persist
      /\ run[w].job \in Jobs
      /\ UNCHANGED <<row, archived>>
  BY RowOf, InvParts DEF TypeOK, PrimaryStore, WorkBacked
<1>2. /\ f \in Locals /\ f.pc = "archive" /\ f.persist = run[w].persist
      /\ f.status = status /\ f.job = run[w].job /\ f.token = run[w].token
      /\ f.attempts = run[w].attempts
  BY <1>1 DEF Locals, Statuses
<1>3. run' = [run EXCEPT ![w] = f]
  BY InvParts DEF TypeOK, PrimaryStore
<1>4. StoresGrow /\ (status = "submitted" => run[w].job \in submitted')
  BY <1>1, InvParts DEF StoresGrow, PrimaryStore, TypeOK
<1> HIDE DEF f
<1>5. RunKept(w, f)
  BY <1>1, <1>2, <1>4 DEF RunKept, Backed
<1>6. QED  BY <1>1, <1>2, <1>3, <1>4, <1>5, RunStep, TableUnchanged

LEMMA ArchiveResultStep ==
    ASSUME QueueInv, NEW w \in Runs, ArchiveResult(w) PROVE QueueInv'
<1> DEFINE err == \/ run[w].bars \in {"flawed", "fatal"}
                  \/ run[w].status \in {"failed", "no_store"}
           f == [run[w] EXCEPT !.pc = "finish", !.error = err,
                               !.bars = "none", !.status = "not_requested"]
<1>1. /\ run[w] \in Locals /\ run[w].pc = "archive"
      /\ run[w].job \in Jobs /\ row[run[w].job] \in Rows
      /\ UNCHANGED <<row, submitted>>
  BY RowOf, InvParts DEF TypeOK, ArchiveResult
<1>2. /\ row[run[w].job].failed => run[w].persist
      /\ run[w].persist /\ run[w].bars \in {"clean", "flawed"}
         /\ run[w].status \notin {"failed", "no_store"} => run[w].job \in submitted
  BY <1>1, InvParts DEF WorkBacked
<1>3. /\ f \in Locals /\ f.pc = "finish" /\ f.error = err
      /\ f.job = run[w].job /\ f.token = run[w].token
      /\ f.attempts = run[w].attempts
  BY <1>1 DEF Locals, Answers, Statuses
<1>4. run' = [run EXCEPT ![w] = f]
  BY InvParts DEF TypeOK, ArchiveResult, Judged
<1>5. StoresGrow
  BY <1>1, InvParts DEF StoresGrow, ArchiveResult, TypeOK
<1>6. run[w].bars \in {"clean", "none"} => run[w].bars \in archived'[run[w].job]
  BY <1>1, InvParts DEF ArchiveResult, TypeOK
<1>7. ~err => /\ archived'[run[w].job] # {}
              /\ row[run[w].job].failed =>
                    run[w].job \in submitted' \/ "none" \in archived'[run[w].job]
  BY <1>1, <1>2, <1>6 DEF Locals, Answers
<1> HIDE DEF f, err
<1>8. RunKept(w, f)
  BY <1>1, <1>3, <1>7 DEF RunKept, Backed
<1>9. QED  BY <1>1, <1>3, <1>4, <1>5, <1>8, RunStep, TableUnchanged

LEMMA ClaimStep ==
    ASSUME QueueInv, NEW w \in Runs, NEW j \in Jobs, Claim(w, j) PROVE QueueInv'
<1>1. /\ run[w] \in Locals /\ row[j] \in Rows
      /\ run[w].pc = "claim" /\ Claimable(j)
      /\ UNCHANGED <<submitted, archived>>
  BY InvParts DEF Claim, TypeOK
<1>2. PICK t \in FreshTokens :
        /\ row' = [Swept EXCEPT ![j].state = "running", ![j].token = t,
                                ![j].attempts = row[j].attempts + 1,
                                ![j].wait = Lease]
        /\ run' = [run EXCEPT ![w] = [Idle EXCEPT
                      !.pc = "load", !.persist = run[w].persist,
                      !.left = run[w].left, !.job = j, !.token = t,
                      !.attempts = row[j].attempts + 1]]
  BY DEF Claim
<1> DEFINE f == [Idle EXCEPT !.pc = "load", !.persist = run[w].persist,
                      !.left = run[w].left, !.job = j, !.token = t,
                      !.attempts = row[j].attempts + 1]
           r == [row[j] EXCEPT !.state = "running", !.token = t,
                      !.attempts = row[j].attempts + 1, !.wait = Lease]
<1>3. /\ t \in Tokens /\ t # NoToken
      /\ \A i \in Jobs : row[i].token # t
      /\ \A v \in Runs : run[v].token # t
  BY NullsAssumption DEF FreshTokens
<1>4. /\ row[j].attempts + 1 \in 0..MaxAttempts /\ row[j].attempts + 1 > 0
      /\ row[j].state # "absent"
  BY <1>1 DEF Claimable, Open, Rows, MaxAttempts
<1>5. /\ r \in Rows /\ r.state = "running" /\ r.token = t
      /\ r.attempts = row[j].attempts + 1 /\ r.failed = row[j].failed
  <2>1. Lease \in 0..Lease
    BY DEF Lease
  <2>2. QED  BY <1>1, <1>3, <1>4, <2>1 DEF Rows
<1>6. /\ f \in Locals /\ f.pc = "load" /\ f.job = j /\ f.token = t
      /\ f.attempts = row[j].attempts + 1
  BY <1>1, <1>3, <1>4, BlankTypes DEF Idle, Locals
<1>7. run' = [run EXCEPT ![w] = f]
  BY <1>2
<1>8. row' = [Swept EXCEPT ![j] = r]
  <2>1. Swept[j] = row[j]
    BY <1>1 DEF Swept, Spent, Claimable, Rows, MaxAttempts
  <2>2. QED  BY <1>2, <2>1, SweptTypes, InvParts
<1> HIDE DEF f, r
<1>9. /\ row'[j] = r /\ \A i \in Jobs : i # j => row'[i] = Swept[i]
      /\ row' \in [Jobs -> Rows]
  BY <1>5, <1>8, SweptTypes, InvParts
<1>10. run'[w] = f /\ \A v \in Runs : v # w => run'[v] = run[v]
  BY <1>7, InvParts DEF TypeOK
<1>11. \A i \in Jobs :
          /\ row[i].state # "absent" => row'[i].state # "absent"
          /\ row'[i].failed = row[i].failed
  BY <1>5, <1>9, SweptKept
<1>12. TypeOK'
  BY <1>1, <1>6, <1>7, <1>9, InvParts DEF TypeOK
<1>13. RunShape'
  BY <1>3, <1>4, <1>6, <1>10, <1>11, InvParts DEF RunShape
<1>14. LeaseShape'
  BY <1>3, <1>5, <1>9, SweptKept DEF LeaseShape
<1>15. HolderIsCurrent'
  <2>1. SUFFICES ASSUME NEW v \in Runs, NEW i \in Jobs,
                        row'[i].token # NoToken, run'[v].token = row'[i].token
                 PROVE  run'[v].job = i /\ run'[v].attempts = row'[i].attempts
    BY DEF HolderIsCurrent
  <2>2. CASE i = j
    BY <1>3, <1>5, <1>6, <1>9, <1>10, <2>1, <2>2
  <2>3. CASE i # j
    <3>1. row'[i].token = row[i].token /\ row'[i].attempts = row[i].attempts
      BY <1>9, <2>1, <2>3, SweptKept
    <3>2. v # w
      BY <1>3, <1>6, <1>10, <2>1, <3>1
    <3>3. QED  BY <1>10, <2>1, <3>1, <3>2, InvParts DEF HolderIsCurrent
  <2>4. QED  BY <2>2, <2>3
<1>16. WorkBacked'
  <2>1. \A v \in Runs : v # w /\ run[v].pc \notin {"idle", "claim"} =>
            run[v].job \in Jobs
    BY InvParts DEF RunShape
  <2>2. QED
    BY <1>1, <1>6, <1>10, <1>11, <2>1, InvParts DEF WorkBacked, Repaired
<1>17. CompleteMeansRepaired'
  BY <1>1, <1>5, <1>9, <1>11, SweptKept, InvParts DEF CompleteMeansRepaired
<1>18. QED
  BY <1>12, <1>13, <1>14, <1>15, <1>16, <1>17 DEF QueueInv

LEMMA NextQueueInv == QueueInv /\ [Next]_vars => QueueInv'
<1> SUFFICES ASSUME QueueInv, [Next]_vars PROVE QueueInv'
  OBVIOUS
<1>1. CASE UNCHANGED vars
  BY <1>1, TableStep, TableUnchanged DEF vars
<1>2. ASSUME NEW j \in Jobs, NEW failed \in BOOLEAN, NEW continuous \in BOOLEAN,
             Enqueue(j, failed, continuous)
      PROVE  QueueInv'
  BY <1>2, EnqueueStep
<1>3. ASSUME NEW w \in Runs, Starts(w) \/ Claims(w) \/ RunSteps(w) \/ RunDies(w)
      PROVE  QueueInv'
  <2>1. ASSUME Claims(w) PROVE QueueInv'
    BY <2>1, ClaimStep, ClaimsNothingStep DEF Claims
  <2>2. ASSUME RunSteps(w) PROVE QueueInv'
    BY <2>2, ErrsStep, BarsArriveStep, PrimaryStoreStep, ArchiveResultStep,
       FinishStep, LeaseLostStep DEF RunSteps
  <2>3. QED  BY <1>3, <2>1, <2>2, StartRunStep, LeaseLostStep
<1>4. QED  BY <1>1, <1>2, <1>3, TickStep DEF Next

\* The inductive invariant of the queue: who has a lease, and what a run has
\* behind it at each point of run_quality_repairs.
THEOREM QueueInvariant == Spec => []QueueInv
BY InitQueueInv, NextQueueInv, PTL DEF Spec

\* The table and the runs keep their types; in particular no job is ever tried
\* a fourth time and no back-off outlasts a lease.
THEOREM QueueTypeCorrect == Spec => []TypeOK
BY QueueInvariant, InvParts, PTL

\* A job that claims to be complete was repaired, in both stores.
THEOREM CompletedJobsAreRepaired == Spec => []CompleteMeansRepaired
BY QueueInvariant, InvParts, PTL

-----------------------------------------------------------------------------
\* Leases.

\* A step in which j's row changes hands although its lease runs
LeaseTaken(j) ==
    /\ row[j].state = "running" /\ row[j].wait > 0
    /\ row'[j].token # row[j].token

\* Some run finished j with the row's own token.
FinishedByHolder(j) ==
    \E w \in Runs :
        /\ run[w].pc = "finish" /\ run'[w].pc # "finish"
        /\ run[w].job = j /\ run[w].token = row[j].token

LEMMA LeaseStep ==
    ASSUME QueueInv, [Next]_vars, NEW j \in Jobs, LeaseTaken(j)
    PROVE  FinishedByHolder(j)
<1>1. row \in [Jobs -> Rows] /\ run \in [Runs -> Locals] /\ row[j] \in Rows
  BY InvParts DEF TypeOK
<1>2. row' # row
  BY DEF LeaseTaken
<1>3. ~Spent(j) /\ ~Claimable(j) /\ Swept[j] = row[j]
  BY <1>1 DEF LeaseTaken, Spent, Claimable, Swept, Rows
<1>4. ASSUME NEW i \in Jobs, NEW failed \in BOOLEAN, NEW continuous \in BOOLEAN,
             Enqueue(i, failed, continuous)
      PROVE  FALSE
  BY <1>1, <1>4 DEF Enqueue, LeaseTaken
<1>5. ~Tick
  BY <1>1 DEF Tick, LeaseTaken, Rows
<1>6. ASSUME NEW w \in Runs, Claims(w) PROVE FALSE
  <2>1. ASSUME NEW i \in Jobs, Claim(w, i) PROVE FALSE
    <3>1. i # j
      BY <1>3, <2>1 DEF Claim
    <3>2. row'[j] = Swept[j]
      BY <2>1, <3>1, SweptTypes, InvParts DEF Claim
    <3>3. QED  BY <1>3, <3>2 DEF LeaseTaken
  <2>2. ~ClaimsNothing(w)
    BY <1>3 DEF ClaimsNothing, LeaseTaken
  <2>3. QED  BY <1>6, <2>1, <2>2 DEF Claims
<1>7. ASSUME NEW w \in Runs, Finish(w) PROVE FinishedByHolder(j)
  <2>1. run[w].job = j
    BY <1>1, <1>7 DEF Finish, LeaseTaken
  <2>2. run'[w].pc # "finish"
    BY <1>1, <1>7 DEF Finish, NextIteration, Idle
  <2>3. QED  BY <1>7, <2>1, <2>2 DEF Finish, Holds, FinishedByHolder
<1>8. \E w \in Runs : Finish(w) \/ Claims(w)
  BY <1>2, <1>4, <1>5 DEF Next, vars, Starts, StartRun, RunSteps, LoadErrs,
     ArchiveErrs, Errs, BarsArrive, PrimaryStore, ArchiveResult, LeaseLost, RunDies
<1>9. QED  BY <1>6, <1>7, <1>8

\* No claim, no sweep and no finish with an old token takes a row whose lease
\* still runs.
THEOREM LeasesAreRespected == Spec => LeaseRespected
<1>1. QueueInv /\ [Next]_vars =>
        [\A j \in Jobs :
            row[j].state = "running" /\ row[j].wait > 0
            /\ row'[j].token # row[j].token
            => \E w \in Runs :
                  /\ run[w].pc = "finish" /\ run'[w].pc # "finish"
                  /\ run[w].job = j /\ run[w].token = row[j].token]_vars
  BY LeaseStep DEF LeaseTaken, FinishedByHolder
<1>2. QED  BY <1>1, QueueInvariant, PTL DEF Spec, LeaseRespected

-----------------------------------------------------------------------------
\* The queue implements the ledger.

LEMMA InitLedger == Init => Ledger!Init
BY DEF Init, Ledger!Init, LedgerState, LedgerTries, AbsentRow

\* A row whose state and attempts stay, but for the difference between pending
\* and running, is kept in the ledger.
LEMMA SweptInLedger ==
    ASSUME QueueInv, NEW j \in Jobs, row'[j] = Swept[j]
    PROVE  Ledger!Exhausted(j) \/ Ledger!Kept(j)
<1>1. row[j] \in Rows
  BY InvParts DEF TypeOK
<1>2. CASE Spent(j)
  <2>1. /\ row[j].attempts = MaxAttempts /\ row'[j].attempts = row[j].attempts
        /\ Open(j) /\ row'[j].state = "exhausted"
    BY <1>1, <1>2 DEF Swept, Spent, Rows, MaxAttempts
  <2>2. QED
    BY <2>1 DEF Ledger!Exhausted, LedgerState, LedgerTries, Open
<1>3. CASE ~Spent(j)
  BY <1>3 DEF Swept, Ledger!Kept, LedgerState, LedgerTries, Open
<1>4. QED  BY <1>2, <1>3

LEMMA FinishInLedger ==
    ASSUME QueueInv, NEW w \in Runs, Finish(w)
    PROVE  \/ Ledger!Completed(run[w].job) \/ Ledger!Exhausted(run[w].job)
           \/ Ledger!Kept(run[w].job)
<1> DEFINE j == run[w].job
<1>1. /\ j \in Jobs /\ row[j] \in Rows /\ row[j].state = "running"
      /\ run[w].attempts = row[j].attempts /\ row[j].attempts > 0
  BY RowOf, InvParts DEF Finish, Holds, HolderIsCurrent
<1>2. row'[j] = FinishedRow(w)
  BY <1>1, InvParts DEF Finish, TypeOK
<1>3. FinishedRow(w).attempts = row[j].attempts
  BY <1>1 DEF FinishedRow, Rows
<1>4. CASE ~run[w].error
  <2>1. FinishedRow(w).state = "complete"
    BY <1>1, <1>4 DEF FinishedRow, Rows
  <2>2. QED
    BY <1>1, <1>2, <1>3, <2>1
       DEF Ledger!Completed, LedgerState, LedgerTries, Open
<1>5. CASE run[w].error /\ run[w].attempts >= MaxAttempts
  <2>1. FinishedRow(w).state = "exhausted" /\ row[j].attempts = MaxAttempts
    BY <1>1, <1>5 DEF FinishedRow, Rows, MaxAttempts
  <2>2. QED
    BY <1>1, <1>2, <1>3, <2>1
       DEF Ledger!Exhausted, LedgerState, LedgerTries, Open
<1>6. CASE run[w].error /\ ~(run[w].attempts >= MaxAttempts)
  <2>1. FinishedRow(w).state = "pending"
    BY <1>1, <1>6 DEF FinishedRow, Rows
  <2>2. QED
    BY <1>1, <1>2, <1>3, <2>1 DEF Ledger!Kept, LedgerState, LedgerTries, Open
<1>7. QED  BY <1>4, <1>5, <1>6

LEMMA ClaimInLedger ==
    ASSUME QueueInv, NEW w \in Runs, NEW j \in Jobs, Claim(w, j)
    PROVE  Ledger!Tried(j) /\ \A i \in Jobs : i # j => row'[i] = Swept[i]
<1>1. row[j] \in Rows /\ Swept[j] = row[j]
  <2>1. row[j] \in Rows
    BY InvParts DEF TypeOK
  <2>2. ~Spent(j)
    BY <2>1 DEF Claim, Spent, Claimable, Rows, MaxAttempts
  <2>3. QED  BY <2>1, <2>2 DEF Swept
<1>2. /\ row'[j].state = "running" /\ row'[j].attempts = row[j].attempts + 1
      /\ \A i \in Jobs : i # j => row'[i] = Swept[i]
  BY <1>1, SweptTypes, InvParts DEF Claim, Rows
<1>3. Open(j) /\ row[j].attempts < MaxAttempts
  BY DEF Claim, Claimable
<1>4. QED
  BY <1>2, <1>3 DEF Ledger!Tried, LedgerState, LedgerTries, Open

LEMMA StepInLedger ==
    ASSUME QueueInv, [Next]_vars
    PROVE  [Ledger!Next]_<<LedgerState, LedgerTries>>
<1>1. ASSUME NEW j \in Jobs, row'[j].state = row[j].state,
             row'[j].attempts = row[j].attempts
      PROVE  Ledger!Kept(j)
  BY <1>1 DEF Ledger!Kept, LedgerState, LedgerTries, Open
<1>2. row \in [Jobs -> Rows]
  BY InvParts DEF TypeOK
<1>3. CASE UNCHANGED row
  BY <1>1, <1>3 DEF Ledger!Next
<1>4. ASSUME NEW j \in Jobs, NEW failed \in BOOLEAN, NEW continuous \in BOOLEAN,
             Enqueue(j, failed, continuous)
      PROVE  Ledger!Next
  <2>1. row'[j].state = "pending" /\ row'[j].attempts = 0
    BY <1>2, <1>4 DEF Enqueue, AbsentRow
  <2>2. Ledger!Enqueued(j)
    BY <1>4, <2>1 DEF Enqueue, Ledger!Enqueued, LedgerState, LedgerTries, Open
  <2>3. \A i \in Jobs : i # j => Ledger!Kept(i)
    BY <1>1, <1>2, <1>4 DEF Enqueue
  <2>4. QED  BY <2>2, <2>3 DEF Ledger!Next
<1>5. ASSUME Tick PROVE Ledger!Next
  BY <1>1, <1>2, <1>5 DEF Tick, Ledger!Next, Rows
<1>6. ASSUME NEW w \in Runs, Claims(w) PROVE Ledger!Next
  <2>1. ASSUME NEW j \in Jobs, Claim(w, j) PROVE Ledger!Next
    BY <2>1, ClaimInLedger, SweptInLedger DEF Ledger!Next
  <2>2. ASSUME ClaimsNothing(w) PROVE Ledger!Next
    BY <2>2, SweptInLedger DEF ClaimsNothing, Ledger!Next
  <2>3. QED  BY <1>6, <2>1, <2>2 DEF Claims
<1>7. ASSUME NEW w \in Runs, Finish(w) PROVE Ledger!Next
  <2>1. \A i \in Jobs : i # run[w].job => Ledger!Kept(i)
    BY <1>1, <1>2, <1>7 DEF Finish
  <2>2. QED  BY <1>7, <2>1, FinishInLedger DEF Ledger!Next
<1>8. QED
  BY <1>3, <1>4, <1>5, <1>6, <1>7 DEF Next, vars, Starts, StartRun, RunSteps,
     LoadErrs, ArchiveErrs, Errs, BarsArrive, PrimaryStore, ArchiveResult,
     LeaseLost, RunDies

\* However runs crash and overlap, a job is tried at most three times, given up
\* only after the third, and stays as it was settled.
THEOREM ImplementsLedger == Spec => RepairsAreBounded
<1>1. QueueInv /\ [Next]_vars => [Ledger!Next]_<<LedgerState, LedgerTries>>
  BY StepInLedger
<1>2. QED
  BY <1>1, InitLedger, QueueInvariant, PTL
     DEF Spec, RepairsAreBounded, Ledger!Spec
=============================================================================
