----------------------------- MODULE RepairQueue -----------------------------
(***************************************************************************)
(* The queue of historical-data repairs: the repairs table of the archive  *)
(* (src/transport/analytics_store.py), the runs that work on it            *)
(* (src/feeds/quality_repair.py) and the load each repair makes            *)
(* (src/feeds/ohlcv_loader.py).                                            *)
(*                                                                         *)
(* Runs belong to the scheduler process or to API requests; they share the *)
(* SQLite file and nothing else.  A step of the model is one transaction   *)
(* or what one run does between two awaits.  Time is counted in units of   *)
(* five minutes, and a row keeps the time left until its due_at, so that   *)
(* every row that is due looks alike: ORDER BY due_at is abstracted to a   *)
(* free choice among the due rows.                                         *)
(***************************************************************************)
EXTENDS Integers

CONSTANTS
    Jobs,           \* captures that may need a repair, one job each
    SchedulerRuns,  \* runs of the data_quality_repair handler
    ApiRuns,        \* runs of POST /repairs/run
    Tokens,         \* lease tokens (uuid4: never one that somebody still has)
    NoJob, NoToken, \* None
    MaxLimit        \* bound on the number of repairs one run may make

Runs == SchedulerRuns \cup ApiRuns

ASSUME RunsAssumption == SchedulerRuns \cap ApiRuns = {}
ASSUME NullsAssumption == NoJob \notin Jobs /\ NoToken \notin Tokens
ASSUME LimitAssumption == MaxLimit \in Nat \ {0}

VARIABLES
    row,        \* the repairs table
    run,        \* run_quality_repairs of each run: where it is, its locals
    submitted,  \* the jobs whose bars a repair submitted to the primary store
    archived    \* for each job, the sound captures its repairs archived

vars == <<row, run, submitted, archived>>

MaxAttempts == 3
EnqueueDelay == 1
Lease == 6

\* Mutant: one doubling too many.
BackoffTwice(n) == 2 ^ (n + 1)

Backoff(n) == 2 ^ n

Answers == {"clean", "flawed", "fatal", "none"}

\* primary_persistence
Statuses == {"not_requested", "no_store", "submitted", "failed", "quarantined"}

Rows ==
    [state      : {"absent", "pending", "running", "complete", "exhausted"},
     attempts   : 0..MaxAttempts,
     wait       : 0..Lease,                 \* until due_at
     token      : Tokens \cup {NoToken},
     failed     : BOOLEAN,                  \* had the primary store failed?
     continuous : BOOLEAN]

AbsentRow == [state |-> "absent", attempts |-> 0, wait |-> 0, token |-> NoToken,
              failed |-> FALSE, continuous |-> FALSE]

Locals ==
    [pc       : {"idle", "claim", "load", "store", "archive", "finish"},
     persist  : BOOLEAN,
     left     : 0..MaxLimit,                \* iterations after this one
     job      : Jobs \cup {NoJob},          \* the claimed RepairJob: its id,
     token    : Tokens \cup {NoToken},      \* its lease_token
     attempts : 0..MaxAttempts,             \* and its attempts
     bars     : Answers,
     status   : Statuses,
     error    : BOOLEAN]

Idle == [pc |-> "idle", persist |-> FALSE, left |-> 0, job |-> NoJob,
         token |-> NoToken, attempts |-> 0, bars |-> "none",
         status |-> "not_requested", error |-> FALSE]

TypeOK ==
    /\ row \in [Jobs -> Rows]
    /\ run \in [Runs -> Locals]
    /\ submitted \subseteq Jobs
    /\ archived \in [Jobs -> SUBSET {"clean", "none"}]

Init ==
    /\ row = [j \in Jobs |-> AbsentRow]
    /\ run = [w \in Runs |-> Idle]
    /\ submitted = {}
    /\ archived = [j \in Jobs |-> {}]

-----------------------------------------------------------------------------
\* The table.

\* archive_dataset stores a capture with issues, or one that the primary store
\* refused, together with its repair job.
Enqueue(j, failed, continuous) ==
    /\ row[j].state = "absent"
    /\ row' = [row EXCEPT ![j] = [AbsentRow EXCEPT
                  !.state = "pending", !.wait = EnqueueDelay,
                  !.failed = failed, !.continuous = continuous]]
    /\ UNCHANGED <<run, submitted, archived>>

Open(j) == row[j].state \in {"pending", "running"}

\* Mutant: only rows that nobody runs are looked at.
SpentPending(j) ==
    row[j].state = "pending" /\ row[j].attempts >= MaxAttempts /\ row[j].wait = 0

\* The rows claim_repair gives up before it looks for one to claim
Spent(j) == Open(j) /\ row[j].attempts >= MaxAttempts /\ row[j].wait = 0

\* Mutant: a running row is claimed again without regard to its lease.
ClaimableEarly(j) ==
    /\ Open(j) /\ row[j].attempts < MaxAttempts
    /\ row[j].wait = 0 \/ row[j].state = "running"

Claimable(j) == Open(j) /\ row[j].attempts < MaxAttempts /\ row[j].wait = 0

\* The table after the UPDATE ... SET state='exhausted'
Swept ==
    [j \in Jobs |->
        IF Spent(j)
        THEN [row[j] EXCEPT !.state = "exhausted", !.token = NoToken]
        ELSE row[j]]

FreshTokens ==
    {t \in Tokens : /\ \A j \in Jobs : row[j].token # t
                    /\ \A w \in Runs : run[w].token # t}

\* claim_repair, in one transaction
Claim(w, j) ==
    /\ run[w].pc = "claim" /\ Claimable(j)
    /\ \E t \in FreshTokens :
        /\ row' = [Swept EXCEPT ![j].state = "running", ![j].token = t,
                                ![j].attempts = row[j].attempts + 1,
                                ![j].wait = Lease]
        /\ run' = [run EXCEPT ![w] = [Idle EXCEPT
                      !.pc = "load", !.persist = run[w].persist,
                      !.left = run[w].left, !.job = j, !.token = t,
                      !.attempts = row[j].attempts + 1]]
    /\ UNCHANGED <<submitted, archived>>

\* Nothing is due: the run is over.
ClaimsNothing(w) ==
    /\ run[w].pc = "claim" /\ \A j \in Jobs : ~Claimable(j)
    /\ row' = Swept
    /\ run' = [run EXCEPT ![w] = Idle]
    /\ UNCHANGED <<submitted, archived>>

\* Mutant: the job is finished by its id alone.
HoldsById(w) == TRUE

\* Does w still hold the lease of its job?  (the WHERE of finish_repair)
Holds(w) ==
    row[run[w].job].state = "running" /\ row[run[w].job].token = run[w].token

\* What finish_repair writes for w; the due_at of a settled row is never read.
FinishedRow(w) ==
    LET r == [row[run[w].job] EXCEPT !.token = NoToken] IN
    IF ~run[w].error
    THEN [r EXCEPT !.state = "complete", !.wait = 0]
    ELSE IF run[w].attempts >= MaxAttempts
    THEN [r EXCEPT !.state = "exhausted", !.wait = 0]
    ELSE [r EXCEPT !.state = "pending", !.wait = Backoff(run[w].attempts)]

\* The head of the for loop of run_quality_repairs
NextIteration(w) ==
    IF run[w].left = 0
    THEN Idle
    ELSE [Idle EXCEPT !.pc = "claim", !.persist = run[w].persist,
                      !.left = run[w].left - 1]

Finish(w) ==
    /\ run[w].pc = "finish" /\ Holds(w)
    /\ row' = [row EXCEPT ![run[w].job] = FinishedRow(w)]
    /\ run' = [run EXCEPT ![w] = NextIteration(w)]
    /\ UNCHANGED <<submitted, archived>>

\* "repair lease lost" is raised through the whole run.
LeaseLost(w) ==
    /\ run[w].pc = "finish" /\ ~Holds(w)
    /\ run' = [run EXCEPT ![w] = Idle]
    /\ UNCHANGED <<row, submitted, archived>>

-----------------------------------------------------------------------------
\* A run.

\* The scheduler handler passes the job's persist parameter, the API never
\* writes to the primary store.
StartRun(w, persist, limit) ==
    /\ run[w].pc = "idle"
    /\ persist => w \in SchedulerRuns
    /\ run' = [run EXCEPT ![w] = [Idle EXCEPT
                  !.pc = "claim", !.persist = persist, !.left = limit - 1]]
    /\ UNCHANGED <<row, submitted, archived>>

\* The try block ends; only the error is looked at afterwards.
Judged(w, error) ==
    run' = [run EXCEPT ![w].pc = "finish", ![w].error = error,
                       ![w].bars = "none", ![w].status = "not_requested"]

Errs(w) == Judged(w, TRUE) /\ UNCHANGED <<row, submitted, archived>>

\* Mutant: a run without persist takes repairs of the primary store too.
OnlyContinuousRefused(w) == row[run[w].job].continuous

\* What run_quality_repairs raises for before it loads anything
Refused(w) ==
    \/ row[run[w].job].failed /\ ~run[w].persist
    \/ row[run[w].job].continuous

\* The job is refused, or the archive or the feed raises.
LoadErrs(w) == run[w].pc = "load" /\ Errs(w)

\* process_bars gets an answer and judges it.  Bars that are not fatal go to the
\* primary store if the run persists and the process has one.
BarsArrive(w, bars) ==
    /\ run[w].pc = "load" /\ ~Refused(w)
    /\ \/ /\ run[w].persist /\ bars \in {"clean", "flawed"}
          /\ run' = [run EXCEPT ![w].pc = "store", ![w].bars = bars]
       \/ /\ ~run[w].persist \/ bars \in {"fatal", "none"}
          /\ \E status \in IF bars = "fatal" THEN {"quarantined"}
                           ELSE IF run[w].persist THEN {"no_store", "not_requested"}
                           ELSE {"not_requested"} :
                run' = [run EXCEPT ![w].pc = "archive", ![w].bars = bars,
                                   ![w].status = status]
    /\ UNCHANGED <<row, submitted, archived>>

\* insert_bars on the primary store
PrimaryStore(w, status) ==
    /\ run[w].pc = "store"
    /\ run' = [run EXCEPT ![w].pc = "archive", ![w].status = status]
    /\ submitted' = IF status = "submitted" THEN submitted \cup {run[w].job}
                                            ELSE submitted
    /\ UNCHANGED <<row, archived>>

\* archive_dataset without a repair job of its own, and the judgement of the
\* result by run_quality_repairs
ArchiveResult(w) ==
    /\ run[w].pc = "archive"
    /\ archived' = [archived EXCEPT ![run[w].job] =
                        @ \cup ({run[w].bars} \cap {"clean", "none"})]
    /\ Judged(w, \/ run[w].bars \in {"flawed", "fatal"}
                 \/ run[w].status \in {"failed", "no_store"})
    /\ UNCHANGED <<row, submitted>>

\* The archive raises after the primary store was written.
ArchiveErrs(w) == run[w].pc = "archive" /\ Errs(w)

\* The process dies, the request times out or the run is cancelled: nothing
\* below run_quality_repairs gives the lease back.
RunDies(w) ==
    /\ run[w].pc # "idle"
    /\ run' = [run EXCEPT ![w] = Idle]
    /\ UNCHANGED <<row, submitted, archived>>

\* Five minutes pass.
Tick ==
    /\ \E j \in Jobs : Open(j) /\ row[j].wait > 0
    /\ row' = [j \in Jobs |->
                  IF row[j].wait > 0 THEN [row[j] EXCEPT !.wait = @ - 1]
                                     ELSE row[j]]
    /\ UNCHANGED <<run, submitted, archived>>

-----------------------------------------------------------------------------
RunSteps(w) ==
    \/ LoadErrs(w) \/ ArchiveResult(w) \/ ArchiveErrs(w)
    \/ \E bars \in Answers : BarsArrive(w, bars)
    \/ \E status \in {"no_store", "submitted", "failed"} : PrimaryStore(w, status)
    \/ Finish(w) \/ LeaseLost(w)

Claims(w) == ClaimsNothing(w) \/ \E j \in Jobs : Claim(w, j)

Starts(w) ==
    \E persist \in BOOLEAN, limit \in 1..MaxLimit : StartRun(w, persist, limit)

Next ==
    \/ \E j \in Jobs, failed \in BOOLEAN, continuous \in BOOLEAN :
          Enqueue(j, failed, continuous)
    \/ \E w \in Runs : Starts(w) \/ Claims(w) \/ RunSteps(w) \/ RunDies(w)
    \/ Tick

Spec == Init /\ [][Next]_vars

\* Cron keeps starting the scheduler's runs, and not every one of them dies
\* before its first transaction (SF).  Loads and SQLite calls end by their
\* timeouts.  Nothing obliges the API to be called or a run to survive.
FairSpec ==
    /\ Spec
    /\ WF_vars(Tick)
    /\ \A w \in SchedulerRuns :
          WF_vars(Starts(w)) /\ SF_vars(Claims(w)) /\ WF_vars(RunSteps(w))

-----------------------------------------------------------------------------
\* While a lease runs, the row changes hands only because its holder finishes:
\* no other run claims it, sweeps it away or finishes it with an old token
\* (claim_repair against finish_repair).
LeaseRespected ==
    [][\A j \in Jobs :
          row[j].state = "running" /\ row[j].wait > 0
          /\ row'[j].token # row[j].token
          => \E w \in Runs :
                /\ run[w].pc = "finish" /\ run'[w].pc # "finish"
                /\ run[w].job = j /\ run[w].token = row[j].token]_vars

\* A job is complete only when a repair archived a capture of its window without
\* issues, and, when it was the primary store that had failed, only when a
\* repair submitted bars to that store or found the window empty: no run
\* without persist, and no crash between the two stores, completes it
\* (run_quality_repairs, process_bars).
CompleteMeansRepaired ==
    \A j \in Jobs :
        row[j].state = "complete" =>
            /\ archived[j] # {}
            /\ row[j].failed => j \in submitted \/ "none" \in archived[j]

LedgerState ==
    [j \in Jobs |-> IF row[j].state = "absent" THEN "none"
                    ELSE IF Open(j) THEN "open" ELSE row[j].state]

LedgerTries == [j \in Jobs |-> row[j].attempts]

Ledger == INSTANCE RepairLedger
              WITH MaxTries <- MaxAttempts, state <- LedgerState,
                   tries <- LedgerTries

\* Whatever crashes, expires or overlaps, a job is tried at most three times,
\* is given up only after the third, and stays as it was settled
\* (claim_repair, finish_repair).
RepairsAreBounded == Ledger!Spec

\* Every job is settled in the end, even if every run that claims it dies.
EventuallySettled ==
    \A j \in Jobs : (row[j].state # "absent") ~> ~Open(j)

=============================================================================
