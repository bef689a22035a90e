---------------------------- MODULE SchedulerRun ----------------------------
(***************************************************************************)
(* One job of the scheduler on several worker processes: _run_once of      *)
(* src/transport/scheduler.py with its lease and its run record in Redis   *)
(* (src/transport/redis_client.py).                                        *)
(*                                                                         *)
(* A worker has one task for the job, so at most one run.  A step is what  *)
(* a run does up to its next await.  Time passes in units against which    *)
(* Redis calls take none; a call may fail before or after Redis executed   *)
(* it.  The job is defined by max_attempts, timeout_seconds,               *)
(* retry_backoff_seconds and lease_ttl_seconds.                            *)
(***************************************************************************)
EXTENDS Naturals, FiniteSets

CONSTANTS
    Workers, Tokens, NoToken,
    Attempts, Timeout, Backoff, LeaseTtl,
    MaxFaults       \* bound on crashes, cancellations and failed Redis calls

ASSUME TokenAssumption == NoToken \notin Tokens
ASSUME JobAssumption ==
    /\ Attempts \in Nat \ {0} /\ Timeout \in Nat \ {0}
    /\ Backoff \in Nat /\ LeaseTtl \in Nat \ {0} /\ MaxFaults \in Nat

VARIABLES
    lease,      \* SchedulerLease::<job>: the owner's token,
    ttl,        \* and the time until it expires
    latest,     \* SchedulerRun::<job>:latest
    run,        \* _run_once of each worker
    untold,     \* runs whose end could not be recorded (observation)
    faults

vars == <<lease, ttl, latest, run, untold, faults>>

Returned == {"success", "partial_success", "failed", "skipped_window"}
Outcomes == Returned \cup {"timeout"}
Longest == Timeout + Backoff * Attempts

Idle == [pc |-> "idle", token |-> NoToken, attempt |-> 0, timer |-> 0,
         outcome |-> "success"]

\* After a run: until the next interval or cron time
Waiting == [Idle EXCEPT !.pc = "wait"]

TypeOK ==
    /\ lease \in Tokens \cup {NoToken} /\ ttl \in 0..LeaseTtl
    /\ latest \in [run    : Tokens \cup {NoToken},
                   status : Outcomes \cup {"none", "lease_skipped", "running",
                                           "cancelled"}]
    /\ run \in [Workers ->
          [pc      : {"idle", "wait", "acquire", "skip", "record", "handler", "backoff",
                      "cancelled", "final", "release"},
           token   : Tokens \cup {NoToken}, attempt : 0..Attempts,
           timer   : 0..Longest, outcome : Outcomes]]
    /\ untold \subseteq Tokens
    /\ faults \in 0..MaxFaults

Init ==
    /\ lease = NoToken /\ ttl = 0
    /\ latest = [run |-> NoToken, status |-> "none"]
    /\ run = [w \in Workers |-> Idle]
    /\ untold = {} /\ faults = 0

Fault == faults < MaxFaults /\ faults' = faults + 1

Goto(w, pc) == run' = [run EXCEPT ![w].pc = pc]

\* A token nobody holds or remembers (uuid4)
FreshTokens ==
    {t \in Tokens : t # lease /\ t # latest.run /\ \A w \in Workers : run[w].token # t}

-----------------------------------------------------------------------------
\* Redis.

\* Mutant: SET ... EX, without NX.
LeaseOver(t) == lease' = t /\ ttl' = LeaseTtl

\* SET ... NX EX
Lease(t) == lease = NoToken /\ lease' = t /\ ttl' = LeaseTtl

\* The script that compares the token before it deletes
DeleteOwn(t) ==
    IF lease = t THEN lease' = NoToken /\ ttl' = 0 ELSE UNCHANGED <<lease, ttl>>

\* record_scheduler_run; a failure is logged and ignored.
Record(w, status) ==
    \/ latest' = [run |-> run[w].token, status |-> status] /\ UNCHANGED <<untold, faults>>
    \/ /\ Fault /\ UNCHANGED latest
       /\ untold' = IF status \in {"running", "lease_skipped"} THEN untold
                    ELSE untold \cup {run[w].token}

-----------------------------------------------------------------------------
\* A run.

Triggered(w) ==
    /\ run[w].pc = "idle"
    /\ FreshTokens # {}
    /\ LET t == CHOOSE t \in FreshTokens : TRUE IN
          /\ run' = [run EXCEPT ![w] = [Idle EXCEPT !.pc = "acquire", !.token = t]]
          /\ untold' = untold \ {t}
    /\ UNCHANGED <<lease, ttl, latest, faults>>

NextAttempt(w) ==
    run' = [run EXCEPT ![w].pc = "record", ![w].attempt = @ + 1, ![w].timer = 0]

Acquires(w) ==
    /\ run[w].pc = "acquire" /\ Lease(run[w].token) /\ NextAttempt(w)
    /\ UNCHANGED <<latest, untold, faults>>

Refused(w) ==
    /\ run[w].pc = "acquire" /\ lease # NoToken /\ Goto(w, "skip")
    /\ UNCHANGED <<lease, ttl, latest, untold, faults>>

\* "skipping run to avoid duplicate work", although Redis may hold the lease
AcquireErrs(w) ==
    /\ run[w].pc = "acquire" /\ Fault /\ Goto(w, "skip")
    /\ Lease(run[w].token) \/ UNCHANGED <<lease, ttl>>
    /\ UNCHANGED <<latest, untold>>

RecordsSkip(w) ==
    /\ run[w].pc = "skip" /\ Record(w, "lease_skipped")
    /\ run' = [run EXCEPT ![w] = Waiting]
    /\ UNCHANGED <<lease, ttl>>

RecordsRunning(w) ==
    /\ run[w].pc = "record" /\ Record(w, "running")
    /\ run' = [run EXCEPT ![w].pc = "handler", ![w].timer = Timeout]
    /\ UNCHANGED <<lease, ttl>>

Ends(w, status) ==
    run' = [run EXCEPT ![w].pc = "final", ![w].outcome = status, ![w].timer = 0]

\* Any result the handler returns ends the loop, "failed" included.
HandlerReturns(w, status) ==
    /\ run[w].pc = "handler" /\ Ends(w, status)
    /\ UNCHANGED <<lease, ttl, latest, untold, faults>>

\* Mutant: one attempt too many.
RetriesOnceMore(w) == run[w].attempt <= Attempts

Retries(w) == run[w].attempt < Attempts

\* The handler raises, or wait_for cuts it off.
HandlerFails(w, status) ==
    /\ run[w].pc = "handler" /\ (status = "timeout" => run[w].timer = 0)
    /\ IF Retries(w)
       THEN run' = [run EXCEPT ![w].pc = "backoff", ![w].outcome = status,
                               ![w].timer = Backoff * run[w].attempt]
       ELSE Ends(w, status)
    /\ UNCHANGED <<lease, ttl, latest, untold, faults>>

BacksOff(w) ==
    /\ run[w].pc = "backoff" /\ run[w].timer = 0 /\ NextAttempt(w)
    /\ UNCHANGED <<lease, ttl, latest, untold, faults>>

RecordsFinal(w) ==
    /\ run[w].pc = "final" /\ Record(w, run[w].outcome) /\ Goto(w, "release")
    /\ UNCHANGED <<lease, ttl>>

RecordsCancelled(w) ==
    /\ run[w].pc = "cancelled" /\ Record(w, "cancelled") /\ Goto(w, "release")
    /\ UNCHANGED <<lease, ttl>>

Releases(w) ==
    /\ run[w].pc = "release" /\ DeleteOwn(run[w].token)
    /\ run' = [run EXCEPT ![w] = Waiting]
    /\ UNCHANGED <<latest, untold, faults>>

\* The reply is lost, or the task is cancelled once more: the lease may stay.
ReleaseErrs(w) ==
    /\ run[w].pc = "release" /\ Fault
    /\ run' = [run EXCEPT ![w] = Waiting]
    /\ DeleteOwn(run[w].token) \/ UNCHANGED <<lease, ttl>>
    /\ UNCHANGED <<latest, untold>>

\* Mutant: a cancelled handler goes straight to the release.
CancelUnrecorded(w) == Goto(w, "release")

\* Only a cancellation of the handler itself is recorded.
CancelInHandler(w) == Goto(w, "cancelled")

\* A changed or removed job, or the end of a shutdown's patience.  An attempt
\* that is not in its handler leaves "running" behind; one that waits for the
\* lease leaves the lease.
Cancelled(w) ==
    /\ run[w].pc \notin {"idle", "wait", "release"} /\ Fault
    /\ CASE run[w].pc = "acquire" ->
               /\ run' = [run EXCEPT ![w] = Waiting]
               /\ Lease(run[w].token) \/ UNCHANGED <<lease, ttl>>
               /\ UNCHANGED untold
         [] run[w].pc = "skip" ->
               run' = [run EXCEPT ![w] = Waiting] /\ UNCHANGED <<lease, ttl, untold>>
         [] run[w].pc = "handler" ->
               CancelInHandler(w) /\ UNCHANGED <<lease, ttl, untold>>
         [] OTHER ->
               /\ Goto(w, "release") /\ untold' = untold \cup {run[w].token}
               /\ UNCHANGED <<lease, ttl>>
    /\ UNCHANGED latest

Crashes(w) ==
    /\ run[w].pc \notin {"idle", "wait"} /\ Fault
    /\ run' = [run EXCEPT ![w] = Waiting] /\ untold' = untold \cup {run[w].token}
    /\ UNCHANGED <<lease, ttl, latest>>

\* Mutant: a key without expiry.
NeverExpires == UNCHANGED <<lease, ttl>>

Expiry ==
    /\ ttl' = IF ttl > 0 THEN ttl - 1 ELSE 0
    /\ lease' = IF ttl' = 0 THEN NoToken ELSE lease

Waits(w) == run[w].pc \in {"handler", "backoff"} /\ run[w].timer > 0

Tick ==
    /\ \A w \in Workers : run[w].pc \in {"idle", "wait"} \/ Waits(w)
    /\ run' = [w \in Workers |->
                  CASE Waits(w) -> [run[w] EXCEPT !.timer = @ - 1]
                    [] run[w].pc = "wait" -> Idle
                    [] OTHER -> run[w]]
    /\ Expiry
    /\ UNCHANGED <<latest, untold, faults>>

-----------------------------------------------------------------------------
RunSteps(w) ==
    \/ Acquires(w) \/ Refused(w) \/ RecordsSkip(w) \/ RecordsRunning(w)
    \/ BacksOff(w) \/ RecordsFinal(w) \/ RecordsCancelled(w) \/ Releases(w)
    \/ \E status \in Returned : HandlerReturns(w, status)
    \/ \E status \in {"failed", "timeout"} : HandlerFails(w, status)

Faulty(w) == AcquireErrs(w) \/ ReleaseErrs(w) \/ Cancelled(w) \/ Crashes(w)

Next == Tick \/ \E w \in Workers : Triggered(w) \/ RunSteps(w) \/ Faulty(w)

Spec == Init /\ [][Next]_vars

\* Intervals and cron keep triggering, calls end by their timeouts, handlers by
\* timeout_seconds, and time passes whenever nobody has a step to make.
FairSpec ==
    Spec /\ WF_vars(Tick)
    /\ \A w \in Workers : WF_vars(Triggered(w)) /\ WF_vars(RunSteps(w))

-----------------------------------------------------------------------------
\* Two workers never execute the handler of one job at the same time
\* (_acquire_job_lease; "prevent duplicate execution when multiple scheduler
\* workers see the same job").
NoDuplicateExecution ==
    Cardinality({w \in Workers : run[w].pc = "handler"}) <= 1

\* The longest time from the first attempt to the end of the last one
RunTime ==
    Attempts * Timeout + Backoff * ((Attempts * (Attempts - 1)) \div 2)

LeaseCoversRun == LeaseTtl > RunTime

\* With a lease that covers every attempt and back-off, whatever fails, is
\* cancelled or crashes, the handler is never executed twice at a time.
CoveredRunsAreExclusive == LeaseCoversRun => NoDuplicateExecution

\* The ledger shows "running" only while that run is under way, unless the
\* worker died, was cancelled between two attempts, or could not reach Redis
\* (_record_run_result).
LedgerTellsTheEnd ==
    latest.status = "running" =>
        latest.run \in untold \/ \E w \in Workers : run[w].token = latest.run

\* Whatever leases were left behind, the job runs again and again.
KeepsRunning == []<>(\E w \in Workers : run[w].pc = "handler")

=============================================================================
