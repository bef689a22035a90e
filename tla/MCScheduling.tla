----------------------------- MODULE MCScheduling -----------------------------
(***************************************************************************)
(* The parts of the scheduler process, one TLC run for all of them: `part` *)
(* names the one that runs, the others stay in an initial state of theirs. *)
(* The parts share no variable.                                            *)
(***************************************************************************)
EXTENDS SchedulerRun, Integers

CONSTANTS
    Names, Defs, Barren, Tasks, NoTask, JobEdits, JobFaults,    \* of SchedulerJobs
    MinutesPerHour, HoursPerDay, WeekLength, MonthLengths,      \* of CronSchedule
    LongestMonth, Expressions, Horizon, ShiftAt, ShiftBy, MaxRun, MaxUtc,
    Symbols, KeyOf, Kinds, ApiMode, OpenAt, Duration,           \* of SnapshotRun
    MaxConcurrency, RetryCount, SnapshotFaults, SnapshotTime

VARIABLES
    part,
    jFiles, jRedis, jJobs, jSlot, jTask, jLoader, jPhase, jEdits, jFaults,
    cUtc, cExpression, cCron, cPc, cWakeAt, cSlept,
    sKind, sNow, sWork, sStatus, sBookmark, sStored, sCached, sFaults

Jobs == INSTANCE SchedulerJobs WITH
    MaxEdits <- JobEdits, MaxFaults <- JobFaults,
    files <- jFiles, redis <- jRedis, jobs <- jJobs, slot <- jSlot, task <- jTask,
    loader <- jLoader, phase <- jPhase, edits <- jEdits, faults <- jFaults

Cron == INSTANCE CronSchedule WITH
    utc <- cUtc, expression <- cExpression, cron <- cCron, pc <- cPc,
    wakeAt <- cWakeAt, slept <- cSlept

Snapshot == INSTANCE SnapshotRun WITH
    MaxFaults <- SnapshotFaults, MaxTime <- SnapshotTime,
    kind <- sKind, now <- sNow, work <- sWork, status <- sStatus,
    bookmark <- sBookmark, stored <- sStored, cached <- sCached, faults <- sFaults

-----------------------------------------------------------------------------
\* The instance.  CronSchedule: two months of two and three days, three days of
\* the week; day and weekday fields in every combination of star, value, range
\* and list, and of a bare star and one with the step 1.  A third month, a backward
\* range, a zero step are rejected.

TwoMonths == <<2, 3>>

StarToken(step, bare) ==
    [star |-> TRUE, lo |-> 0, hi |-> 0, step |-> step, bare |-> bare]
AToken(lo, hi, step) ==
    [star |-> FALSE, lo |-> lo, hi |-> hi, step |-> step, bare |-> step = 1]
Every == {StarToken(1, TRUE)}
EveryNth(n) == {StarToken(n, FALSE)}
Only(v) == {AToken(v, v, 1)}

CronExpressions ==
    [minutes : {Every, Only(1), EveryNth(2)}, hours : {Every, {AToken(1, 2, 1)}},
     days : {Every, Only(2), {AToken(1, 1, 1), AToken(3, 3, 1)}},
     months : {Every, Only(2), Only(3)},
     weekdays : {Every, EveryNth(1), Only(3), {AToken(1, 3, 2)}, EveryNth(2),
                 {AToken(2, 1, 1)}, EveryNth(0)}]

OwnKeys == [s \in Symbols |-> s]

ASSUME PartsAssumption ==
    Jobs!DefsAssumption /\ Cron!CalendarAssumption /\ Snapshot!SnapshotAssumption

-----------------------------------------------------------------------------

runVars == <<lease, ttl, latest, run, untold, faults>>
jobsVars == <<jFiles, jRedis, jJobs, jSlot, jTask, jLoader, jPhase, jEdits, jFaults>>
cronVars == <<cUtc, cExpression, cCron, cPc, cWakeAt, cSlept>>
snapVars == <<sKind, sNow, sWork, sStatus, sBookmark, sStored, sCached, sFaults>>

SuiteInit ==
    /\ part \in {"run", "jobs", "cron", "snapshot"}
    /\ Init
    /\ part # "jobs" => jFiles \in [Names -> {"absent"}] /\ jRedis \in [Names -> {"absent"}]
    /\ Jobs!Init
    /\ part # "cron" => cExpression \in [minutes : {Every}, hours : {Every}, days : {Every},
                                         months : {Every}, weekdays : {Every}]
    /\ Cron!Init
    /\ part # "snapshot" => sKind = "ohlcv_snapshot"
    /\ Snapshot!Init

RunSuite == part = "run" /\ Next /\ UNCHANGED <<part, jobsVars, cronVars, snapVars>>
JobsSuite == part = "jobs" /\ Jobs!Next /\ UNCHANGED <<part, runVars, cronVars, snapVars>>
CronSuite == part = "cron" /\ Cron!Next /\ UNCHANGED <<part, runVars, jobsVars, snapVars>>
SnapshotSuite ==
    part = "snapshot" /\ Snapshot!Next /\ UNCHANGED <<part, runVars, jobsVars, cronVars>>

SuiteNext == RunSuite \/ JobsSuite \/ CronSuite \/ SnapshotSuite

SuiteSpec == SuiteInit /\ [][SuiteNext]_<<part, runVars, jobsVars, cronVars, snapVars>>

-----------------------------------------------------------------------------

(* Every part keeps its types. *)
TypesOK == TypeOK /\ Jobs!TypeOK /\ Cron!TypeOK /\ Snapshot!TypeOK

(* Two reloads, a cancelled task that still winds down, a stop: a job never
   has two tasks that are alive (SchedulerJobs). *)
OneTaskPerJob == Jobs!OneTaskPerJob

(* Once stopped, no task of a job and no reload is left (SchedulerJobs). *)
StoppedMeansQuiet == Jobs!StoppedMeansQuiet

(* A cron job runs in the minutes its expression names (CronSchedule). *)
RunsAtItsTimes == Cron!RunsAtItsTimes

(* No minute the expression names is slept through (CronSchedule). *)
NoMinuteSleptThrough == Cron!NoMinuteSleptThrough

(* A bookmark passes only bars that are stored in their final form
   (SnapshotRun). *)
BookmarksPassFinalBars == Snapshot!BookmarksPassFinalBars

(* The cache never shows what the store has not (SnapshotRun). *)
CacheFollowsStore == Snapshot!CacheFollowsStore
=============================================================================
