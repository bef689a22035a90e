------------------------------ MODULE MCProgress ------------------------------
(***************************************************************************)
(* The liveness of the scheduler, one TLC run for its two loops: `part`    *)
(* names the one that runs.  The fairness is that of SchedulerRun!FairSpec *)
(* and SchedulerJobs!FairSpec, said of the part that runs.                 *)
(***************************************************************************)
EXTENDS SchedulerRun

CONSTANTS Names, Defs, Barren, Tasks, NoTask

VARIABLES
    part,
    jFiles, jRedis, jJobs, jSlot, jTask, jLoader, jPhase, jEdits, jFaults

Jobs == INSTANCE SchedulerJobs WITH
    MaxEdits <- 2, MaxFaults <- 2,
    files <- jFiles, redis <- jRedis, jobs <- jJobs, slot <- jSlot, task <- jTask,
    loader <- jLoader, phase <- jPhase, edits <- jEdits, faults <- jFaults

ASSUME Jobs!DefsAssumption

-----------------------------------------------------------------------------

jobsVars == <<jFiles, jRedis, jJobs, jSlot, jTask, jLoader, jPhase, jEdits, jFaults>>
suiteVars == <<part, vars, jobsVars>>

SuiteInit ==
    /\ part \in {"run", "jobs"}
    /\ Init
    /\ part = "run" => jFiles \in [Names -> {"absent"}] /\ jRedis \in [Names -> {"absent"}]
    /\ Jobs!Init

InRun == part = "run" /\ UNCHANGED <<part, jobsVars>>
InJobs == part = "jobs" /\ UNCHANGED <<part, vars>>

RunSuite == Next /\ InRun
JobsSuite == Jobs!Next /\ InJobs
SuiteNext == RunSuite \/ JobsSuite

RunFairness ==
    /\ WF_suiteVars(Tick /\ InRun)
    /\ \A w \in Workers :
           WF_suiteVars(Triggered(w) /\ InRun) /\ WF_suiteVars(RunSteps(w) /\ InRun)

JobsFairness ==
    /\ WF_suiteVars(Jobs!Reload /\ InJobs)
    /\ WF_suiteVars(Jobs!StopBegins /\ InJobs) /\ WF_suiteVars(Jobs!StopEnds /\ InJobs)
    /\ \A t \in Tasks : WF_suiteVars(Jobs!TaskEnds(t) /\ InJobs)

SuiteSpec ==
    SuiteInit /\ [][SuiteNext]_suiteVars /\ RunFairness /\ JobsFairness

-----------------------------------------------------------------------------

(* Whatever leases a crash, a cancellation or a lost reply leaves behind, the
   job runs again and again; and after the last edit of the sources the job
   table settles on what they say, with a task for every job
   (SchedulerRun, SchedulerJobs). *)
SchedulerKeepsOn ==
    /\ part = "run" => KeepsRunning
    /\ part = "jobs" => Jobs!Settles
=============================================================================
