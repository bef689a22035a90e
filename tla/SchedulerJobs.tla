---------------------------- MODULE SchedulerJobs ----------------------------
(***************************************************************************)
(* The job table of one scheduler process (src/transport/scheduler.py):    *)
(* the reload loop that reconciles the running tasks with the local files  *)
(* and the job keys in Redis, and the graceful stop.                       *)
(*                                                                         *)
(* A definition stands for a payload: two are equal when their hashes are. *)
(* What cannot run (invalid, or without a handler) is like an absent one.  *)
(* Files are read without an await, keys one by one.  Names are reconciled *)
(* in any order and one per step, although the loop only gives up control  *)
(* when it waits for a cancelled task.                                     *)
(***************************************************************************)
EXTENDS Naturals, Functions

CONSTANTS
    Names, Defs,
    Barren,             \* definitions whose cron never matches: their task dies
    Tasks, NoTask,      \* asyncio tasks of job loops
    MaxEdits, MaxFaults \* bounds on changes of Redis keys and on failed loads

Absent == "absent"
Disabled == "disabled"      \* enabled = false
Stages == {"sleep", "scan", "get", "apply", "off"}

\* There are tasks for all jobs.
DefsAssumption ==
    /\ Barren \subseteq Defs /\ {Absent, Disabled} \cap Defs = {}
    /\ NoTask \notin Tasks /\ ExistsInjection(Names, Tasks)
    /\ Names \cap (Stages \cup {Absent}) = {} /\ {MaxEdits, MaxFaults} \subseteq Nat

VARIABLES
    files,      \* the schedulejob directory
    redis,      \* the SchedulerJob::* keys
    jobs,       \* _jobs
    slot,       \* _tasks
    task,       \* the tasks that are not done
    loader,     \* _reload_task: where it is, what it has merged, what is left
    phase,      \* of the process
    edits, faults

vars == <<files, redis, jobs, slot, task, loader, phase, edits, faults>>

Free == [name |-> Absent, def |-> Absent, cancelled |-> FALSE]
Asleep == [pc |-> "sleep", merged |-> [n \in Names |-> Absent], todo |-> {},
           cancelled |-> FALSE]

TypeOK ==
    /\ files \in [Names -> Defs \cup {Absent}]
    /\ redis \in [Names -> Defs \cup {Absent, Disabled}]
    /\ jobs \in [Names -> Defs \cup {Absent}]
    /\ slot \in [Names -> Tasks \cup {NoTask}]
    /\ task \in [Tasks -> [name : Names \cup {Absent}, def : Defs \cup {Absent},
                           cancelled : BOOLEAN]]
    /\ loader \in [pc : Stages \cup Names,
                   merged : [Names -> Defs \cup {Absent}], todo : SUBSET Names,
                   cancelled : BOOLEAN]
    /\ phase \in {"running", "stopping", "draining", "stopped"}
    /\ edits \in 0..MaxEdits /\ faults \in 0..MaxFaults

\* Redis jobs win over local files; a disabled one is skipped.
Merge(f, r) == [n \in Names |-> IF r[n] \in Defs THEN r[n] ELSE f[n]]

\* The process has loaded both sources and started a task for every job.
Init ==
    /\ files \in [Names -> Defs \cup {Absent}]
    /\ redis \in [Names -> Defs \cup {Absent, Disabled}]
    /\ jobs = Merge(files, redis)
    /\ LET home == CHOOSE h \in Injection(Names, Tasks) : TRUE IN
          /\ slot = [n \in Names |-> IF jobs[n] = Absent THEN NoTask ELSE home[n]]
          /\ task = [t \in Tasks |->
                IF \E n \in Names : slot[n] = t
                THEN LET n == CHOOSE n \in Names : slot[n] = t
                     IN  [Free EXCEPT !.name = n, !.def = jobs[n]]
                ELSE Free]
    /\ loader = Asleep /\ phase = "running" /\ edits = 0 /\ faults = 0

-----------------------------------------------------------------------------
\* The reload loop.

At(pc) == loader.pc = pc /\ ~loader.cancelled

Fault == faults < MaxFaults /\ faults' = faults + 1

\* The interval is over: the files are read, the scan begins.
ReloadStarts ==
    /\ At("sleep") /\ phase = "running"
    /\ loader' = [Asleep EXCEPT !.pc = "scan", !.merged = files]
    /\ UNCHANGED <<files, redis, jobs, slot, task, phase, edits, faults>>

\* Mutant: jobs that appear while the scheduler runs are not added.
ChangedKnown(merged) == {n \in Names : jobs[n] \notin {Absent, merged[n]}}

\* The names the reconciliation acts on
Changed(merged) == {n \in Names : jobs[n] # merged[n]}

ScanReturns ==
    /\ At("scan")
    /\ loader' = [loader EXCEPT !.pc = "get",
                                !.todo = {n \in Names : redis[n] # Absent}]
    /\ UNCHANGED <<files, redis, jobs, slot, task, phase, edits, faults>>

\* The scan timed out: no job comes from Redis.
ScanTimesOut ==
    /\ At("scan") /\ Fault
    /\ loader' = [loader EXCEPT !.pc = "apply", !.todo = Changed(loader.merged)]
    /\ UNCHANGED <<files, redis, jobs, slot, task, phase, edits>>

\* get_raw of one key, as it is now
Gets(n) ==
    /\ At("get") /\ n \in loader.todo
    /\ loader' = [loader EXCEPT
          !.todo = @ \ {n}, !.merged[n] = IF redis[n] \in Defs THEN redis[n] ELSE @]
    /\ UNCHANGED <<files, redis, jobs, slot, task, phase, edits, faults>>

Loaded ==
    /\ At("get") /\ loader.todo = {}
    /\ loader' = [loader EXCEPT !.pc = "apply", !.todo = Changed(loader.merged)]
    /\ UNCHANGED <<files, redis, jobs, slot, task, phase, edits, faults>>

\* Any other failure ends this reload, not the loop.
LoadFails ==
    /\ loader.pc \in {"scan", "get"} /\ ~loader.cancelled /\ Fault
    /\ loader' = Asleep
    /\ UNCHANGED <<files, redis, jobs, slot, task, phase, edits>>

Live(n) == slot[n] # NoTask /\ task[slot[n]] # Free

FreeTasks(n) == {t \in Tasks : task[t] = Free /\ \A m \in Names \ {n} : slot[m] # t}

\* _start_job_task
StartsTask(n) ==
    /\ FreeTasks(n) # {}
    /\ LET t == CHOOSE t \in FreeTasks(n) : TRUE IN
          /\ slot' = [slot EXCEPT ![n] = t]
          /\ task' = [task EXCEPT ![t] =
                        [Free EXCEPT !.name = n, !.def = loader.merged[n]]]

\* The new definition takes effect, with a task of its own.
Takes(n) ==
    /\ jobs' = [jobs EXCEPT ![n] = loader.merged[n]]
    /\ IF loader.merged[n] = Absent
       THEN UNCHANGED <<slot, task>>
       ELSE StartsTask(n)
    /\ loader' = [loader EXCEPT !.pc = "apply", !.todo = @ \ {n}]

\* Mutant: the old task is cancelled, but nobody waits for its end.
CancelAndGoOn(n) == Takes(n)

\* _cancel_job_task waits for the task it cancels.
CancelAndWait(n) ==
    /\ task' = [task EXCEPT ![slot[n]].cancelled = TRUE]
    /\ slot' = [slot EXCEPT ![n] = NoTask]
    /\ loader' = [loader EXCEPT !.pc = n]
    /\ UNCHANGED jobs

Reconciles(n) ==
    /\ At("apply") /\ n \in loader.todo
    /\ IF Live(n) THEN CancelAndWait(n) ELSE Takes(n)
    /\ UNCHANGED <<files, redis, phase, edits, faults>>

\* The task the loop waited for is done.
Ended(n) == \A t \in Tasks : ~(task[t].name = n /\ task[t].cancelled)

Resumes(n) ==
    /\ At(n) /\ Ended(n) /\ Takes(n)
    /\ UNCHANGED <<files, redis, phase, edits, faults>>

Reconciled ==
    /\ At("apply") /\ loader.todo = {}
    /\ loader' = Asleep
    /\ UNCHANGED <<files, redis, jobs, slot, task, phase, edits, faults>>

-----------------------------------------------------------------------------
\* Job loops.  A done task leaves _tasks unless another one has its place.

TaskEnds(t) ==
    /\ task[t] # Free
    /\ task[t].cancelled \/ task[t].def \in Barren \/ phase # "running"
    /\ task' = [task EXCEPT ![t] = Free]
    /\ slot' = [n \in Names |-> IF slot[n] = t THEN NoTask ELSE slot[n]]
    /\ UNCHANGED <<files, redis, jobs, loader, phase, edits, faults>>

-----------------------------------------------------------------------------
\* run_forever and stop.

RequestStop ==
    /\ phase = "running" /\ phase' = "stopping"
    /\ UNCHANGED <<files, redis, jobs, slot, task, loader, edits, faults>>

StopBegins ==
    /\ phase = "stopping" /\ phase' = "draining"
    /\ loader' = [loader EXCEPT !.cancelled = TRUE]
    /\ UNCHANGED <<files, redis, jobs, slot, task, edits, faults>>

\* The loop saw the event, or the cancellation; one that waits for a cancelled
\* task is done after that task (gather passes the cancellation on).
LoaderEnds ==
    /\ \/ loader.pc = "sleep" /\ phase # "running"
       \/ loader.cancelled /\ loader.pc # "off"
          /\ (loader.pc \in Names => Ended(loader.pc))
    /\ loader' = [Asleep EXCEPT !.pc = "off", !.cancelled = loader.cancelled]
    /\ UNCHANGED <<files, redis, jobs, slot, task, phase, edits, faults>>

\* The drain timed out: what is left is cancelled.
DrainTimesOut ==
    /\ phase = "draining"
    /\ \E n \in Names : Live(n) /\ ~task[slot[n]].cancelled
    /\ task' = [t \in Tasks |-> IF \E n \in Names : slot[n] = t /\ task[t] # Free
                                THEN [task[t] EXCEPT !.cancelled = TRUE] ELSE task[t]]
    /\ UNCHANGED <<files, redis, jobs, slot, loader, phase, edits, faults>>

\* Mutant: the reload task is cancelled but not waited for.
DrainedTasks == \A n \in Names : ~Live(n)

Drained == loader.pc = "off" /\ \A n \in Names : ~Live(n)

StopEnds ==
    /\ phase = "draining" /\ Drained
    /\ phase' = "stopped"
    /\ UNCHANGED <<files, redis, jobs, slot, task, loader, edits, faults>>

\* An operator sets or deletes a job key.
RedisEdited(n, d) ==
    /\ edits < MaxEdits /\ redis[n] # d
    /\ edits' = edits + 1 /\ redis' = [redis EXCEPT ![n] = d]
    /\ UNCHANGED <<files, jobs, slot, task, loader, phase, faults>>

-----------------------------------------------------------------------------
Reload ==
    \/ ReloadStarts \/ ScanReturns \/ ScanTimesOut \/ Loaded \/ LoadFails \/ Reconciled
    \/ LoaderEnds \/ \E n \in Names : Gets(n) \/ Reconciles(n) \/ Resumes(n)

Next ==
    \/ Reload \/ RequestStop \/ StopBegins \/ DrainTimesOut \/ StopEnds
    \/ \E t \in Tasks : TaskEnds(t)
    \/ \E n \in Names, d \in Defs \cup {Absent, Disabled} : RedisEdited(n, d)

Spec == Init /\ [][Next]_vars

\* Redis calls end by their time-outs; a cancelled or stopping job loop ends.
FairSpec ==
    /\ Spec /\ WF_vars(Reload) /\ WF_vars(StopBegins) /\ WF_vars(StopEnds)
    /\ \A t \in Tasks : WF_vars(TaskEnds(t))

-----------------------------------------------------------------------------
\* A job never has two tasks, whatever it is replaced by and however slowly the
\* old task winds down (_reconcile_jobs, _start_job_task).
OneTaskPerJob ==
    \A s, t \in Tasks :
        task[s] # Free /\ task[s].name = task[t].name => s = t

\* When stop() returns nothing of the scheduler is left running.
StoppedMeansQuiet == phase = "stopped" => \A t \in Tasks : task[t] = Free

\* The table settles on what the sources say, with a task for every job
\* (reload_jobs_from_sources).
Settles ==
    \/ <>(phase # "running")
    \/ <>[](\A n \in Names :
              /\ jobs[n] = Merge(files, redis)[n]
              /\ jobs[n] \in Defs \ Barren => Live(n) /\ task[slot[n]].def = jobs[n])

=============================================================================
