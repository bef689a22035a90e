--------------------------- MODULE SchedulingProofs ---------------------------
(***************************************************************************)
(* Proofs about the parts of MCScheduling: the jobs of the scheduler, their *)
(* cron schedules and the snapshot runs, for any jobs, definitions, tasks, *)
(* calendar, expressions and symbols.  What SchedulerRunProofs shows of a  *)
(* run is carried over to the suite.                                       *)
(***************************************************************************)
EXTENDS MCScheduling, SchedulerRunProofs, Sequences, WellFoundedInduction

-----------------------------------------------------------------------------
\* SchedulerJobs.

\* A task that lives runs a job: the one whose slot it has, or the one whose end
\* the reload waits for.
Placed(t) ==
    jTask[t] # Jobs!Free =>
        /\ jTask[t].name \in Names /\ jTask[t].def \in Defs
        /\ \/ jSlot[jTask[t].name] = t
           \/ jTask[t].cancelled /\ jLoader.pc = jTask[t].name

SlotFits(n) ==
    /\ jSlot[n] # NoTask => jTask[jSlot[n]] # Jobs!Free /\ jTask[jSlot[n]].name = n
    /\ jLoader.pc = n => jSlot[n] = NoTask

JobsInv ==
    /\ Jobs!TypeOK
    /\ \A t \in Tasks : Placed(t)
    /\ \A n \in Names : SlotFits(n)
    /\ Jobs!OneTaskPerJob
    /\ jPhase = "stopped" => jLoader.pc = "off" /\ \A t \in Tasks : jTask[t] = Jobs!Free

LEMMA JobsNumbers ==
    /\ Barren \subseteq Defs /\ "absent" \notin Defs /\ "disabled" \notin Defs
    /\ NoTask \notin Tasks /\ JobEdits \in Nat /\ JobFaults \in Nat
    /\ \A n \in Names : n \notin {"sleep", "scan", "get", "apply", "off", "absent"}
    /\ Jobs!ExistsInjection(Names, Tasks)
BY PartsAssumption DEF Jobs!DefsAssumption, Jobs!Absent, Jobs!Disabled, Jobs!Stages

LEMMA FreeStays == Jobs!Free' = Jobs!Free
BY DEF Jobs!Free, Jobs!Absent

LEMMA JobsStart == Jobs!Init => JobsInv
<1> SUFFICES ASSUME Jobs!Init PROVE JobsInv  OBVIOUS
<1> DEFINE home == CHOOSE h \in Jobs!Injection(Names, Tasks) : TRUE
<1>1. home \in [Names -> Tasks] /\ \A m, n \in Names : home[m] = home[n] => m = n
  <2>1. home \in Jobs!Injection(Names, Tasks)
    BY JobsNumbers DEF Jobs!ExistsInjection
  <2>2. QED  BY <2>1 DEF Jobs!Injection, Jobs!IsInjective
<1>2. /\ jFiles \in [Names -> Defs \cup {"absent"}]
      /\ jRedis \in [Names -> Defs \cup {"absent", "disabled"}]
      /\ jJobs = Jobs!Merge(jFiles, jRedis)
      /\ jLoader = Jobs!Asleep /\ jPhase = "running" /\ jEdits = 0 /\ jFaults = 0
      /\ jSlot = [n \in Names |-> IF jJobs[n] = "absent" THEN NoTask ELSE home[n]]
  BY DEF Jobs!Init, Jobs!Absent, Jobs!Disabled
<1>3. jTask = [t \in Tasks |->
                IF \E n \in Names : jSlot[n] = t
                THEN LET n == CHOOSE n \in Names : jSlot[n] = t
                     IN  [Jobs!Free EXCEPT !.name = n, !.def = jJobs[n]]
                ELSE Jobs!Free]
  BY DEF Jobs!Init
<1> HIDE DEF home
<1>4. jJobs \in [Names -> Defs \cup {"absent"}]
  BY <1>2 DEF Jobs!Merge
<1>5. jSlot \in [Names -> Tasks \cup {NoTask}]
  BY <1>1, <1>2
<1>6. \A t \in Tasks :
        \/ jTask[t] = Jobs!Free /\ \A n \in Names : jSlot[n] # t
        \/ \E n \in Names : /\ jSlot[n] = t /\ jJobs[n] \in Defs
                            /\ jTask[t] = [name |-> n, def |-> jJobs[n],
                                           cancelled |-> FALSE]
  <2> SUFFICES ASSUME NEW t \in Tasks, \E n \in Names : jSlot[n] = t
               PROVE  \E n \in Names : /\ jSlot[n] = t /\ jJobs[n] \in Defs
                                       /\ jTask[t] = [name |-> n, def |-> jJobs[n],
                                                      cancelled |-> FALSE]
    BY <1>3
  <2> DEFINE n == CHOOSE n \in Names : jSlot[n] = t
  <2>1. n \in Names /\ jSlot[n] = t  OBVIOUS
  <2>2. jTask[t] = [Jobs!Free EXCEPT !.name = n, !.def = jJobs[n]]
    BY <1>3
  <2> HIDE DEF n
  <2>3. jJobs[n] # "absent"  BY <1>2, <2>1, JobsNumbers
  <2>4. QED  BY <1>4, <2>1, <2>2, <2>3 DEF Jobs!Free
<1>7. \A t \in Tasks :
        jTask[t] \in [name : Names \cup {"absent"}, def : Defs \cup {"absent"},
                      cancelled : BOOLEAN]
  <2> TAKE t \in Tasks
  <2>1. CASE jTask[t] = Jobs!Free  BY <2>1 DEF Jobs!Free, Jobs!Absent
  <2>2. CASE \E n \in Names : /\ jSlot[n] = t /\ jJobs[n] \in Defs
                              /\ jTask[t] = [name |-> n, def |-> jJobs[n],
                                             cancelled |-> FALSE]
    BY <2>2
  <2>3. QED  BY <1>6, <2>1, <2>2
<1>8. Jobs!TypeOK
  <2>1. jTask \in [Tasks -> [name : Names \cup {"absent"}, def : Defs \cup {"absent"},
                             cancelled : BOOLEAN]]
    BY <1>3, <1>7
  <2>2. jLoader \in [pc : Jobs!Stages \cup Names,
                     merged : [Names -> Defs \cup {"absent"}], todo : SUBSET Names,
                     cancelled : BOOLEAN]
    BY <1>2 DEF Jobs!Asleep, Jobs!Absent, Jobs!Stages
  <2>3. QED
    BY <1>2, <1>4, <1>5, <2>1, <2>2, JobsNumbers
    DEF Jobs!TypeOK, Jobs!Absent, Jobs!Disabled
<1>9. \A t \in Tasks :
        \/ jTask[t] = Jobs!Free
        \/ jTask[t].name \in Names /\ jTask[t].def \in Defs /\ jSlot[jTask[t].name] = t
  <2> TAKE t \in Tasks
  <2>1. CASE \E n \in Names : /\ jSlot[n] = t /\ jJobs[n] \in Defs
                              /\ jTask[t] = [name |-> n, def |-> jJobs[n],
                                             cancelled |-> FALSE]
    <3>1. PICK n \in Names : /\ jSlot[n] = t /\ jJobs[n] \in Defs
                             /\ jTask[t] = [name |-> n, def |-> jJobs[n],
                                            cancelled |-> FALSE]
      BY <2>1
    <3>2. jTask[t].name = n /\ jTask[t].def \in Defs  BY <3>1
    <3>3. QED  BY <3>1, <3>2
  <2>2. QED  BY <1>6, <2>1
<1>10. \A n \in Names : SlotFits(n)
  <2> SUFFICES ASSUME NEW n \in Names PROVE SlotFits(n)  OBVIOUS
  <2>1. jLoader.pc # n  BY <1>2, JobsNumbers DEF Jobs!Asleep
  <2>2. ASSUME jSlot[n] # NoTask
        PROVE  jTask[jSlot[n]] # Jobs!Free /\ jTask[jSlot[n]].name = n
    <3>1. jSlot[n] \in Tasks /\ jSlot[n] = home[n]  BY <1>2, <1>5, <2>2
    <3>2. PICK m \in Names : /\ jSlot[m] = jSlot[n] /\ jJobs[m] \in Defs
                             /\ jTask[jSlot[n]] = [name |-> m, def |-> jJobs[m],
                                                   cancelled |-> FALSE]
      BY <1>6, <3>1
    <3>3. m = n  BY <1>1, <1>2, <3>1, <3>2, JobsNumbers
    <3>4. QED  BY <3>2, <3>3, JobsNumbers DEF Jobs!Free, Jobs!Absent
  <2>3. QED  BY <2>1, <2>2 DEF SlotFits
<1>11. Jobs!OneTaskPerJob
  BY <1>9, JobsNumbers DEF Jobs!OneTaskPerJob, Jobs!Free, Jobs!Absent
<1>12. QED  BY <1>2, <1>8, <1>9, <1>10, <1>11 DEF JobsInv, Placed

\* What a step of the loader alone may do: it stops waiting for a task when that
\* has ended.
LEMMA LoaderMoves ==
    ASSUME JobsInv, Jobs!TypeOK', UNCHANGED <<jSlot, jTask>>,
           jLoader'.pc \in Jobs!Stages \cup {jLoader.pc},
           jLoader.pc \in Names => jLoader'.pc = jLoader.pc \/ Jobs!Ended(jLoader.pc),
           jPhase' = "stopped" =>
               jLoader'.pc = "off" /\ (jPhase = "stopped" \/ Jobs!Drained)
    PROVE  JobsInv'
<1> USE DEF JobsInv
<1>1. \A t \in Tasks : Placed(t)'
  BY JobsNumbers DEF Placed, Jobs!Ended, Jobs!Free
<1>2. \A n \in Names : SlotFits(n)'
  BY JobsNumbers DEF SlotFits, Jobs!Stages, Jobs!Free
<1>3. Jobs!OneTaskPerJob'
  BY DEF Jobs!OneTaskPerJob, Jobs!Free
<1>4. ASSUME Jobs!Drained, NEW t \in Tasks PROVE jTask[t] = Jobs!Free
  BY <1>4, JobsNumbers DEF Jobs!Drained, Jobs!Live, Placed
<1>5. QED  BY <1>1, <1>2, <1>3, <1>4 DEF Jobs!Free

\* A task is started for a job that has none.
LEMMA TakesKeeps ==
    ASSUME JobsInv, NEW n \in Names, Jobs!Takes(n), jPhase' = jPhase,
           UNCHANGED <<jFiles, jRedis, jEdits, jFaults>>,
           jSlot[n] = NoTask, \A t \in Tasks : jTask[t] # Jobs!Free => jTask[t].name # n,
           jLoader.pc \in {"apply", n}
    PROVE  JobsInv'
<1> USE DEF JobsInv
<1>1. /\ jLoader'.pc = "apply"
      /\ jLoader' \in [pc : Jobs!Stages \cup Names,
                       merged : [Names -> Defs \cup {Jobs!Absent}], todo : SUBSET Names,
                       cancelled : BOOLEAN]
  BY DEF Jobs!Takes, Jobs!TypeOK, Jobs!Stages
<1>2. jLoader.merged[n] \in Defs \cup {Jobs!Absent}  BY DEF Jobs!TypeOK
<1>3. jJobs' \in [Names -> Defs \cup {Jobs!Absent}]
  BY <1>2 DEF Jobs!Takes, Jobs!TypeOK
<1>4. jPhase # "stopped"  BY JobsNumbers
<1>5. CASE jLoader.merged[n] = Jobs!Absent
  <2>1. UNCHANGED <<jSlot, jTask>>  BY <1>5 DEF Jobs!Takes
  <2>2. Jobs!TypeOK'  BY <1>1, <1>3, <2>1 DEF Jobs!TypeOK
  <2>3. jLoader.pc \in Names => Jobs!Ended(jLoader.pc)
    BY JobsNumbers DEF Jobs!Ended, Jobs!Free
  <2>4. QED  BY <1>1, <1>4, <2>1, <2>2, <2>3, LoaderMoves DEF Jobs!Stages
<1>6. CASE jLoader.merged[n] # Jobs!Absent
  <2>1. PICK t \in Tasks :
            /\ t \in Jobs!FreeTasks(n)
            /\ jSlot' = [jSlot EXCEPT ![n] = t]
            /\ jTask' = [jTask EXCEPT ![t] = [Jobs!Free EXCEPT
                                                !.name = n, !.def = jLoader.merged[n]]]
    BY <1>6 DEF Jobs!Takes, Jobs!StartsTask, Jobs!FreeTasks
  <2>2. jTask[t] = Jobs!Free /\ \A m \in Names : jSlot[m] # t
    BY <2>1, JobsNumbers DEF Jobs!FreeTasks
  <2>3. /\ jTask'[t].name = n /\ jTask'[t].def \in Defs
        /\ jTask'[t] # Jobs!Free
        /\ jTask'[t] \in [name : Names \cup {Jobs!Absent}, def : Defs \cup {Jobs!Absent},
                          cancelled : BOOLEAN]
        /\ \A u \in Tasks : u # t => jTask'[u] = jTask[u]
        /\ jSlot'[n] = t /\ \A m \in Names : m # n => jSlot'[m] = jSlot[m]
    BY <1>2, <1>6, <2>1, JobsNumbers DEF Jobs!TypeOK, Jobs!Free, Jobs!Absent
  <2>4. jTask' \in [Tasks -> [name : Names \cup {Jobs!Absent},
                              def : Defs \cup {Jobs!Absent}, cancelled : BOOLEAN]]
    BY <2>1, <2>3 DEF Jobs!TypeOK
  <2>5. jSlot' \in [Names -> Tasks \cup {NoTask}]
    BY <2>1 DEF Jobs!TypeOK
  <2>6. Jobs!TypeOK'  BY <1>1, <1>3, <2>4, <2>5 DEF Jobs!TypeOK
  <2>7. \A u \in Tasks : Placed(u)'
    BY <2>3, JobsNumbers DEF Placed, Jobs!Free
  <2>8. \A m \in Names : SlotFits(m)'
    <3> SUFFICES ASSUME NEW m \in Names PROVE SlotFits(m)'  OBVIOUS
    <3>1. jLoader'.pc # m  BY <1>1, JobsNumbers
    <3>2. CASE m = n  BY <2>3, <3>1, <3>2 DEF SlotFits, Jobs!Free
    <3>3. CASE m # n
      <4>1. jSlot[m] # NoTask => jSlot[m] \in Tasks /\ jSlot[m] # t
        BY <2>2 DEF Jobs!TypeOK
      <4>2. SlotFits(m)  OBVIOUS
      <4>3. QED  BY <2>3, <3>1, <3>3, <4>1, <4>2, FreeStays DEF SlotFits
    <3>4. QED  BY <3>2, <3>3
  <2>9. Jobs!OneTaskPerJob'
    <3> SUFFICES ASSUME NEW u \in Tasks, NEW v \in Tasks, jTask'[u] # Jobs!Free,
                        jTask'[u].name = jTask'[v].name
                 PROVE  u = v
      BY DEF Jobs!OneTaskPerJob, Jobs!Free
    <3>1. CASE jTask[v] = Jobs!Free /\ v # t
      BY <2>3, <2>7, <3>1, JobsNumbers DEF Placed, Jobs!Free, Jobs!Absent
    <3>2. CASE u # t /\ v # t
      BY <2>3, <3>2 DEF Jobs!OneTaskPerJob
    <3>3. CASE u = t /\ v # t /\ jTask[v] # Jobs!Free  BY <2>3, <3>3
    <3>4. CASE u # t /\ v = t  BY <2>3, <3>4
    <3>5. QED  BY <3>1, <3>2, <3>3, <3>4
  <2>10. QED  BY <1>4, <2>6, <2>7, <2>8, <2>9
<1>7. QED  BY <1>5, <1>6

LEMMA ReconcilesKeeps ==
    ASSUME JobsInv, NEW n \in Names, Jobs!Reconciles(n) PROVE JobsInv'
<1> USE DEF JobsInv
<1>1. jLoader.pc = "apply" /\ UNCHANGED <<jFiles, jRedis, jPhase, jEdits, jFaults>>
  BY DEF Jobs!Reconciles, Jobs!At
<1>2. jPhase # "stopped"  BY <1>1
<1>3. CASE ~Jobs!Live(n)
  <2>1. Jobs!Takes(n)  BY <1>3 DEF Jobs!Reconciles
  <2>2. jSlot[n] = NoTask  BY <1>3 DEF Jobs!Live, SlotFits
  <2>3. \A t \in Tasks : jTask[t] # Jobs!Free => jTask[t].name # n
    BY <1>1, <2>2, JobsNumbers DEF Placed
  <2>4. QED  BY <1>1, <2>1, <2>2, <2>3, TakesKeeps
<1>4. CASE Jobs!Live(n)
  <2> DEFINE t == jSlot[n]
  <2>1. t \in Tasks /\ jTask[t] # Jobs!Free /\ jTask[t].name = n /\ jTask[t].def \in Defs
    BY <1>4 DEF Jobs!Live, Jobs!TypeOK, SlotFits, Placed
  <2>2. /\ jTask' = [jTask EXCEPT ![t].cancelled = TRUE]
        /\ jSlot' = [jSlot EXCEPT ![n] = NoTask]
        /\ jLoader' = [jLoader EXCEPT !.pc = n]
        /\ UNCHANGED jJobs
    BY <1>4 DEF Jobs!Reconciles, Jobs!CancelAndWait
  <2> HIDE DEF t
  <2>3. Jobs!TypeOK'
    <3>1. jTask' \in [Tasks -> [name : Names \cup {Jobs!Absent},
                                def : Defs \cup {Jobs!Absent}, cancelled : BOOLEAN]]
      <4>1. [jTask[t] EXCEPT !.cancelled = TRUE]
              \in [name : Names \cup {Jobs!Absent}, def : Defs \cup {Jobs!Absent},
                  cancelled : BOOLEAN]
        BY <2>1 DEF Jobs!TypeOK
      <4>2. QED  BY <2>1, <2>2, <4>1 DEF Jobs!TypeOK
    <3>2. jLoader' \in [pc : Jobs!Stages \cup Names,
                        merged : [Names -> Defs \cup {Jobs!Absent}], todo : SUBSET Names,
                        cancelled : BOOLEAN]
      BY <2>2 DEF Jobs!TypeOK
    <3>3. jSlot' \in [Names -> Tasks \cup {NoTask}]  BY <2>2 DEF Jobs!TypeOK
    <3>4. QED  BY <1>1, <2>2, <3>1, <3>2, <3>3 DEF Jobs!TypeOK
  <2>4. /\ jTask'[t].name = n /\ jTask'[t].def \in Defs /\ jTask'[t].cancelled
        /\ jTask'[t] # Jobs!Free
        /\ \A u \in Tasks : u # t => jTask'[u] = jTask[u]
        /\ jSlot'[n] = NoTask /\ \A m \in Names : m # n => jSlot'[m] = jSlot[m]
        /\ jLoader'.pc = n
    BY <2>1, <2>2, JobsNumbers DEF Jobs!TypeOK, Jobs!Free, Jobs!Absent
  <2>5. \A u \in Tasks : u # t /\ jTask[u] # Jobs!Free => jTask[u].name # n
    BY <2>1 DEF Jobs!OneTaskPerJob
  <2>6. \A u \in Tasks : Placed(u)'
    <3> SUFFICES ASSUME NEW u \in Tasks PROVE Placed(u)'  OBVIOUS
    <3>1. CASE u = t  BY <2>4, <3>1 DEF Placed
    <3>2. CASE u # t
      <4>1. Placed(u)  OBVIOUS
      <4>2. jTask[u] # Jobs!Free => jSlot[jTask[u].name] = u /\ jTask[u].name # n
        BY <1>1, <2>5, <3>2, <4>1, JobsNumbers DEF Placed
      <4>3. QED  BY <2>4, <3>2, <4>1, <4>2, FreeStays DEF Placed
    <3>3. QED  BY <3>1, <3>2
  <2>7. \A m \in Names : SlotFits(m)'
    <3> SUFFICES ASSUME NEW m \in Names, m # n PROVE SlotFits(m)'
      BY <2>4 DEF SlotFits
    <3>1. jSlot[m] # NoTask => jSlot[m] \in Tasks /\ jSlot[m] # t
      BY <2>1 DEF Jobs!TypeOK, SlotFits
    <3>2. SlotFits(m)  OBVIOUS
    <3>3. QED  BY <2>4, <3>1, <3>2, FreeStays DEF SlotFits
  <2>8. Jobs!OneTaskPerJob'
    BY <2>1, <2>4 DEF Jobs!OneTaskPerJob, Jobs!Free
  <2>9. QED  BY <1>1, <1>2, <2>3, <2>6, <2>7, <2>8
<1>5. QED  BY <1>3, <1>4

LEMMA ResumesKeeps ==
    ASSUME JobsInv, NEW n \in Names, Jobs!Resumes(n) PROVE JobsInv'
<1> USE DEF JobsInv
<1>1. jLoader.pc = n /\ UNCHANGED <<jFiles, jRedis, jPhase, jEdits, jFaults>>
      /\ Jobs!Takes(n) /\ Jobs!Ended(n)
  BY DEF Jobs!Resumes, Jobs!At
<1>2. jSlot[n] = NoTask  BY <1>1 DEF SlotFits
<1>3. \A t \in Tasks : jTask[t] # Jobs!Free => jTask[t].name # n
  BY <1>1, <1>2, JobsNumbers DEF Placed, Jobs!Ended
<1>4. QED  BY <1>1, <1>2, <1>3, TakesKeeps

LEMMA TaskEndsKeeps ==
    ASSUME JobsInv, NEW t \in Tasks, Jobs!TaskEnds(t) PROVE JobsInv'
<1> USE DEF JobsInv
<1>1. /\ jTask[t] # Jobs!Free /\ jTask' = [jTask EXCEPT ![t] = Jobs!Free]
      /\ jSlot' = [n \in Names |-> IF jSlot[n] = t THEN NoTask ELSE jSlot[n]]
      /\ UNCHANGED <<jFiles, jRedis, jJobs, jLoader, jPhase, jEdits, jFaults>>
  BY DEF Jobs!TaskEnds
<1>2. Jobs!Free \in [name : Names \cup {Jobs!Absent}, def : Defs \cup {Jobs!Absent},
                    cancelled : BOOLEAN]
  BY DEF Jobs!Free
<1>3. Jobs!TypeOK'  BY <1>1, <1>2 DEF Jobs!TypeOK
<1>4. /\ jTask'[t] = Jobs!Free /\ \A u \in Tasks : u # t => jTask'[u] = jTask[u]
      /\ \A n \in Names : jSlot'[n] = IF jSlot[n] = t THEN NoTask ELSE jSlot[n]
  BY <1>1 DEF Jobs!TypeOK
<1>5. \A u \in Tasks : Placed(u)'
  BY <1>1, <1>4 DEF Placed, Jobs!Free
<1>6. \A n \in Names : SlotFits(n)'
  <2> SUFFICES ASSUME NEW n \in Names PROVE SlotFits(n)'  OBVIOUS
  <2>1. jSlot[n] \in Tasks \cup {NoTask} /\ SlotFits(n)  BY DEF Jobs!TypeOK
  <2>2. QED  BY <1>1, <1>4, <2>1, FreeStays DEF SlotFits
<1>7. Jobs!OneTaskPerJob'
  <2> SUFFICES ASSUME NEW u \in Tasks, NEW v \in Tasks, jTask'[u] # Jobs!Free,
                      jTask'[u].name = jTask'[v].name
               PROVE  u = v
    BY DEF Jobs!OneTaskPerJob, Jobs!Free
  <2>1. u # t  BY <1>4
  <2>2. CASE v = t
    BY <1>4, <1>5, <2>2, JobsNumbers DEF Placed, Jobs!Free, Jobs!Absent
  <2>3. CASE v # t  BY <1>4, <2>1, <2>3 DEF Jobs!OneTaskPerJob
  <2>4. QED  BY <2>2, <2>3
<1>8. QED  BY <1>1, <1>3, <1>4, <1>5, <1>6, <1>7 DEF Jobs!Free

LEMMA DrainTimesOutKeeps == ASSUME JobsInv, Jobs!DrainTimesOut PROVE JobsInv'
<1> USE DEF JobsInv
<1>1. /\ jPhase = "draining"
      /\ UNCHANGED <<jFiles, jRedis, jJobs, jSlot, jLoader, jPhase, jEdits, jFaults>>
      /\ jTask' = [t \in Tasks |->
              IF \E n \in Names : jSlot[n] = t /\ jTask[t] # Jobs!Free
              THEN [jTask[t] EXCEPT !.cancelled = TRUE] ELSE jTask[t]]
  BY DEF Jobs!DrainTimesOut
<1>2. \A t \in Tasks : jTask[t] \in [name : Names \cup {Jobs!Absent},
                                   def : Defs \cup {Jobs!Absent}, cancelled : BOOLEAN]
  BY DEF Jobs!TypeOK
<1>3. \A t \in Tasks :
        /\ jTask'[t] \in [name : Names \cup {Jobs!Absent}, def : Defs \cup {Jobs!Absent},
                          cancelled : BOOLEAN]
        /\ jTask'[t].name = jTask[t].name /\ jTask'[t].def = jTask[t].def
        /\ jTask[t].cancelled => jTask'[t].cancelled
        /\ jTask'[t] # Jobs!Free <=> jTask[t] # Jobs!Free
  <2> TAKE t \in Tasks
  <2>1. CASE jTask'[t] = jTask[t]  BY <1>2, <2>1
  <2>2. CASE jTask[t] # Jobs!Free /\ jTask'[t] = [jTask[t] EXCEPT !.cancelled = TRUE]
    <3>1. jTask'[t].def # Jobs!Absent
      BY <1>2, <2>2, JobsNumbers DEF Placed, Jobs!Absent
    <3>2. jTask'[t] # Jobs!Free  BY <3>1 DEF Jobs!Free
    <3>3. QED  BY <1>2, <2>2, <3>2
  <2>3. QED  BY <1>1, <2>1, <2>2
<1>4. Jobs!TypeOK'  BY <1>1, <1>3 DEF Jobs!TypeOK
<1>5. \A t \in Tasks : Placed(t)'
  <2> SUFFICES ASSUME NEW t \in Tasks PROVE Placed(t)'  OBVIOUS
  <2>1. Placed(t)  OBVIOUS
  <2>2. QED  BY <1>1, <1>3, <2>1, FreeStays DEF Placed
<1>6. \A n \in Names : SlotFits(n)'
  <2> SUFFICES ASSUME NEW n \in Names PROVE SlotFits(n)'  OBVIOUS
  <2>1. jSlot[n] \in Tasks \cup {NoTask} /\ SlotFits(n)  BY DEF Jobs!TypeOK
  <2>2. QED  BY <1>1, <1>3, <2>1, FreeStays DEF SlotFits
<1>7. Jobs!OneTaskPerJob'
  <2>1. Jobs!OneTaskPerJob  OBVIOUS
  <2> HIDE DEF JobsInv
  <2>2. QED  BY <1>3, <2>1, FreeStays DEF Jobs!OneTaskPerJob
<1>8. QED  BY <1>1, <1>4, <1>5, <1>6, <1>7

\* The steps of the reload that change its record alone, of the process and of
\* the operator.
LEMMA OthersKeep ==
    ASSUME JobsInv,
           \/ Jobs!ReloadStarts \/ Jobs!ScanReturns \/ Jobs!ScanTimesOut \/ Jobs!Loaded
           \/ Jobs!LoadFails \/ Jobs!Reconciled \/ Jobs!LoaderEnds
           \/ \E n \in Names : Jobs!Gets(n)
           \/ Jobs!RequestStop \/ Jobs!StopBegins \/ Jobs!StopEnds
           \/ \E n \in Names, d \in Defs \cup {Jobs!Absent, Jobs!Disabled} :
                 Jobs!RedisEdited(n, d)
           \/ UNCHANGED jobsVars
    PROVE  JobsInv'
<1> DEFINE Loader == [pc : Jobs!Stages \cup Names,
                      merged : [Names -> Defs \cup {Jobs!Absent}], todo : SUBSET Names,
                      cancelled : BOOLEAN]
<1>1. /\ Jobs!TypeOK /\ jLoader \in Loader
      /\ jPhase = "stopped" => jLoader.pc = "off"
  BY DEF JobsInv, Jobs!TypeOK
<1>2. Jobs!Asleep \in Loader /\ Jobs!Asleep.pc = "sleep"
  BY DEF Jobs!Asleep, Jobs!Stages
<1>3. \A pc \in Jobs!Stages : pc \notin Names  BY JobsNumbers DEF Jobs!Stages
<1> DEFINE Reloads ==
       /\ UNCHANGED <<jSlot, jTask>>
       /\ jLoader'.pc \in Jobs!Stages \cup {jLoader.pc}
       /\ jLoader.pc \in Names => jLoader'.pc = jLoader.pc \/ Jobs!Ended(jLoader.pc)
       /\ jPhase' = "stopped" =>
              jLoader'.pc = "off" /\ (jPhase = "stopped" \/ Jobs!Drained)
<1>4. CASE Jobs!ReloadStarts
  <2>1. jLoader' = [Jobs!Asleep EXCEPT !.pc = "scan", !.merged = jFiles]
    BY <1>4 DEF Jobs!ReloadStarts
  <2>2. jLoader' \in Loader /\ jLoader'.pc = "scan"
    BY <1>1, <1>2, <2>1 DEF Jobs!TypeOK, Jobs!Stages
  <2>3. Jobs!TypeOK'
    BY <1>1, <1>4, <2>2 DEF Jobs!ReloadStarts, Jobs!TypeOK
  <2>4. Reloads
    BY <1>3, <1>4, <2>2 DEF Jobs!ReloadStarts, Jobs!At, Jobs!Stages
  <2>5. QED  BY <2>3, <2>4, LoaderMoves
<1>5. CASE Jobs!ScanReturns
  <2>1. jLoader' \in Loader /\ jLoader'.pc = "get"
    BY <1>1, <1>5 DEF Jobs!ScanReturns, Jobs!Stages
  <2>2. Jobs!TypeOK'  BY <1>1, <1>5, <2>1 DEF Jobs!ScanReturns, Jobs!TypeOK
  <2>3. Reloads  BY <1>1, <1>3, <1>5, <2>1 DEF Jobs!ScanReturns, Jobs!At, Jobs!Stages
  <2>4. QED  BY <2>2, <2>3, LoaderMoves
<1>6. CASE Jobs!ScanTimesOut
  <2>1. jLoader' \in Loader /\ jLoader'.pc = "apply"
    BY <1>1, <1>6 DEF Jobs!ScanTimesOut, Jobs!Changed, Jobs!Stages
  <2>2. Jobs!TypeOK'
    BY <1>1, <1>6, <2>1, JobsNumbers DEF Jobs!ScanTimesOut, Jobs!Fault, Jobs!TypeOK
  <2>3. Reloads  BY <1>1, <1>3, <1>6, <2>1 DEF Jobs!ScanTimesOut, Jobs!At, Jobs!Stages
  <2>4. QED  BY <2>2, <2>3, LoaderMoves
<1>7. CASE Jobs!Loaded
  <2>1. jLoader' \in Loader /\ jLoader'.pc = "apply"
    BY <1>1, <1>7 DEF Jobs!Loaded, Jobs!Changed, Jobs!Stages
  <2>2. Jobs!TypeOK'  BY <1>1, <1>7, <2>1 DEF Jobs!Loaded, Jobs!TypeOK
  <2>3. Reloads  BY <1>1, <1>3, <1>7, <2>1 DEF Jobs!Loaded, Jobs!At, Jobs!Stages
  <2>4. QED  BY <2>2, <2>3, LoaderMoves
<1>8. CASE Jobs!LoadFails
  <2>1. Jobs!TypeOK'
    BY <1>1, <1>2, <1>8, JobsNumbers DEF Jobs!LoadFails, Jobs!Fault, Jobs!TypeOK
  <2>2. Reloads  BY <1>1, <1>2, <1>3, <1>8 DEF Jobs!LoadFails, Jobs!Stages
  <2>3. QED  BY <2>1, <2>2, LoaderMoves
<1>9. CASE Jobs!Reconciled
  <2>1. Jobs!TypeOK'  BY <1>1, <1>2, <1>9 DEF Jobs!Reconciled, Jobs!TypeOK
  <2>2. Reloads  BY <1>1, <1>2, <1>3, <1>9 DEF Jobs!Reconciled, Jobs!At, Jobs!Stages
  <2>3. QED  BY <2>1, <2>2, LoaderMoves
<1>10. CASE Jobs!LoaderEnds
  <2>1. jLoader' \in Loader /\ jLoader'.pc = "off"
    BY <1>1, <1>2, <1>10 DEF Jobs!LoaderEnds, Jobs!Stages
  <2>2. Jobs!TypeOK'  BY <1>1, <1>10, <2>1 DEF Jobs!LoaderEnds, Jobs!TypeOK
  <2>3. Reloads  BY <1>1, <1>3, <1>10, <2>1 DEF Jobs!LoaderEnds, Jobs!Stages
  <2>4. QED  BY <2>2, <2>3, LoaderMoves
<1>11. CASE \E n \in Names : Jobs!Gets(n)
  <2>1. PICK n \in Names : Jobs!Gets(n)  BY <1>11
  <2>2. jLoader' \in Loader /\ jLoader'.pc = "get"
    BY <1>1, <2>1 DEF Jobs!Gets, Jobs!At, Jobs!Stages
  <2>3. Jobs!TypeOK'  BY <1>1, <2>1, <2>2 DEF Jobs!Gets, Jobs!TypeOK
  <2>4. Reloads  BY <1>1, <1>3, <2>1, <2>2 DEF Jobs!Gets, Jobs!At, Jobs!Stages
  <2>5. QED  BY <2>3, <2>4, LoaderMoves
<1>12. CASE Jobs!RequestStop
  BY <1>1, <1>12, LoaderMoves DEF Jobs!RequestStop, Jobs!TypeOK
<1>13. CASE Jobs!StopBegins
  <2>1. jLoader' \in Loader /\ jLoader'.pc = jLoader.pc
    BY <1>1, <1>13 DEF Jobs!StopBegins
  <2>2. Jobs!TypeOK'  BY <1>1, <1>13, <2>1 DEF Jobs!StopBegins, Jobs!TypeOK
  <2>3. QED  BY <1>13, <2>1, <2>2, LoaderMoves DEF Jobs!StopBegins
<1>14. CASE Jobs!StopEnds
  <2>1. Jobs!TypeOK'  BY <1>1, <1>14 DEF Jobs!StopEnds, Jobs!TypeOK
  <2>2. QED  BY <1>14, <2>1, LoaderMoves DEF Jobs!StopEnds, Jobs!Drained
<1>15. ASSUME NEW n \in Names, NEW d \in Defs \cup {Jobs!Absent, Jobs!Disabled},
              Jobs!RedisEdited(n, d)
       PROVE  JobsInv'
  <2>1. Jobs!TypeOK'
    BY <1>1, <1>15, JobsNumbers DEF Jobs!RedisEdited, Jobs!TypeOK
  <2>2. QED  BY <1>1, <1>15, <2>1, LoaderMoves DEF Jobs!RedisEdited
<1>16. CASE UNCHANGED jobsVars
  <2>1. Jobs!TypeOK'  BY <1>1, <1>16 DEF jobsVars, Jobs!TypeOK
  <2>2. QED  BY <1>1, <1>16, <2>1, LoaderMoves DEF jobsVars
<1>17. QED
  BY <1>4, <1>5, <1>6, <1>7, <1>8, <1>9, <1>10, <1>11, <1>12, <1>13, <1>14, <1>15, <1>16

LEMMA JobsKeep == JobsInv /\ [Jobs!Next]_jobsVars => JobsInv'
BY OthersKeep, ReconcilesKeeps, ResumesKeeps, TaskEndsKeeps, DrainTimesOutKeeps
DEF Jobs!Next, Jobs!Reload

LEMMA JobsInvAlways == SuiteSpec => []JobsInv
<1>1. SuiteInit => JobsInv  BY JobsStart DEF SuiteInit
<1>2. JobsInv /\ [SuiteNext]_<<part, runVars, jobsVars, cronVars, snapVars>> => JobsInv'
  BY JobsKeep DEF SuiteNext, RunSuite, JobsSuite, CronSuite, SnapshotSuite
<1>3. QED  BY <1>1, <1>2, PTL DEF SuiteSpec

(* Whatever is edited, reloaded, cancelled or stopped in between, a job never
   has two tasks that are alive (Scheduler._reconcile_jobs). *)
THEOREM JobsRunOnce == SuiteSpec => []OneTaskPerJob
BY JobsInvAlways, PTL DEF JobsInv, OneTaskPerJob

(* When stop() has returned neither a task of a job nor a reload is left
   (stop). *)
THEOREM StopIsComplete == SuiteSpec => []StoppedMeansQuiet
<1>1. JobsInv => StoppedMeansQuiet
  BY DEF JobsInv, StoppedMeansQuiet, Jobs!StoppedMeansQuiet
<1>2. QED  BY <1>1, JobsInvAlways, PTL

-----------------------------------------------------------------------------
\* SnapshotRun.

\* Bars of ohlcv_snapshot come from the REST API; each symbol has a bookmark.
OhlcvThroughApi == "ohlcv_snapshot" \in Kinds => ApiMode
KeysDiffer == \A s, u \in Symbols : KeyOf[s] = KeyOf[u] => s = u

Work ==
    [pc : Snapshot!Pcs, start : -Duration..SnapshotTime, end : 0..SnapshotTime \cup {-1},
     attempt : 1..RetryCount + 1, outcome : Snapshot!Outcomes]

\* The bars asked for begin at the bookmark; once stored, all but the last are
\* final.
Inclusive(s, w) ==
    sKind = "ohlcv_snapshot" /\ w.pc \notin {"queued", "done"} =>
        /\ sBookmark[KeyOf[s]] # -1 => w.start = sBookmark[KeyOf[s]]
        /\ OhlcvThroughApi /\ w.pc \in {"cache", "mark"} =>
              \A t \in 0..SnapshotTime :
                  w.start <= t /\ t < w.end => sStored[s][t] = "final"

\* Where s may be with the request w
Fits(s, w) ==
    /\ w.start <= sNow /\ w.end <= sNow
    /\ w.pc = "retry" => w.attempt <= RetryCount
    /\ w.pc = "persist" => w.start <= w.end
    /\ w.pc \in {"persist", "cache", "mark"} => w.end # -1
    /\ OhlcvThroughApi /\ w.pc \in {"cache", "mark"} => sStored[s][w.end] # "absent"
    /\ w.pc = "mark" => sKind = "ohlcv_snapshot"
    /\ KeysDiffer => Inclusive(s, w)

CacheFits(s) == OhlcvThroughApi /\ sCached[s] # -1 => sStored[s][sCached[s]] # "absent"

SnapInv ==
    /\ Snapshot!TypeOK
    /\ \A s \in Symbols : Fits(s, sWork[s]) /\ CacheFits(s)
    /\ \A k \in Symbols : sBookmark[k] <= sNow

LEMMA SnapNumbers ==
    /\ KeyOf \in [Symbols -> Symbols] /\ ApiMode \in BOOLEAN
    /\ Kinds \subseteq {"ohlcv_snapshot", "market_snapshot", "equity_snapshot"}
    /\ Duration \in Nat /\ Duration > 0 /\ RetryCount \in Nat
    /\ SnapshotFaults \in Nat /\ SnapshotTime \in Nat
BY PartsAssumption DEF Snapshot!SnapshotAssumption

\* What the invariant says of the types, variable by variable
LEMMA SnapTypes ==
    Snapshot!TypeOK <=>
        /\ sKind \in Kinds /\ sNow \in 0..SnapshotTime /\ sFaults \in 0..SnapshotFaults
        /\ sWork \in [Symbols -> Work]
        /\ sStatus \in Snapshot!Outcomes \cup {"none", "running", "partial_success",
                                              "skipped_window", "cancelled"}
        /\ sBookmark \in [Symbols -> 0..SnapshotTime \cup {-1}]
        /\ sStored \in [Symbols -> [0..SnapshotTime -> {"absent", "unfinished", "final"}]]
        /\ sCached \in [Symbols -> 0..SnapshotTime \cup {-1}]
BY DEF Snapshot!TypeOK, Snapshot!Time, Snapshot!None, Work

LEMMA IdleIsWork ==
    /\ Snapshot!Idle \in Work /\ Snapshot!Idle.pc = "done"
    /\ Snapshot!Idle.start = 0 /\ Snapshot!Idle.end = -1
    /\ \A pc \in Snapshot!Pcs :
          LET w == [Snapshot!Idle EXCEPT !.pc = pc] IN
          w \in Work /\ w.pc = pc /\ w.start = 0 /\ w.end = -1
BY SnapNumbers DEF Snapshot!Idle, Work, Snapshot!Pcs, Snapshot!Outcomes, Snapshot!None

LEMMA SnapStarts == Snapshot!Init => SnapInv
<1> SUFFICES ASSUME Snapshot!Init PROVE SnapInv  OBVIOUS
<1>1. /\ sKind \in Kinds /\ sNow = 0 /\ sFaults = 0
      /\ sWork = [s \in Symbols |-> Snapshot!Idle] /\ sStatus = "none"
      /\ sBookmark = [s \in Symbols |-> -1]
      /\ sStored = [s \in Symbols |-> [t \in 0..SnapshotTime |-> "absent"]]
      /\ sCached = [s \in Symbols |-> -1]
  BY DEF Snapshot!Init, Snapshot!None, Snapshot!Time
<1>2. Snapshot!TypeOK  BY <1>1, SnapTypes, SnapNumbers, IdleIsWork
<1>3. \A s \in Symbols : Fits(s, sWork[s]) /\ CacheFits(s)
  BY <1>1, IdleIsWork DEF Fits, CacheFits, Inclusive
<1>4. QED  BY <1>1, <1>2, <1>3 DEF SnapInv

\* A symbol goes on and touches no data.
LEMMA RequestMoves ==
    ASSUME SnapInv, NEW s \in Symbols, NEW w \in Work, Snapshot!Becomes(s, w),
           UNCHANGED <<sKind, sNow, sStatus, Snapshot!Data>>,
           sFaults' \in 0..SnapshotFaults, Fits(s, w)
    PROVE  SnapInv'
<1>1. /\ sWork'[s] = w /\ \A u \in Symbols : u # s => sWork'[u] = sWork[u]
      /\ sWork' \in [Symbols -> Work]
  BY SnapTypes DEF Snapshot!Becomes, SnapInv
<1>2. UNCHANGED <<sKind, sNow, sStatus, sBookmark, sStored, sCached>>
  BY DEF Snapshot!Data
<1>3. Snapshot!TypeOK'
  BY <1>1, <1>2 DEF SnapInv, Snapshot!TypeOK, Snapshot!Time, Snapshot!None, Work
<1>4. ASSUME NEW u \in Symbols PROVE Fits(u, sWork[u])' /\ CacheFits(u)'
  <2>1. Fits(u, sWork'[u]) /\ CacheFits(u)  BY <1>1 DEF SnapInv
  <2>2. QED  BY <1>2, <2>1 DEF Fits, CacheFits, Inclusive
<1>5. QED  BY <1>2, <1>3, <1>4 DEF SnapInv

\* What a symbol's request is before its step
LEMMA RequestIs ==
    ASSUME SnapInv, NEW s \in Symbols
    PROVE  /\ sWork[s] \in Work /\ Fits(s, sWork[s]) /\ CacheFits(s)
           /\ sNow \in 0..SnapshotTime /\ sKind \in Kinds
           /\ KeyOf[s] \in Symbols
           /\ sBookmark[KeyOf[s]] \in 0..SnapshotTime \cup {-1} /\ sBookmark[KeyOf[s]] <= sNow
           /\ sFaults \in 0..SnapshotFaults
           /\ sStored[s] \in [0..SnapshotTime -> {"absent", "unfinished", "final"}]
BY SnapTypes, SnapNumbers DEF SnapInv

LEMMA FinishesKeeps ==
    ASSUME SnapInv, NEW s \in Symbols, NEW outcome \in Snapshot!Outcomes,
           Snapshot!Finishes(s, outcome),
           UNCHANGED <<sKind, sNow, sStatus, Snapshot!Data>>,
           sFaults' \in 0..SnapshotFaults
    PROVE  SnapInv'
<1> DEFINE w == [sWork[s] EXCEPT !.pc = "done", !.outcome = outcome]
<1>0. sWork[s] \in Work  BY RequestIs
<1>1. /\ w \in Work /\ w.pc = "done" /\ w.start = sWork[s].start /\ w.end = sWork[s].end
  BY <1>0 DEF Work, Snapshot!Pcs
<1>2. Snapshot!Becomes(s, w)  BY DEF Snapshot!Finishes
<1> HIDE DEF w
<1>3. Fits(s, w)  BY <1>1, RequestIs DEF Fits, Inclusive
<1>4. QED  BY <1>1, <1>2, <1>3, RequestMoves

LEMMA GoesKeeps ==
    ASSUME SnapInv, NEW s \in Symbols, NEW pc \in {"load", "retry"}, Snapshot!Goes(s, pc),
           sWork[s].pc \in {"calendar", "load"},
           pc = "retry" => sWork[s].attempt <= RetryCount,
           UNCHANGED <<sKind, sNow, sStatus, Snapshot!Data>>,
           sFaults' \in 0..SnapshotFaults
    PROVE  SnapInv'
<1> DEFINE w == [sWork[s] EXCEPT !.pc = pc]
<1>1. /\ w \in Work /\ w.pc = pc /\ w.start = sWork[s].start /\ w.end = sWork[s].end
      /\ w.attempt = sWork[s].attempt
  BY RequestIs DEF Work, Snapshot!Pcs
<1>2. Snapshot!Becomes(s, w)  BY DEF Snapshot!Goes
<1> HIDE DEF w
<1>3. Fits(s, w)  BY <1>1, RequestIs DEF Fits, Inclusive
<1>4. QED  BY <1>1, <1>2, <1>3, RequestMoves

LEMMA ReadsBookmarkKeeps ==
    ASSUME SnapInv, NEW s \in Symbols, Snapshot!ReadsBookmark(s) PROVE SnapInv'
<1> DEFINE w == [sWork[s] EXCEPT !.start = Snapshot!Start(s),
                                 !.pc = IF ApiMode THEN "load" ELSE "calendar"]
<1>1. sWork[s] \in Work  BY RequestIs
<1>2. Snapshot!Start(s) = IF sBookmark[KeyOf[s]] # -1 THEN sBookmark[KeyOf[s]]
                          ELSE sNow - Duration
  BY DEF Snapshot!Start, Snapshot!None
<1>3. Snapshot!Start(s) \in -Duration..SnapshotTime /\ Snapshot!Start(s) <= sNow
  BY <1>2, RequestIs, SnapNumbers
<1>4. /\ w \in Work /\ w.pc \in {"load", "calendar"} /\ w.start = Snapshot!Start(s)
      /\ w.end = sWork[s].end
  BY <1>1, <1>3 DEF Work, Snapshot!Pcs
<1>5. /\ Snapshot!Becomes(s, w) /\ sFaults' = sFaults
      /\ UNCHANGED <<sKind, sNow, sStatus, Snapshot!Data>>
  BY DEF Snapshot!ReadsBookmark
<1> HIDE DEF w
<1>6. Fits(s, w)  BY <1>2, <1>3, <1>4, RequestIs DEF Fits, Inclusive
<1>7. QED  BY <1>4, <1>5, <1>6, RequestIs, RequestMoves

LEMMA LoadsKeeps ==
    ASSUME SnapInv, NEW s \in Symbols, Snapshot!Loads(s) PROVE SnapInv'
<1> DEFINE w == [sWork[s] EXCEPT !.pc = "persist", !.start = Snapshot!LoadsFrom(s),
                                 !.end = sNow]
<1>1. sWork[s] \in Work /\ sNow \in 0..SnapshotTime  BY RequestIs
<1>2. Snapshot!LoadsFrom(s) = IF sKind = "ohlcv_snapshot" THEN sWork[s].start
                              ELSE sNow - Duration
  BY DEF Snapshot!LoadsFrom
<1>3. Snapshot!LoadsFrom(s) \in -Duration..SnapshotTime /\ Snapshot!LoadsFrom(s) <= sNow
  BY <1>1, <1>2, RequestIs, SnapNumbers DEF Fits, Work
<1>4. /\ w \in Work /\ w.pc = "persist" /\ w.start = Snapshot!LoadsFrom(s) /\ w.end = sNow
  BY <1>1, <1>3 DEF Work, Snapshot!Pcs
<1>5. /\ Snapshot!Becomes(s, w) /\ sFaults' = sFaults /\ sWork[s].pc = "load"
      /\ UNCHANGED <<sKind, sNow, sStatus, Snapshot!Data>>
  BY DEF Snapshot!Loads, Snapshot!At
<1> HIDE DEF w
<1>6. Fits(s, w)  BY <1>1, <1>2, <1>3, <1>4, <1>5, RequestIs DEF Fits, Inclusive
<1>7. QED  BY <1>4, <1>5, <1>6, RequestIs, RequestMoves

LEMMA RetriesKeeps ==
    ASSUME SnapInv, NEW s \in Symbols, Snapshot!Retries(s) PROVE SnapInv'
<1> DEFINE w == [sWork[s] EXCEPT !.pc = "load", !.attempt = @ + 1]
<1>1. sWork[s] \in Work  BY RequestIs
<1>2. /\ Snapshot!Becomes(s, w) /\ sFaults' = sFaults /\ sWork[s].pc = "retry"
      /\ UNCHANGED <<sKind, sNow, sStatus, Snapshot!Data>>
  BY DEF Snapshot!Retries, Snapshot!At
<1>3. sWork[s].attempt + 1 \in 1..RetryCount + 1
  BY <1>1, <1>2, RequestIs, SnapNumbers DEF Fits, Work
<1>4. /\ w \in Work /\ w.pc = "load" /\ w.start = sWork[s].start /\ w.end = sWork[s].end
  BY <1>1, <1>3 DEF Work, Snapshot!Pcs
<1> HIDE DEF w
<1>5. Fits(s, w)  BY <1>2, <1>4, RequestIs DEF Fits, Inclusive
<1>6. QED  BY <1>2, <1>4, <1>5, RequestIs, RequestMoves

\* The other steps of a symbol that touch no data: it goes on or is done.
LEMMA MovesKeep ==
    ASSUME SnapInv, NEW s \in Symbols,
           \/ Snapshot!AsksCalendar(s) \/ Snapshot!LoadsNothing(s) \/ Snapshot!RateLimited(s)
           \/ Snapshot!StepFails(s) \/ Snapshot!StoreFails(s)
    PROVE  SnapInv'
<1>1. sFaults' = sFaults + 1 /\ sFaults < SnapshotFaults => sFaults' \in 0..SnapshotFaults
  <2>1. sFaults \in 0..SnapshotFaults /\ SnapshotFaults \in Nat
    BY RequestIs, SnapNumbers
  <2>2. QED  BY <2>1
<1>2. {"success", "degraded", "skipped_holiday", "failed"} \subseteq Snapshot!Outcomes
  BY DEF Snapshot!Outcomes
<1>3. CASE Snapshot!AsksCalendar(s)
  BY <1>2, <1>3, RequestIs, GoesKeeps, FinishesKeeps DEF Snapshot!AsksCalendar, Snapshot!At
<1>4. CASE Snapshot!LoadsNothing(s)
  BY <1>2, <1>4, RequestIs, FinishesKeeps DEF Snapshot!LoadsNothing
<1>5. CASE Snapshot!RateLimited(s)
  <2>1. sWork[s].attempt \in Nat  BY RequestIs, SnapNumbers DEF Work
  <2>2. sFaults' \in 0..SnapshotFaults /\ UNCHANGED <<sKind, sNow, sStatus, Snapshot!Data>>
        /\ sWork[s].pc = "load"
    BY <1>1, <1>5 DEF Snapshot!RateLimited, Snapshot!Fault, Snapshot!At
  <2>3. CASE Snapshot!Finishes(s, "failed")  BY <1>2, <2>2, <2>3, FinishesKeeps
  <2>4. CASE ~(sWork[s].attempt > RetryCount) /\ Snapshot!Goes(s, "retry")
    BY <2>1, <2>2, <2>4, SnapNumbers, GoesKeeps
  <2>5. QED  BY <1>5, <2>3, <2>4 DEF Snapshot!RateLimited
<1>6. CASE Snapshot!StepFails(s)
  BY <1>1, <1>2, <1>6, FinishesKeeps DEF Snapshot!StepFails, Snapshot!Fault
<1>7. CASE Snapshot!StoreFails(s)
  <2>1. /\ sWork[s].pc = "persist" /\ UNCHANGED <<sKind, sNow, sStatus, Snapshot!Data>>
        /\ sFaults' \in 0..SnapshotFaults
    BY <1>1, <1>7 DEF Snapshot!StoreFails, Snapshot!Fault, Snapshot!At
  <2>2. CASE \E outcome \in {"success", "failed"} : Snapshot!Finishes(s, outcome)
    BY <1>2, <2>1, <2>2, FinishesKeeps
  <2>3. CASE sKind = "ohlcv_snapshot" /\ ~ApiMode /\ Snapshot!Goes(s, "cache")
    <3> DEFINE w == [sWork[s] EXCEPT !.pc = "cache"]
    <3>1. /\ w \in Work /\ w.pc = "cache" /\ w.start = sWork[s].start
          /\ w.end = sWork[s].end
      BY RequestIs DEF Work, Snapshot!Pcs
    <3>2. Snapshot!Becomes(s, w)  BY <2>3 DEF Snapshot!Goes
    <3>3. ~OhlcvThroughApi  BY <2>3, RequestIs DEF OhlcvThroughApi
    <3> HIDE DEF w
    <3>4. Fits(s, w)  BY <2>1, <3>1, <3>3, RequestIs DEF Fits, Inclusive
    <3>5. QED  BY <2>1, <3>1, <3>2, <3>4, RequestMoves
  <2>4. QED  BY <1>7, <2>2, <2>3 DEF Snapshot!StoreFails
<1>8. QED  BY <1>3, <1>4, <1>5, <1>6, <1>7

\* The data of s change: the rows of the others, the bookmarks of the others stay.
LEMMA DataMove ==
    ASSUME SnapInv, NEW s \in Symbols, NEW w \in Work, Snapshot!Becomes(s, w),
           UNCHANGED <<sKind, sNow, sStatus>>, sFaults' \in 0..SnapshotFaults,
           sStored' \in [Symbols -> [0..SnapshotTime -> {"absent", "unfinished", "final"}]],
           sCached' \in [Symbols -> 0..SnapshotTime \cup {-1}],
           sBookmark' \in [Symbols -> 0..SnapshotTime \cup {-1}],
           \A u \in Symbols \ {s} : sStored'[u] = sStored[u] /\ sCached'[u] = sCached[u],
           \A k \in Symbols \ {KeyOf[s]} : sBookmark'[k] = sBookmark[k],
           sBookmark'[KeyOf[s]] <= sNow, Fits(s, w)', CacheFits(s)'
    PROVE  SnapInv'
<1>1. /\ sWork'[s] = w /\ \A u \in Symbols : u # s => sWork'[u] = sWork[u]
      /\ sWork' \in [Symbols -> Work]
  BY SnapTypes DEF Snapshot!Becomes, SnapInv
<1>2. Snapshot!TypeOK'
  BY <1>1 DEF SnapInv, Snapshot!TypeOK, Snapshot!Time, Snapshot!None, Work
<1>3. ASSUME NEW u \in Symbols, u # s PROVE Fits(u, sWork[u])' /\ CacheFits(u)'
  <2>1. Fits(u, sWork'[u]) /\ CacheFits(u)  BY <1>1, <1>3 DEF SnapInv
  <2>2. KeysDiffer => sBookmark'[KeyOf[u]] = sBookmark[KeyOf[u]]
    BY <1>3, SnapNumbers DEF KeysDiffer
  <2>3. QED  BY <1>3, <2>1, <2>2 DEF Fits, CacheFits, Inclusive, KeysDiffer
<1>4. Fits(s, sWork[s])'  BY <1>1 DEF Fits, Inclusive
<1>5. \A k \in Symbols : sBookmark'[k] <= sNow'
  BY SnapNumbers DEF SnapInv
<1>6. QED  BY <1>2, <1>3, <1>4, <1>5 DEF SnapInv

\* What the store holds after its rows were upserted
LEMMA RowsAre ==
    ASSUME SnapInv, NEW s \in Symbols, sWork[s].pc = "persist"
    PROVE  /\ Snapshot!Rows(s) \in [0..SnapshotTime -> {"absent", "unfinished", "final"}]
           /\ \A t \in 0..SnapshotTime :
                 sStored[s][t] # "absent" => Snapshot!Rows(s)[t] # "absent"
           /\ Snapshot!Rows(s)[sWork[s].end] # "absent"
           /\ \A t \in 0..SnapshotTime :
                 sWork[s].start <= t /\ t < sWork[s].end => Snapshot!Rows(s)[t] = "final"
<1>1. Snapshot!Rows(s) =
        [t \in 0..SnapshotTime |->
            IF t \notin sWork[s].start..sWork[s].end THEN sStored[s][t]
            ELSE IF t < sWork[s].end THEN "final" ELSE "unfinished"]
  BY DEF Snapshot!Rows, Snapshot!Time
<1>2. /\ sWork[s].start \in Int /\ sWork[s].end \in 0..SnapshotTime
      /\ sWork[s].start <= sWork[s].end
  BY RequestIs, SnapNumbers DEF Work, Fits
<1>3. sStored[s] \in [0..SnapshotTime -> {"absent", "unfinished", "final"}]
  BY RequestIs
<1>4. SnapshotTime \in Nat  BY SnapNumbers
<1>5. QED  BY <1>1, <1>2, <1>3, <1>4

LEMMA PersistsKeeps ==
    ASSUME SnapInv, NEW s \in Symbols, Snapshot!Persists(s) PROVE SnapInv'
<1>1. /\ Snapshot!Goes(s, "cache") /\ sWork[s].pc = "persist"
      /\ sStored' = [sStored EXCEPT ![s] = Snapshot!Rows(s)]
      /\ UNCHANGED <<sKind, sNow, sStatus, sFaults, sBookmark, sCached>>
  BY DEF Snapshot!Persists, Snapshot!At
<1>2. sWork[s] \in Work  BY RequestIs
<1>3. PICK w \in Work : /\ Snapshot!Becomes(s, w) /\ w.pc = "cache"
                       /\ w.start = sWork[s].start /\ w.end = sWork[s].end
  <2>1. [sWork[s] EXCEPT !.pc = "cache"] \in Work
    BY <1>2 DEF Work, Snapshot!Pcs
  <2>2. QED  BY <1>1, <1>2, <2>1 DEF Work, Snapshot!Goes
<1>4. /\ sStored' \in [Symbols -> [0..SnapshotTime -> {"absent", "unfinished", "final"}]]
      /\ \A u \in Symbols \ {s} : sStored'[u] = sStored[u]
      /\ sStored'[s] = Snapshot!Rows(s)
  BY <1>1, RowsAre, SnapTypes DEF SnapInv
<1>5. /\ sCached' \in [Symbols -> 0..SnapshotTime \cup {-1}]
      /\ sBookmark' \in [Symbols -> 0..SnapshotTime \cup {-1}]
  BY <1>1, SnapTypes DEF SnapInv
<1>6. Fits(s, w)'
  <2>1. /\ w.pc = "cache" /\ w.start = sWork[s].start /\ w.end = sWork[s].end
        /\ sWork[s].pc = "persist"
        /\ UNCHANGED <<sKind, sNow, sBookmark>>
        /\ sStored'[s][sWork[s].end] # "absent"
        /\ \A t \in 0..SnapshotTime :
              sWork[s].start <= t /\ t < sWork[s].end => sStored'[s][t] = "final"
        /\ Fits(s, sWork[s])
    BY <1>1, <1>3, <1>4, RowsAre, RequestIs
  <2>2. KeysDiffer => Inclusive(s, w)'
    BY <2>1 DEF Fits, Inclusive
  <2>3. QED  BY <2>1, <2>2 DEF Fits, KeysDiffer
<1>7. CacheFits(s)'
  <2>1. sCached[s] \in 0..SnapshotTime \cup {-1}  BY SnapTypes DEF SnapInv
  <2>2. QED  BY <1>1, <1>4, <2>1, RowsAre, RequestIs DEF CacheFits
<1>8. QED
  BY <1>1, <1>3, <1>4, <1>5, <1>6, <1>7, RequestIs, DataMove

LEMMA CachesKeeps ==
    ASSUME SnapInv, NEW s \in Symbols, Snapshot!Caches(s) PROVE SnapInv'
<1>1. /\ sWork[s].pc = "cache"
      /\ UNCHANGED <<sKind, sNow, sStatus, sBookmark, sStored>>
  BY DEF Snapshot!Caches, Snapshot!At
<1>2. sFaults' \in 0..SnapshotFaults
  <2>1. sFaults \in 0..SnapshotFaults /\ SnapshotFaults \in Nat
    BY RequestIs, SnapNumbers
  <2>2. sFaults' = sFaults \/ (sFaults < SnapshotFaults /\ sFaults' = sFaults + 1)
    BY DEF Snapshot!Caches, Snapshot!Fault
  <2>3. QED  BY <2>1, <2>2
<1>3. sWork[s] \in Work  BY RequestIs
<1>4. PICK w \in Work :
        /\ Snapshot!Becomes(s, w)
        /\ w.start = sWork[s].start /\ w.end = sWork[s].end
        /\ w.pc = "done" \/ (w.pc = "mark" /\ sKind = "ohlcv_snapshot")
  <2>1. ASSUME NEW o \in {"success", "degraded"}, Snapshot!Finishes(s, o)
        PROVE  \E w \in Work :
                  /\ Snapshot!Becomes(s, w)
                  /\ w.start = sWork[s].start /\ w.end = sWork[s].end
                  /\ w.pc = "done" \/ (w.pc = "mark" /\ sKind = "ohlcv_snapshot")
    <3> DEFINE w == [sWork[s] EXCEPT !.pc = "done", !.outcome = o]
    <3>1. /\ w \in Work /\ w.pc = "done"
          /\ w.start = sWork[s].start /\ w.end = sWork[s].end
      BY <1>3 DEF Work, Snapshot!Pcs, Snapshot!Outcomes
    <3>2. Snapshot!Becomes(s, w)  BY <2>1 DEF Snapshot!Finishes
    <3>3. QED  BY <3>1, <3>2
  <2>2. ASSUME sKind = "ohlcv_snapshot", Snapshot!Goes(s, "mark")
        PROVE  \E w \in Work :
                  /\ Snapshot!Becomes(s, w)
                  /\ w.start = sWork[s].start /\ w.end = sWork[s].end
                  /\ w.pc = "done" \/ (w.pc = "mark" /\ sKind = "ohlcv_snapshot")
    <3> DEFINE w == [sWork[s] EXCEPT !.pc = "mark"]
    <3>1. /\ w \in Work /\ w.pc = "mark"
          /\ w.start = sWork[s].start /\ w.end = sWork[s].end
      BY <1>3 DEF Work, Snapshot!Pcs
    <3>2. Snapshot!Becomes(s, w)  BY <2>2 DEF Snapshot!Goes
    <3>3. QED  BY <2>2, <3>1, <3>2
  <2>3. \/ sKind = "ohlcv_snapshot" /\ Snapshot!Goes(s, "mark")
        \/ \E o \in {"success", "degraded"} : Snapshot!Finishes(s, o)
    <3>1. sKind \in {"ohlcv_snapshot", "market_snapshot", "equity_snapshot"}
      BY RequestIs, SnapNumbers
    <3>2. QED  BY <3>1 DEF Snapshot!Caches
  <2>4. QED  BY <2>1, <2>2, <2>3
<1>5. Fits(s, w)'
  BY <1>1, <1>4, RequestIs DEF Fits, Inclusive, KeysDiffer
<1>6. sCached' = [sCached EXCEPT ![s] = sWork[s].end] \/ sCached' = sCached
  BY DEF Snapshot!Caches
<1>7. sWork[s].end \in 0..SnapshotTime
  BY <1>1, <1>3, RequestIs DEF Fits, Work
<1>8. /\ sCached' \in [Symbols -> 0..SnapshotTime \cup {-1}]
      /\ \A u \in Symbols \ {s} : sCached'[u] = sCached[u]
      /\ sCached'[s] \in {sCached[s], sWork[s].end}
  BY <1>6, <1>7, SnapTypes DEF SnapInv
<1>9. CacheFits(s)'
  BY <1>1, <1>8, RequestIs DEF CacheFits, Fits
<1>10. /\ sStored' \in [Symbols -> [0..SnapshotTime -> {"absent", "unfinished", "final"}]]
       /\ sBookmark' \in [Symbols -> 0..SnapshotTime \cup {-1}]
  BY <1>1, SnapTypes DEF SnapInv
<1>11. QED
  BY <1>1, <1>2, <1>4, <1>5, <1>8, <1>9, <1>10, RequestIs, DataMove

LEMMA MarksKeeps ==
    ASSUME SnapInv, NEW s \in Symbols, Snapshot!Marks(s) PROVE SnapInv'
<1>1. /\ Snapshot!Finishes(s, "success") /\ sWork[s].pc = "mark"
      /\ sBookmark' = [sBookmark EXCEPT ![KeyOf[s]] = sWork[s].end]
      /\ UNCHANGED <<sKind, sNow, sStatus, sFaults, sStored, sCached>>
  BY DEF Snapshot!Marks, Snapshot!At
<1>2. sWork[s] \in Work  BY RequestIs
<1>3. PICK w \in Work : /\ Snapshot!Becomes(s, w) /\ w.pc = "done"
                       /\ w.start = sWork[s].start /\ w.end = sWork[s].end
  <2>1. [sWork[s] EXCEPT !.pc = "done", !.outcome = "success"] \in Work
    BY <1>2 DEF Work, Snapshot!Pcs, Snapshot!Outcomes
  <2>2. QED  BY <1>1, <1>2, <2>1 DEF Work, Snapshot!Finishes
<1>4. sWork[s].end \in 0..SnapshotTime /\ sWork[s].end <= sNow
  BY <1>1, <1>2, RequestIs DEF Fits, Work
<1>5. /\ sBookmark' \in [Symbols -> 0..SnapshotTime \cup {-1}]
      /\ \A k \in Symbols \ {KeyOf[s]} : sBookmark'[k] = sBookmark[k]
      /\ sBookmark'[KeyOf[s]] <= sNow
  BY <1>1, <1>4, RequestIs, SnapTypes DEF SnapInv
<1>6. Fits(s, w)'  BY <1>1, <1>3, RequestIs DEF Fits, Inclusive, KeysDiffer
<1>7. CacheFits(s)'  BY <1>1, RequestIs DEF CacheFits
<1>8. /\ sStored' \in [Symbols -> [0..SnapshotTime -> {"absent", "unfinished", "final"}]]
      /\ sCached' \in [Symbols -> 0..SnapshotTime \cup {-1}]
  BY <1>1, SnapTypes DEF SnapInv
<1>9. QED  BY <1>1, <1>3, <1>5, <1>6, <1>7, <1>8, RequestIs, DataMove

-----------------------------------------------------------------------------

\* The requests of all symbols change at once, the bookmarks and the cache do not.
LEMMA RequestsMove ==
    ASSUME SnapInv, sWork' \in [Symbols -> Work],
           UNCHANGED <<sKind, sBookmark, sCached>>,
           sNow' \in 0..SnapshotTime, sNow <= sNow', sFaults' \in 0..SnapshotFaults,
           sStatus' \in Snapshot!Outcomes \cup {"none", "running", "partial_success",
                                                "skipped_window", "cancelled"},
           sStored' \in [Symbols -> [0..SnapshotTime -> {"absent", "unfinished", "final"}]],
           \A s \in Symbols : Fits(s, sWork[s])',
           \A s \in Symbols : \A t \in 0..SnapshotTime :
               sStored[s][t] # "absent" => sStored'[s][t] # "absent"
    PROVE  SnapInv'
<1>1. Snapshot!TypeOK'
  BY DEF SnapInv, Snapshot!TypeOK, Snapshot!Time, Snapshot!None, Work
<1>2. \A s \in Symbols : CacheFits(s)'
  <2> TAKE s \in Symbols
  <2>1. sCached[s] \in 0..SnapshotTime \cup {-1} /\ CacheFits(s)
    BY SnapTypes DEF SnapInv
  <2>2. QED  BY <2>1 DEF CacheFits
<1>3. \A k \in Symbols : sBookmark'[k] <= sNow'
  <2> TAKE k \in Symbols
  <2>1. sBookmark[k] \in Int /\ sNow \in Int /\ sNow' \in Int /\ sBookmark[k] <= sNow
    BY SnapTypes, SnapNumbers DEF SnapInv
  <2>2. QED  BY <2>1
<1>4. QED  BY <1>1, <1>2, <1>3 DEF SnapInv

LEMMA RunTriggeredKeeps == ASSUME SnapInv, Snapshot!Triggered PROVE SnapInv'
<1>1. /\ UNCHANGED <<sKind, sNow, sFaults, sBookmark, sStored, sCached>>
      /\ sStatus' = "running"
  BY DEF Snapshot!Triggered, Snapshot!Data
<1>2. PICK pc \in {"queued", "load", "capture"}, symbols \in SUBSET Symbols :
        /\ sWork' = Snapshot!Starts(symbols, pc)
        /\ sKind = "ohlcv_snapshot" => pc = "queued"
  BY DEF Snapshot!Triggered
<1>3. sWork' = [s \in Symbols |-> IF s \in symbols THEN [Snapshot!Idle EXCEPT !.pc = pc]
                                 ELSE [Snapshot!Idle EXCEPT !.pc = Snapshot!Idle.pc]]
  BY <1>2 DEF Snapshot!Starts
<1>4. pc \in Snapshot!Pcs /\ "done" \in Snapshot!Pcs  BY DEF Snapshot!Pcs
<1>5. ASSUME NEW s \in Symbols
      PROVE  /\ sWork'[s] \in Work /\ sWork'[s].start = 0 /\ sWork'[s].end = -1
             /\ sWork'[s].pc \in {pc, "done"}
  BY <1>3, <1>4, <1>5, IdleIsWork
<1>6. sWork' \in [Symbols -> Work]  BY <1>3, <1>5
<1>7. \A s \in Symbols : Fits(s, sWork[s])'
  <2>1. sNow \in 0..SnapshotTime  BY SnapTypes DEF SnapInv
  <2>2. QED  BY <1>1, <1>2, <1>5, <2>1, SnapNumbers DEF Fits, Inclusive
<1>8. /\ sNow' \in 0..SnapshotTime /\ sNow <= sNow' /\ sFaults' \in 0..SnapshotFaults
      /\ sStored' \in [Symbols -> [0..SnapshotTime -> {"absent", "unfinished", "final"}]]
  BY <1>1, SnapTypes, SnapNumbers DEF SnapInv
<1>9. QED  BY <1>1, <1>6, <1>7, <1>8, RequestsMove

LEMMA CapturesKeeps == ASSUME SnapInv, Snapshot!Captures PROVE SnapInv'
<1>1. /\ UNCHANGED <<sKind, sNow, sStatus, sFaults, sBookmark, sStored, sCached>>
      /\ sKind = "equity_snapshot"
  BY DEF Snapshot!Captures, Snapshot!Data
<1>2. PICK good \in SUBSET Symbols :
        sWork' = [s \in Symbols |->
                    IF s \in good
                    THEN [Snapshot!Idle EXCEPT !.pc = "persist", !.start = sNow, !.end = sNow]
                    ELSE [Snapshot!Idle EXCEPT !.outcome = "failed"]]
  BY DEF Snapshot!Captures
<1>3. sNow \in 0..SnapshotTime /\ sNow \in Int  BY SnapTypes, SnapNumbers DEF SnapInv
<1>4. ASSUME NEW s \in Symbols
      PROVE  /\ sWork'[s] \in Work /\ sWork'[s].start <= sNow /\ sWork'[s].end <= sNow
             /\ \/ sWork'[s].pc = "done"
                \/ sWork'[s].pc = "persist" /\ sWork'[s].start = sNow /\ sWork'[s].end = sNow
  <2>1. CASE s \in good
    <3>1. sWork'[s] = [pc |-> "persist", start |-> sNow, end |-> sNow, attempt |-> 1,
                       outcome |-> "success"]
      BY <1>2, <2>1 DEF Snapshot!Idle
    <3>2. QED  BY <1>3, <3>1, SnapNumbers DEF Work, Snapshot!Pcs, Snapshot!Outcomes
  <2>2. CASE s \notin good
    <3>1. sWork'[s] = [pc |-> "done", start |-> 0, end |-> -1, attempt |-> 1,
                       outcome |-> "failed"]
      BY <1>2, <2>2 DEF Snapshot!Idle, Snapshot!None
    <3>2. QED  BY <1>3, <3>1, SnapNumbers DEF Work, Snapshot!Pcs, Snapshot!Outcomes
  <2>3. QED  BY <2>1, <2>2
<1>5. sWork' \in [Symbols -> Work]  BY <1>2, <1>4
<1>6. \A s \in Symbols : Fits(s, sWork[s])'
  BY <1>1, <1>3, <1>4 DEF Fits, Inclusive, KeysDiffer
<1>7. QED  BY <1>1, <1>5, <1>6, RequestsMove, SnapTypes, SnapNumbers DEF SnapInv

LEMMA PersistsSnapshotsKeeps == ASSUME SnapInv, Snapshot!PersistsSnapshots PROVE SnapInv'
<1>1. /\ UNCHANGED <<sKind, sNow, sStatus, sBookmark, sCached>>
      /\ sKind = "equity_snapshot"
  BY DEF Snapshot!PersistsSnapshots
<1>2. /\ sNow \in 0..SnapshotTime /\ sFaults \in 0..SnapshotFaults
      /\ sWork \in [Symbols -> Work]
      /\ sStored \in [Symbols -> [0..SnapshotTime -> {"absent", "unfinished", "final"}]]
      /\ sStatus \in Snapshot!Outcomes \cup {"none", "running", "partial_success",
                                             "skipped_window", "cancelled"}
  BY SnapTypes DEF SnapInv
<1>3. sNow' \in 0..SnapshotTime /\ sNow <= sNow'
  BY <1>1, <1>2, SnapNumbers
<1>4. CASE /\ sStored' = [s \in Symbols |-> IF s \in Snapshot!Captured THEN Snapshot!Rows(s)
                                            ELSE sStored[s]]
           /\ sWork' = [s \in Symbols |-> IF s \in Snapshot!Captured
                                          THEN [sWork[s] EXCEPT !.pc = "cache"] ELSE sWork[s]]
           /\ UNCHANGED sFaults
  <2>1. ASSUME NEW s \in Symbols
        PROVE  /\ sWork'[s] \in Work /\ Fits(s, sWork[s])'
               /\ sStored'[s] \in [0..SnapshotTime -> {"absent", "unfinished", "final"}]
               /\ \A t \in 0..SnapshotTime :
                    sStored[s][t] # "absent" => sStored'[s][t] # "absent"
    <3>1. CASE s \in Snapshot!Captured
      <4>1. sWork[s].pc = "persist" /\ sStored'[s] = Snapshot!Rows(s)
        BY <1>4, <3>1 DEF Snapshot!Captured
      <4>2. /\ sWork'[s] \in Work /\ sWork'[s].pc = "cache"
            /\ sWork'[s].start = sWork[s].start /\ sWork'[s].end = sWork[s].end
        <5>1. sWork'[s] = [sWork[s] EXCEPT !.pc = "cache"] /\ sWork[s] \in Work
          BY <1>2, <1>4, <3>1
        <5>2. QED  BY <5>1 DEF Work, Snapshot!Pcs
      <4>3. Fits(s, sWork[s])'
        BY <1>1, <4>1, <4>2, RowsAre, RequestIs DEF Fits, Inclusive, KeysDiffer
      <4>4. QED  BY <4>1, <4>2, <4>3, RowsAre
    <3>2. CASE s \notin Snapshot!Captured
      <4>1. sWork'[s] = sWork[s] /\ sStored'[s] = sStored[s]  BY <1>4, <3>2
      <4>2. QED  BY <1>1, <4>1, RequestIs DEF Fits, Inclusive, KeysDiffer
    <3>3. QED  BY <3>1, <3>2
  <2>2. sWork' \in [Symbols -> Work]  BY <1>4, <2>1
  <2>3. sStored' \in [Symbols -> [0..SnapshotTime -> {"absent", "unfinished", "final"}]]
    BY <1>4, <2>1
  <2>4. sFaults' \in 0..SnapshotFaults  BY <1>2, <1>4
  <2>5. QED  BY <1>1, <1>2, <1>3, <2>1, <2>2, <2>3, <2>4, RequestsMove
<1>5. CASE /\ Snapshot!Fault /\ UNCHANGED sStored
           /\ sWork' = [s \in Symbols |->
                  IF s \in Snapshot!Captured
                  THEN [sWork[s] EXCEPT !.pc = "done", !.outcome = "degraded"] ELSE sWork[s]]
  <2>1. ASSUME NEW s \in Symbols PROVE sWork'[s] \in Work /\ Fits(s, sWork[s])'
    <3>1. CASE s \in Snapshot!Captured
      <4>1. sWork'[s] = [sWork[s] EXCEPT !.pc = "done", !.outcome = "degraded"]
        BY <1>5, <3>1
      <4>2. /\ sWork'[s] \in Work /\ sWork'[s].pc = "done"
            /\ sWork'[s].start = sWork[s].start /\ sWork'[s].end = sWork[s].end
        <5>1. sWork[s] \in Work  BY <1>2
        <5>2. QED  BY <4>1, <5>1 DEF Work, Snapshot!Pcs, Snapshot!Outcomes
      <4>3. QED  BY <1>1, <4>2, RequestIs DEF Fits, Inclusive, KeysDiffer
    <3>2. CASE s \notin Snapshot!Captured
      <4>1. sWork'[s] = sWork[s]  BY <1>5, <3>2
      <4>2. QED  BY <1>1, <1>5, <4>1, RequestIs DEF Fits, Inclusive, KeysDiffer
    <3>3. QED  BY <3>1, <3>2
  <2>2. sWork' \in [Symbols -> Work]  BY <1>5, <2>1
  <2>3. sFaults' \in 0..SnapshotFaults
    <3>1. /\ sFaults \in 0..SnapshotFaults /\ SnapshotFaults \in Nat
          /\ sFaults < SnapshotFaults /\ sFaults' = sFaults + 1
      BY <1>2, <1>5, SnapNumbers DEF Snapshot!Fault
    <3>2. QED  BY <3>1
  <2>4. sStored' = sStored  BY <1>5
  <2>5. QED  BY <1>1, <1>2, <1>3, <2>1, <2>2, <2>3, <2>4, RequestsMove
<1>6. QED  BY <1>4, <1>5 DEF Snapshot!PersistsSnapshots, Snapshot!UnstoredGo

\* The steps of the run as a whole, and of time
LEMMA RunKeeps ==
    ASSUME SnapInv,
           \/ Snapshot!Skips \/ Snapshot!Ends \/ Snapshot!Cancelled \/ Snapshot!Tick
           \/ UNCHANGED snapVars
    PROVE  SnapInv'
<1>1. /\ sNow \in 0..SnapshotTime /\ sFaults \in 0..SnapshotFaults
      /\ sWork \in [Symbols -> Work]
      /\ sStored \in [Symbols -> [0..SnapshotTime -> {"absent", "unfinished", "final"}]]
      /\ sStatus \in Snapshot!Outcomes \cup {"none", "running", "partial_success",
                                             "skipped_window", "cancelled"}
  BY SnapTypes DEF SnapInv
<1>2. CASE Snapshot!Skips \/ Snapshot!Ends \/ Snapshot!Tick \/ UNCHANGED snapVars
  <2>1. UNCHANGED <<sKind, sWork, sFaults, sBookmark, sStored, sCached>>
    BY <1>2 DEF Snapshot!Skips, Snapshot!Ends, Snapshot!Tick, Snapshot!Data, snapVars
  <2>2. sNow' \in 0..SnapshotTime /\ sNow <= sNow'
    BY <1>1, <1>2, SnapNumbers
    DEF Snapshot!Skips, Snapshot!Ends, Snapshot!Tick, snapVars
  <2>3. sStatus' \in Snapshot!Outcomes \cup {"none", "running", "partial_success",
                                            "skipped_window", "cancelled"}
    BY <1>1, <1>2
    DEF Snapshot!Skips, Snapshot!Ends, Snapshot!Tick, Snapshot!JobStatus,
        Snapshot!Outcomes, snapVars
  <2>4. ASSUME NEW s \in Symbols PROVE Fits(s, sWork[s])'
    <3>1. sWork[s].start \in Int /\ sWork[s].end \in Int /\ sNow \in Int /\ sNow' \in Int
      BY <1>1, <2>2, SnapNumbers DEF Work
    <3>2. sWork[s].start <= sNow' /\ sWork[s].end <= sNow'
      BY <2>2, <3>1, RequestIs DEF Fits
    <3>3. QED  BY <2>1, <3>2, RequestIs DEF Fits, Inclusive, KeysDiffer
  <2>5. QED  BY <1>1, <2>1, <2>2, <2>3, <2>4, RequestsMove
<1>3. CASE Snapshot!Cancelled
  <2>1. /\ UNCHANGED <<sKind, sNow, sBookmark, sStored, sCached>> /\ sStatus' = "cancelled"
        /\ sFaults' \in 0..SnapshotFaults
    BY <1>1, <1>3, SnapNumbers DEF Snapshot!Cancelled, Snapshot!Fault, Snapshot!Data
  <2>2. sWork' = [s \in Symbols |-> [Snapshot!Idle EXCEPT !.pc = Snapshot!Idle.pc]]
    BY <1>3 DEF Snapshot!Cancelled, Snapshot!Starts
  <2>3. ASSUME NEW s \in Symbols
        PROVE  /\ sWork'[s] \in Work /\ sWork'[s].start = 0 /\ sWork'[s].end = -1
               /\ sWork'[s].pc = "done"
    BY <2>2, IdleIsWork DEF Snapshot!Pcs
  <2>4. sWork' \in [Symbols -> Work]  BY <2>2, <2>3
  <2>5. \A s \in Symbols : Fits(s, sWork[s])'
    BY <1>1, <2>1, <2>3, SnapNumbers DEF Fits, Inclusive
  <2>6. QED  BY <1>1, <2>1, <2>4, <2>5, RequestsMove, SnapNumbers
<1>4. QED  BY <1>2, <1>3

LEMMA SnapKeeps ==
    ASSUME SnapInv, [Snapshot!Next]_snapVars PROVE SnapInv'
<1>1. ASSUME NEW s \in Symbols, Snapshot!SymbolSteps(s) PROVE SnapInv'
  BY <1>1, ReadsBookmarkKeeps, LoadsKeeps, RetriesKeeps, MovesKeep, PersistsKeeps,
     CachesKeeps, MarksKeeps
  DEF Snapshot!SymbolSteps
<1>2. QED
  BY <1>1, RunTriggeredKeeps, CapturesKeeps, PersistsSnapshotsKeeps, RunKeeps
  DEF Snapshot!Next

LEMMA SnapInvAlways == SuiteSpec => []SnapInv
<1>1. SuiteInit => SnapInv  BY SnapStarts DEF SuiteInit
<1>2. SnapInv /\ [SuiteNext]_<<part, runVars, jobsVars, cronVars, snapVars>> => SnapInv'
  BY SnapKeeps DEF SuiteNext, RunSuite, JobsSuite, CronSuite, SnapshotSuite
<1>3. QED  BY <1>1, <1>2, PTL DEF SuiteSpec

(* The cache shows no bar that the primary store has not, if the bars of
   ohlcv_snapshot come from the REST API (OHLCVSnapshotJobHandler). *)
THEOREM CacheShowsTheStore == OhlcvThroughApi => (SuiteSpec => []CacheFollowsStore)
<1> SUFFICES ASSUME OhlcvThroughApi PROVE SuiteSpec => []CacheFollowsStore  OBVIOUS
<1>1. SnapInv => CacheFollowsStore
  BY DEF SnapInv, CacheFits, CacheFollowsStore, Snapshot!CacheFollowsStore, Snapshot!None
<1>2. QED  BY <1>1, SnapInvAlways, PTL

\* Only the write of its bookmark moves it on, when the bars are stored.
LEMMA MarksPass ==
    ASSUME OhlcvThroughApi, KeysDiffer, SnapInv, [Snapshot!Next]_snapVars, NEW s \in Symbols,
           sBookmark[KeyOf[s]] # -1, sBookmark'[KeyOf[s]] # sBookmark[KeyOf[s]]
    PROVE  /\ \A t \in sBookmark[KeyOf[s]]..sBookmark'[KeyOf[s]] - 1 :
                 sStored'[s][t] = "final"
           /\ sStored'[s][sBookmark'[KeyOf[s]]] # "absent"
<1>1. PICK u \in Symbols : Snapshot!Marks(u)
  <2>1. sBookmark' # sBookmark  OBVIOUS
  <2>2. QED
    BY <2>1
    DEF Snapshot!Next, Snapshot!SymbolSteps, snapVars, Snapshot!Data, Snapshot!Skips,
        Snapshot!Triggered, Snapshot!Ends, Snapshot!Cancelled, Snapshot!Tick,
        Snapshot!Captures, Snapshot!PersistsSnapshots, Snapshot!ReadsBookmark,
        Snapshot!AsksCalendar, Snapshot!Loads, Snapshot!LoadsNothing, Snapshot!RateLimited,
        Snapshot!Retries, Snapshot!StepFails, Snapshot!Persists, Snapshot!StoreFails,
        Snapshot!Caches
<1>2. /\ sWork[u].pc = "mark" /\ sStored' = sStored
      /\ sBookmark' = [sBookmark EXCEPT ![KeyOf[u]] = sWork[u].end]
  BY <1>1 DEF Snapshot!Marks, Snapshot!At
<1>3. KeyOf[u] = KeyOf[s]  BY <1>2
<1>4. u = s  BY <1>3 DEF KeysDiffer
<1>5. sBookmark'[KeyOf[s]] = sWork[s].end
  BY <1>2, <1>4, SnapTypes, SnapNumbers DEF SnapInv
<1>6. /\ sWork[s].start = sBookmark[KeyOf[s]]
      /\ \A t \in 0..SnapshotTime :
            sWork[s].start <= t /\ t < sWork[s].end => sStored[s][t] = "final"
      /\ sStored[s][sWork[s].end] # "absent"
  BY <1>2, <1>4, RequestIs DEF Fits, Inclusive
<1>7. /\ sBookmark[KeyOf[s]] \in 0..SnapshotTime /\ sWork[s].end \in 0..SnapshotTime
      /\ SnapshotTime \in Nat
  BY <1>2, <1>4, RequestIs, SnapNumbers DEF Fits, Work
<1>8. QED  BY <1>2, <1>5, <1>6, <1>7

(* A bookmark that moves on passes only bars that are stored in their final
   form, under the same condition and if no two symbols share a bookmark
   (_write_bookmark). *)
THEOREM BookmarksAreSafe ==
    OhlcvThroughApi /\ KeysDiffer => (SuiteSpec => BookmarksPassFinalBars)
<1> SUFFICES ASSUME OhlcvThroughApi, KeysDiffer PROVE SuiteSpec => BookmarksPassFinalBars
  OBVIOUS
<1> DEFINE Passes == \A s \in Symbols :
         LET from == sBookmark[KeyOf[s]]
             to == sBookmark'[KeyOf[s]] IN
         from # Snapshot!None /\ to # from =>
             /\ \A t \in from..to - 1 : sStored'[s][t] = "final"
             /\ sStored'[s][to] # "absent"
<1>1. SnapInv /\ [SuiteNext]_<<part, runVars, jobsVars, cronVars, snapVars>>
        => [Passes]_Snapshot!vars
  <2> SUFFICES ASSUME SnapInv,
                      [SuiteNext]_<<part, runVars, jobsVars, cronVars, snapVars>>
               PROVE  Passes
    OBVIOUS
  <2>1. [Snapshot!Next]_snapVars
    BY DEF SuiteNext, RunSuite, JobsSuite, CronSuite, SnapshotSuite
  <2>2. QED  BY <2>1, MarksPass DEF Snapshot!None
<1>2. SuiteSpec => []SnapInv  BY SnapInvAlways
<1>3. QED  BY <1>1, <1>2, PTL DEF SuiteSpec, BookmarksPassFinalBars, Snapshot!BookmarksPassFinalBars
\* The earliest of some times (Min).
LEMMA Earliest ==
    ASSUME NEW S, S \subseteq Nat, S # {}
    PROVE  Cron!Min(S) \in S /\ \A x \in S : Cron!Min(S) <= x
<1>1. PICK x \in S : \A y \in S : ~ (<<y, x>> \in OpToRel(<, Nat))
  BY WFMin, NatLessThanWellFounded
<1>2. \A y \in S : x <= y
  <2> SUFFICES ASSUME NEW y \in S, y < x PROVE FALSE  OBVIOUS
  <2>1. <<y, x>> \in {ss \in Nat \X Nat : ss[1] < ss[2]}  OBVIOUS
  <2>2. QED  BY <1>1, <2>1 DEF OpToRel
<1>3. QED  BY <1>2 DEF Cron!Min


-----------------------------------------------------------------------------
\* CronSchedule.

\* Summer time neither begins nor ends.
NoShift == ShiftBy = 0

LEMMA CronNumbers ==
    /\ MinutesPerHour \in Nat /\ MinutesPerHour > 0 /\ HoursPerDay \in Nat /\ HoursPerDay > 0
    /\ WeekLength \in Nat /\ WeekLength > 0 /\ LongestMonth \in Nat
    /\ Horizon \in Nat /\ Horizon > 0 /\ MaxUtc \in Nat
    /\ MonthLengths \in Seq(1..LongestMonth)
    /\ Expressions \subseteq [minutes : SUBSET Cron!Token, hours : SUBSET Cron!Token,
                              days : SUBSET Cron!Token, months : SUBSET Cron!Token,
                              weekdays : SUBSET Cron!Token]
BY PartsAssumption DEF Cron!CalendarAssumption

\* Division: a multiple of s, and what is divisible by s.
LEMMA Multiples ==
    ASSUME NEW s \in Nat, s > 0, NEW k \in Nat
    PROVE  k * s \in Nat /\ (k * s) % s = 0 /\ k <= k * s
<1>1. k * s \in Nat  OBVIOUS
<1>2. k <= k * s  OBVIOUS
<1> DEFINE q == (k * s) \div s
           r == (k * s) % s
<1>3. q \in Int /\ r \in 0..s - 1 /\ k * s = s * q + r  BY <1>1
<1>4. (k - q) * s = r  BY <1>3
<1>5. CASE k - q >= 1
  <2>1. (k - q) * s >= s  BY <1>3, <1>5
  <2>2. QED  BY <1>3, <1>4, <2>1
<1>6. CASE k - q <= -1
  <2>1. (k - q) * s <= -s  BY <1>3, <1>6
  <2>2. QED  BY <1>3, <1>4, <2>1
<1>7. CASE k = q  BY <1>1, <1>2, <1>3, <1>4, <1>7
<1>8. QED  BY <1>3, <1>5, <1>6, <1>7

LEMMA Divisible ==
    ASSUME NEW s \in Nat, s > 0, NEW d \in Nat, d % s = 0
    PROVE  \E k \in 0..d : d = k * s
<1> DEFINE q == d \div s
<1>1. q \in Int /\ d = s * q  OBVIOUS
<1> HIDE DEF q
<1>2. q >= 0
  <2> SUFFICES ASSUME q <= -1 PROVE FALSE  BY <1>1
  <2>1. s * q <= -s  BY <1>1
  <2>2. QED  BY <1>1, <2>1
<1>3. q <= d  BY <1>1, <1>2
<1>4. d = q * s /\ q \in 0..d  BY <1>1, <1>2, <1>3
<1>5. QED  BY <1>4

\* A field names a value just when one of its tokens hits it.
LEMMA FieldsHit ==
    ASSUME NEW field \in SUBSET Cron!Token, NEW minimum \in Nat, NEW maximum \in Nat,
           Cron!FieldAccepted(field, minimum, maximum), NEW v
    PROVE  v \in Cron!ParseField(field, minimum, maximum)
               <=> Cron!Hits(field, minimum, maximum, v)
<1> DEFINE low(token) == Cron!Low(token, minimum)
           high(token) == Cron!High(token, maximum)
<1>1. \A token \in field :
        /\ token.step \in Nat /\ token.step > 0
        /\ low(token) \in Nat /\ high(token) \in Nat
        /\ low(token) <= high(token) /\ high(token) <= maximum
  BY DEF Cron!FieldAccepted, Cron!Low, Cron!High, Cron!Token
<1>2. v \in Cron!ParseField(field, minimum, maximum) <=>
        \E token \in field :
            v \in low(token)..high(token) /\ (v - low(token)) % token.step = 0
  BY DEF Cron!ParseField
<1>3. Cron!Hits(field, minimum, maximum, v) <=>
        \E token \in field : \E k \in 0..maximum :
            v = low(token) + k * token.step /\ v <= high(token)
  BY DEF Cron!Hits
<1> HIDE DEF low, high
<1>4. ASSUME NEW token \in field, v \in low(token)..high(token),
             (v - low(token)) % token.step = 0
      PROVE  \E k \in 0..maximum : v = low(token) + k * token.step /\ v <= high(token)
  <2>1. v - low(token) \in 0..maximum  BY <1>1, <1>4
  <2>2. PICK k \in 0..(v - low(token)) : v - low(token) = k * token.step
    <3> DEFINE d == v - low(token)
               step == token.step
    <3>1. step \in Nat /\ step > 0 /\ d \in Nat /\ d % step = 0
      BY <1>1, <1>4, <2>1
    <3> HIDE DEF d, step
    <3>2. \E k \in 0..d : d = k * step  BY <3>1, Divisible
    <3>3. QED  BY <3>2 DEF d, step
  <2>3. k \in 0..maximum  BY <2>1, <2>2
  <2>4. v = low(token) + k * token.step  BY <1>1, <1>4, <2>2
  <2>5. QED  BY <1>1, <1>4, <2>3, <2>4
<1>5. ASSUME NEW token \in field, NEW k \in 0..maximum,
             v = low(token) + k * token.step, v <= high(token)
      PROVE  v \in low(token)..high(token) /\ (v - low(token)) % token.step = 0
  <2>1. /\ k * token.step \in Nat /\ (k * token.step) % token.step = 0
    BY <1>1, Multiples
  <2>2. v - low(token) = k * token.step  BY <1>1, <1>5, <2>1
  <2>3. QED  BY <1>1, <1>5, <2>1, <2>2
<1>6. QED  BY <1>2, <1>3, <1>4, <1>5

\* Both 0 and WeekLength name the first day of the week.
LEMMA WeekdaysHit ==
    ASSUME NEW field \in SUBSET Cron!Token, Cron!FieldAccepted(field, 0, WeekLength),
           NEW day \in 0..WeekLength - 1
    PROVE  day \in Cron!ParseWeekdays(field)
               <=> \E v \in {day, day + WeekLength} : Cron!Hits(field, 0, WeekLength, v)
<1>1. \A v : v \in Cron!ParseField(field, 0, WeekLength)
                 <=> Cron!Hits(field, 0, WeekLength, v)
  BY FieldsHit, CronNumbers
<1>2. \A v \in Cron!ParseField(field, 0, WeekLength) : v \in 0..WeekLength
  BY CronNumbers DEF Cron!ParseField, Cron!Low, Cron!High, Cron!FieldAccepted, Cron!Token
<1>3. \A v \in 0..WeekLength : v % WeekLength = day => v \in {day, day + WeekLength}
  BY CronNumbers
<1>4. day % WeekLength = day /\ (day + WeekLength) % WeekLength = day
  BY CronNumbers
<1>5. QED  BY <1>1, <1>2, <1>3, <1>4 DEF Cron!ParseWeekdays

\* What was parsed of an accepted expression is what it means.
LEMMA ParsedIsMeant ==
    ASSUME NEW e \in Expressions, Cron!Accepted(e), NEW w \in Nat
    PROVE  Cron!Matches(Cron!Parse(e), w) <=> Cron!Meant(e, w)
<1> DEFINE c == Cron!Parse(e)
<1>1. /\ e.minutes \in SUBSET Cron!Token /\ e.hours \in SUBSET Cron!Token
      /\ e.days \in SUBSET Cron!Token /\ e.months \in SUBSET Cron!Token
      /\ e.weekdays \in SUBSET Cron!Token
  BY CronNumbers
<1>2. Len(MonthLengths) \in Nat  BY CronNumbers
<1>3. /\ Cron!FieldAccepted(e.minutes, 0, MinutesPerHour - 1)
      /\ Cron!FieldAccepted(e.hours, 0, HoursPerDay - 1)
      /\ Cron!FieldAccepted(e.days, 1, LongestMonth)
      /\ Cron!FieldAccepted(e.months, 1, Len(MonthLengths))
      /\ Cron!FieldAccepted(e.weekdays, 0, WeekLength)
  BY DEF Cron!Accepted
<1>4. /\ Cron!MinuteOf(w) \in c.minutes
            <=> Cron!Hits(e.minutes, 0, MinutesPerHour - 1, Cron!MinuteOf(w))
      /\ Cron!HourOf(w) \in c.hours
            <=> Cron!Hits(e.hours, 0, HoursPerDay - 1, Cron!HourOf(w))
      /\ Cron!DayOf(w) \in c.days <=> Cron!Hits(e.days, 1, LongestMonth, Cron!DayOf(w))
      /\ Cron!MonthOf(w) \in c.months
            <=> Cron!Hits(e.months, 1, Len(MonthLengths), Cron!MonthOf(w))
  BY <1>1, <1>2, <1>3, FieldsHit, CronNumbers DEF Cron!Parse
<1>5. Cron!WeekdayOf(w) \in 0..WeekLength - 1
  <2>1. MinutesPerHour * HoursPerDay \in Nat /\ MinutesPerHour * HoursPerDay > 0
    BY CronNumbers
  <2>2. Cron!DayNumber(w) \in Int  BY <2>1 DEF Cron!DayNumber
  <2>3. QED  BY <2>2, CronNumbers DEF Cron!WeekdayOf
<1>6. Cron!WeekdayOf(w) \in c.weekdays
        <=> \E v \in {Cron!WeekdayOf(w), Cron!WeekdayOf(w) + WeekLength} :
              Cron!Hits(e.weekdays, 0, WeekLength, v)
  BY <1>1, <1>3, <1>5, WeekdaysHit DEF Cron!Parse
<1>7. /\ c.anyDay <=> ~Cron!Restricted(e.days)
      /\ c.anyWeekday <=> ~Cron!Restricted(e.weekdays)
  BY DEF Cron!Parse, Cron!Restricted
<1> HIDE DEF c
<1> DEFINE day == Cron!Hits(e.days, 1, LongestMonth, Cron!DayOf(w))
           weekday == \E v \in {Cron!WeekdayOf(w), Cron!WeekdayOf(w) + WeekLength} :
                        Cron!Hits(e.weekdays, 0, WeekLength, v)
           either ==
              /\ Cron!Restricted(e.days) /\ Cron!Restricted(e.weekdays) => day \/ weekday
              /\ Cron!Restricted(e.days) /\ ~Cron!Restricted(e.weekdays) => day
              /\ ~Cron!Restricted(e.days) /\ Cron!Restricted(e.weekdays) => weekday
<1>8. Cron!Matches(c, w) <=>
        /\ Cron!Hits(e.minutes, 0, MinutesPerHour - 1, Cron!MinuteOf(w))
        /\ Cron!Hits(e.hours, 0, HoursPerDay - 1, Cron!HourOf(w))
        /\ Cron!Hits(e.months, 1, Len(MonthLengths), Cron!MonthOf(w))
        /\ Cron!DayMatches(c, w)
  BY <1>4 DEF Cron!Matches
<1>9. Cron!Meant(e, w) <=>
        /\ Cron!Hits(e.minutes, 0, MinutesPerHour - 1, Cron!MinuteOf(w))
        /\ Cron!Hits(e.hours, 0, HoursPerDay - 1, Cron!HourOf(w))
        /\ Cron!Hits(e.months, 1, Len(MonthLengths), Cron!MonthOf(w))
        /\ either
  BY DEF Cron!Meant
<1>10. (Cron!DayOf(w) \in c.days <=> day) /\ (Cron!WeekdayOf(w) \in c.weekdays <=> weekday)
  BY <1>4, <1>6
<1> HIDE DEF day, weekday
<1>11. Cron!DayMatches(c, w) <=> either
  BY <1>7, <1>10 DEF Cron!DayMatches
<1> HIDE DEF either
<1>12. QED  BY <1>8, <1>9, <1>11 DEF c

\* While the loop sleeps, no minute that matches lies between the one it
\* computed its sleep in and the one it wakes in.
CronInv ==
    /\ cUtc \in Nat /\ cExpression \in Expressions
    /\ cPc \in {"plan", "sleep", "run"} =>
          Cron!Accepted(cExpression) /\ cCron = Cron!Parse(cExpression)
    /\ cPc \in {"sleep", "run"} => cWakeAt \in Nat /\ Cron!Matches(cCron, cWakeAt)
    /\ cPc = "sleep" =>
          /\ cSlept \in Nat /\ cUtc <= cWakeAt
          /\ \A t \in (cSlept + 1)..(cWakeAt - 1) : ~Cron!Matches(cCron, t)

LEMMA PlansKeeps == ASSUME NoShift, CronInv, Cron!Plans PROVE CronInv'
<1> USE DEF CronInv
<1> DEFINE candidates == Cron!Candidates(cCron, cUtc)
<1>1. Cron!Wall(cUtc) = cUtc  BY DEF Cron!Wall, NoShift
<1>2. /\ cPc = "plan" /\ cPc' = "sleep" /\ cSlept' = cUtc
      /\ UNCHANGED <<cUtc, cExpression, cCron>>
      /\ candidates # {} /\ cWakeAt' = cUtc + (Cron!Min(candidates) - cUtc)
  BY <1>1 DEF Cron!Plans
<1>3. candidates = {w \in (cUtc + 1)..(cUtc + Horizon) : Cron!Matches(cCron, w)}
  BY DEF Cron!Candidates
<1> HIDE DEF candidates
<1>4. candidates \subseteq Nat  BY <1>3, CronNumbers
<1>5. Cron!Min(candidates) \in candidates
      /\ \A w \in candidates : Cron!Min(candidates) <= w
  BY <1>2, <1>4, Earliest
<1>6. /\ cWakeAt' = Cron!Min(candidates) /\ cWakeAt' \in Nat
      /\ cWakeAt' \in (cUtc + 1)..(cUtc + Horizon) /\ Cron!Matches(cCron, cWakeAt')
  BY <1>2, <1>3, <1>4, <1>5
<1>7. ASSUME NEW t \in (cUtc + 1)..(cWakeAt' - 1) PROVE ~Cron!Matches(cCron, t)
  <2>1. t \in (cUtc + 1)..(cUtc + Horizon) /\ t < cWakeAt'
    BY <1>6, <1>7, CronNumbers
  <2>2. t \notin candidates  BY <1>4, <1>5, <1>6, <2>1
  <2>3. QED  BY <1>3, <2>1, <2>2
<1>8. QED
  BY <1>2, <1>6, <1>7 DEF Cron!Matches, Cron!DayMatches, Cron!Accepted, Cron!Parse

LEMMA CronKeeps == ASSUME NoShift, CronInv, [Cron!Next]_cronVars PROVE CronInv'
<1> USE DEF CronInv
<1>1. CASE Cron!Rejects  BY <1>1 DEF Cron!Rejects
<1>2. CASE Cron!Loads  BY <1>2 DEF Cron!Loads
<1>3. CASE Cron!Plans  BY <1>3, PlansKeeps
<1>4. CASE Cron!FindsNothing  BY <1>4 DEF Cron!FindsNothing
<1>5. CASE Cron!Wakes  BY <1>5 DEF Cron!Wakes
<1>6. CASE Cron!RunEnds  BY <1>6 DEF Cron!RunEnds
<1>7. CASE Cron!Tick  BY <1>7 DEF Cron!Tick
<1>8. CASE UNCHANGED cronVars  BY <1>8 DEF cronVars
<1>9. QED  BY <1>1, <1>2, <1>3, <1>4, <1>5, <1>6, <1>7, <1>8 DEF Cron!Next

\* The loop has parsed nothing before it starts.
LEMMA CronStarts == ASSUME NoShift, Cron!Init PROVE CronInv
BY CronNumbers DEF Cron!Init, CronInv
LEMMA CronInvAlways == NoShift => (SuiteSpec => []CronInv)
<1> SUFFICES ASSUME NoShift PROVE SuiteSpec => []CronInv  OBVIOUS
<1>1. SuiteInit => CronInv  BY CronStarts DEF SuiteInit
<1>2. CronInv /\ [SuiteNext]_<<part, runVars, jobsVars, cronVars, snapVars>> => CronInv'
  <2> SUFFICES ASSUME CronInv, [SuiteNext]_<<part, runVars, jobsVars, cronVars, snapVars>>
               PROVE  CronInv'
    OBVIOUS
  <2>1. [Cron!Next]_cronVars
    BY DEF SuiteNext, RunSuite, JobsSuite, CronSuite, SnapshotSuite
  <2>2. QED  BY <2>1, CronKeeps
<1>3. QED  BY <1>1, <1>2, PTL DEF SuiteSpec

(* A job starts only in minutes its expression names, as long as the clock of
   its zone is not changed (_run_cron_loop, next_cron_run). *)
THEOREM CronRunsAtItsTimes == NoShift => (SuiteSpec => []RunsAtItsTimes)
<1> SUFFICES ASSUME NoShift PROVE SuiteSpec => []RunsAtItsTimes  OBVIOUS
<1>1. CronInv => RunsAtItsTimes
  <2> SUFFICES ASSUME CronInv, cPc = "run", cUtc = cWakeAt
               PROVE  Cron!Meant(cExpression, Cron!Wall(cUtc))
    BY DEF RunsAtItsTimes, Cron!RunsAtItsTimes
  <2>1. Cron!Wall(cUtc) = cUtc  BY DEF Cron!Wall, NoShift, CronInv
  <2>2. QED  BY <2>1, ParsedIsMeant DEF CronInv
<1>2. QED  BY <1>1, CronInvAlways, PTL

(* No minute the expression names passes while the loop sleeps, under the same
   condition (_run_cron_loop). *)
THEOREM CronSkipsNoMinute == NoShift => (SuiteSpec => []NoMinuteSleptThrough)
<1> SUFFICES ASSUME NoShift PROVE SuiteSpec => []NoMinuteSleptThrough  OBVIOUS
<1>1. CronInv => NoMinuteSleptThrough
  <2> SUFFICES ASSUME CronInv, cPc = "sleep", NEW t \in (cSlept + 1)..(cUtc - 1)
               PROVE  ~Cron!Meant(cExpression, Cron!Wall(t))
    BY DEF NoMinuteSleptThrough, Cron!NoMinuteSleptThrough
  <2>1. t \in Nat /\ t \in (cSlept + 1)..(cWakeAt - 1)  BY DEF CronInv
  <2>2. Cron!Wall(t) = t  BY <2>1 DEF Cron!Wall, NoShift
  <2>3. QED  BY <2>1, <2>2, ParsedIsMeant DEF CronInv
<1>2. QED  BY <1>1, CronInvAlways, PTL

-----------------------------------------------------------------------------
\* What the parts keep, whatever the clock does.

\* The earliest of some times after a given one
LEMMA EarliestAfter ==
    ASSUME NEW a \in Int, NEW S, S # {}, \A x \in S : x \in Int /\ x > a
    PROVE  Cron!Min(S) \in Int /\ Cron!Min(S) > a
<1> DEFINE T == {x - a : x \in S}
<1>1. T \subseteq Nat /\ T # {}  OBVIOUS
<1>2. Cron!Min(T) \in T /\ \A y \in T : Cron!Min(T) <= y
  <2> HIDE DEF T
  <2>1. QED  BY <1>1, Earliest
<1>3. PICK x \in S : x - a = Cron!Min(T)  BY <1>2
<1>4. \A y \in S : x <= y
  <2> SUFFICES ASSUME NEW y \in S PROVE x <= y  OBVIOUS
  <2>1. y - a \in T  OBVIOUS
  <2>2. x - a <= y - a  BY <1>2, <1>3, <2>1
  <2>3. QED  BY <2>2
<1>5. Cron!Min(S) \in S  BY <1>3, <1>4 DEF Cron!Min
<1>6. QED  BY <1>5

LEMMA WeekdaysBound ==
    ASSUME NEW e \in Expressions PROVE Cron!Parse(e).weekdays \subseteq 0..(WeekLength - 1)
<1>1. \A v \in Int : v % WeekLength \in 0..(WeekLength - 1)  BY CronNumbers
<1>2. Cron!Parse(e).weekdays = Cron!ParseWeekdays(e.weekdays)  BY DEF Cron!Parse
<1>3. e.weekdays \subseteq Cron!Token  BY CronNumbers
<1>4. \A v \in Cron!ParseField(e.weekdays, 0, WeekLength) : v \in Int
  BY <1>3, CronNumbers DEF Cron!ParseField, Cron!Low, Cron!High, Cron!Token
<1>5. QED  BY <1>1, <1>2, <1>4 DEF Cron!ParseWeekdays

LEMMA CronTyped ==
    ASSUME Cron!TypeOK, [Cron!Next]_cronVars PROVE Cron!TypeOK'
<1> USE DEF Cron!TypeOK
<1>1. CASE Cron!Rejects  BY <1>1 DEF Cron!Rejects
<1>2. CASE Cron!Loads  BY <1>2, WeekdaysBound DEF Cron!Loads
<1>3. CASE Cron!Plans
  <2> DEFINE candidates == Cron!Candidates(cCron, Cron!Wall(cUtc))
  <2>1. /\ candidates # {} /\ cWakeAt' = cUtc + (Cron!Min(candidates) - Cron!Wall(cUtc))
        /\ cSlept' = cUtc /\ cPc' = "sleep" /\ UNCHANGED <<cUtc, cExpression, cCron>>
    BY <1>3 DEF Cron!Plans
  <2>2. Cron!Wall(cUtc) \in Int /\ Horizon \in Nat
    BY PartsAssumption DEF Cron!Wall, Cron!CalendarAssumption
  <2>3. \A x \in candidates : x \in Int /\ x > Cron!Wall(cUtc)
    BY <2>2 DEF Cron!Candidates
  <2> HIDE DEF candidates
  <2>4. Cron!Min(candidates) \in Int /\ Cron!Min(candidates) > Cron!Wall(cUtc)
    BY <2>1, <2>2, <2>3, EarliestAfter
  <2>5. cWakeAt' \in Nat  BY <2>1, <2>2, <2>4
  <2>6. QED  BY <2>1, <2>5
<1>4. CASE Cron!FindsNothing  BY <1>4 DEF Cron!FindsNothing
<1>5. CASE Cron!Wakes  BY <1>5 DEF Cron!Wakes
<1>6. CASE Cron!RunEnds  BY <1>6 DEF Cron!RunEnds
<1>7. CASE Cron!Tick  BY <1>7, CronNumbers DEF Cron!Tick
<1>8. CASE UNCHANGED cronVars  BY <1>8 DEF cronVars
<1>9. QED  BY <1>1, <1>2, <1>3, <1>4, <1>5, <1>6, <1>7, <1>8 DEF Cron!Next

LEMMA CronTypedFirst == Cron!Init => Cron!TypeOK
BY CronNumbers DEF Cron!Init, Cron!TypeOK, Cron!NoCron

\* The run of a job, in this suite (SchedulerRunProofs)
LEMMA RunInvAlways == SuiteSpec => []Inv
<1>1. SuiteInit => Inv  BY InitInv DEF SuiteInit
<1>2. Inv /\ [SuiteNext]_<<part, runVars, jobsVars, cronVars, snapVars>> => Inv'
  <2> SUFFICES ASSUME Inv, [SuiteNext]_<<part, runVars, jobsVars, cronVars, snapVars>>
               PROVE  Inv'
    OBVIOUS
  <2>1. [Next]_vars
    BY DEF SuiteNext, RunSuite, JobsSuite, CronSuite, SnapshotSuite, runVars, vars
  <2>2. QED  BY <2>1, NextInv
<1>3. QED  BY <1>1, <1>2, PTL DEF SuiteSpec

(* Every part of the scheduler process keeps its types, with summer time and
   in either mode too. *)
THEOREM SchedulingTyped == SuiteSpec => []TypesOK
<1>1. SuiteInit => Cron!TypeOK  BY CronTypedFirst DEF SuiteInit
<1>2. Cron!TypeOK /\ [SuiteNext]_<<part, runVars, jobsVars, cronVars, snapVars>>
        => Cron!TypeOK'
  <2> SUFFICES ASSUME Cron!TypeOK,
                      [SuiteNext]_<<part, runVars, jobsVars, cronVars, snapVars>>
               PROVE  Cron!TypeOK'
    OBVIOUS
  <2>1. [Cron!Next]_cronVars
    BY DEF SuiteNext, RunSuite, JobsSuite, CronSuite, SnapshotSuite
  <2>2. QED  BY <2>1, CronTyped
<1>3. Inv => TypeOK  BY DEF Inv, RunInv
<1>4. JobsInv => Jobs!TypeOK  BY DEF JobsInv
<1>5. SnapInv => Snapshot!TypeOK  BY DEF SnapInv
<1>6. QED
  BY <1>1, <1>2, <1>3, <1>4, <1>5, RunInvAlways, JobsInvAlways, SnapInvAlways, PTL
  DEF SuiteSpec, TypesOK
===============================================================================
