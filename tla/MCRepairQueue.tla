--------------------------- MODULE MCRepairQueue ---------------------------
EXTENDS RepairQueue, TLC

\* The runs of one process are interchangeable, as are jobs and tokens.
Symmetry == Permutations(Jobs) \cup Permutations(Tokens)
            \cup Permutations(SchedulerRuns) \cup Permutations(ApiRuns)

\* A bound on the instance: only a run that has the queue to itself loops over
\* more than one repair; every run that competes makes one.
LoopsAlone ==
    LET busy == {w \in Runs : run[w].pc # "idle"} IN
    \A w \in busy : run[w].left = 0 \/ busy = {w}

ContentionSpec == Init /\ [][Next /\ LoopsAlone']_vars
=============================================================================
