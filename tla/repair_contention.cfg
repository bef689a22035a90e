SPECIFICATION ContentionSpec
CONSTANTS
    Jobs = {j1}
    SchedulerRuns = {s1, s2}
    ApiRuns = {q1}
    Tokens = {t1, t2, t3, t4}
    NoJob = NoJob
    NoToken = NoToken
    MaxLimit = 2
SYMMETRY Symmetry
INVARIANTS
    TypeOK
    CompleteMeansRepaired
PROPERTIES
    LeaseRespected
    RepairsAreBounded
