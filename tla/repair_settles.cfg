SPECIFICATION FairSpec
CONSTANTS
    Jobs = {j1}
    SchedulerRuns = {s1}
    ApiRuns = {q1}
    Tokens = {t1, t2, t3}
    NoJob = NoJob
    NoToken = NoToken
    MaxLimit = 1
PROPERTY EventuallySettled
