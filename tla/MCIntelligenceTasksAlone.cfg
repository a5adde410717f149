SPECIFICATION FairSpec
CONSTANTS
    w1 = w1
    w2 = w2
    a1 = a1
    a2 = a2
    NumTasks = 2
    Replicas = {w1}
    Scope <- MCScope
    JobOf <- MCFollowUp
    Specialists = {a1}
    MaxAttempts = 2
    MaxCalls = 3
PROPERTY TeamReportsCheckpoint
PROPERTY OwnJobIsNotRepeated
PROPERTY EveryTaskEnds
\* Every task may have ended: the queue comes to rest.
CHECK_DEADLOCK FALSE
