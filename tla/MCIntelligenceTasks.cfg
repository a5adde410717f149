SPECIFICATION Spec
CONSTANTS
    w1 = w1
    w2 = w2
    a1 = a1
    a2 = a2
    NumTasks = 1
    Replicas = {w1, w2}
    Scope <- MCScope
    JobOf <- MCOwn
    Specialists = {a1, a2}
    MaxAttempts = 2
    MaxCalls = 3
SYMMETRY Symmetry
INVARIANT CompletedHasReport
INVARIANT SupersededSpendsLittle
\* Every task may have ended: the queue comes to rest.
CHECK_DEADLOCK FALSE
