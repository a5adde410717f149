SPECIFICATION FairSpec
CONSTANTS
    a1 = a1
    a2 = a2
    j1 = j1
    v1 = v1
    v2 = v2
    NULL = NULL
    Attempts = {a1, a2}
    Jobs = {j1}
    Verifiers = {v1}
    JobOf <- MCOneWithoutJob
    Satisfying = {a1}
PROPERTY ConfirmedIsDecided
\* Every attempt may be decided: the system comes to rest.
CHECK_DEADLOCK FALSE
