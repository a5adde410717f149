CONSTANTS
    h1 = h1
    h2 = h2
    o1 = o1
    o2 = o2
    t1 = t1
    x1 = x1
    t2 = t2
    t3 = t3
    Handlers = {h1}
    Observers = {o1,o2}
    PromptTokens = {t1,t2}
    MaxRevision = 1
    Evaluations <- MCTransfer
    Others = {x1}
    Batch = 1
    NULL = NULL
SPECIFICATION FairSpec
CHECK_DEADLOCK FALSE
INVARIANTS
    SettledTruthfully
PROPERTIES
    SettledStaysSettled
    SubmittedIsSettled
    PromptIsResolved
