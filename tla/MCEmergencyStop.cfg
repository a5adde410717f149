CONSTANTS
    h1 = h1
    h2 = h2
    o1 = o1
    t1 = t1
    t2 = t2
    Handlers = {h1,h2}
    Observers = {}
    PromptTokens = {t1,t2}
    MaxRevision = 2
    Evaluations <- MCSwap
    Others = {}
    Batch = 3
    NULL = NULL
SPECIFICATION StopSpec
SYMMETRY Symmetry
CHECK_DEADLOCK FALSE
PROPERTIES
    StoppedIsNotPrompted
