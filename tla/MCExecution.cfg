CONSTANTS
    h1 = h1
    h2 = h2
    o1 = o1
    o2 = o2
    t1 = t1
    x1 = x1
    t2 = t2
    t3 = t3
    Handlers = {h1,h2}
    Observers = {o1}
    PromptTokens = {t1,t2}
    MaxRevision = 2
    Evaluations <- MCEvaluations
    Others = {}
    Batch = 3
    NULL = NULL
SPECIFICATION Spec
SYMMETRY Symmetry
CHECK_DEADLOCK FALSE
INVARIANTS
    ReadyIsCleared
    DeclinedMeansNothingSubmitted
    PreparationSubmittedOnce
PROPERTIES
    ImplementsExactSubmission
