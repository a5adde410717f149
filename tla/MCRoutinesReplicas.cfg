SPECIFICATION Spec
CONSTANTS
    s1 = s1
    s2 = s2
    h1 = h1
    Schedulers = {s1, s2}
    Handlers = {h1}
    Triggers = {"EVENT"}
    Cooldown = TRUE
    Budgets <- MCBudgets
    Costs = {2}
    MaxFailures = 2
    MaxNow = 1
    MaxEvents = 1
    MaxRuns = 1
    MaxRevision = 2
    MaxCrashes = 0
    NULL = NULL
SYMMETRY Symmetry
CHECK_DEADLOCK FALSE
INVARIANTS
    HaltedIsNotScheduled
    EventFiresOnce
PROPERTIES
    StartsWithinBudget
