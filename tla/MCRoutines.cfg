SPECIFICATION FairSpec
CONSTANTS
    s1 = s1
    s2 = s2
    h1 = h1
    Schedulers = {s1, s2}
    Handlers = {h1}
    Triggers = {"SCHEDULED", "CONDITION"}
    Cooldown = TRUE
    Budgets <- MCBudget
    Costs = {1}
    MaxFailures = 1
    MaxNow = 1
    MaxEvents = 0
    MaxRuns = 0
    MaxRevision = 1
    MaxCrashes = 1
    NULL = NULL
CHECK_DEADLOCK FALSE
PROPERTIES
    OnlyUserResumes
    ScheduleAdvances
    ConditionIsChecked
    
