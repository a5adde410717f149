SPECIFICATION FairSpec
CONSTANTS
    r1 = r1
    r2 = r2
    s1 = s1
    s2 = s2
    w1 = w1
    f1 = f1
    p1 = p1
    p2 = p2
    h1 = h1
    h2 = h2
    Requests = {r1, r2}
    Schedulers = {s1, s2}
    Workers = {w1}
    Workflows = {f1}
    Prices = {0, 1}
    Limits = {0, 1}
    Payments = {p1, p2}
    Hashes = {h1}
    Amounts = {2}
    DaysPerMonth = 2
    LastDay = 2
    NULL = NULL
CHECK_DEADLOCK FALSE
INVARIANTS
    NeverOverdrawn
    TopupIsBacked
PROPERTIES
    MonthlyLimitKept
    RenewalIsPaid
    CancelledIsNotRenewed
    DueIsSettled
