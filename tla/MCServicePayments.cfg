\* Prices of a cent, of a cent and a half, and one above the limit of a call; the
\* budget of the job pays two calls at the lowest, and one at the other.
CONSTANTS
    NULL = NULL
    Runtimes = {r1, r2}
    Requests = {q1, q2}
    Amounts = {2, 3, 4}
    MaxCallAtomic = 3
    MaxJobAtomic = 4
    MaxCallsPerJob = 2
    Cent = 2
    Thresholds = {0, 1}
SPECIFICATION Spec
SYMMETRY Symmetry
INVARIANTS
    NeverPaidTwice
    JobBudgetKept
    PaidAsReviewed
    LedgerAccounts
CHECK_DEADLOCK FALSE
