SPECIFICATION Spec
CONSTANTS
    m1 = m1
    m2 = m2
    h1 = h1
    e1 = e1
    Mandates = {m1, m2}
    Handlers = {h1}
    Evaluators = {e1}
    Policies <- MCPolicies
    Envelopes <- MCEnvelopes
    AccountModes = {"connected", "agent-account"}
    MainnetAutonomyEnabled = TRUE
    MaxRevisions = 2
    MaxDecisions = 2
    LastDay = 1
    NULL = NULL
SYMMETRY Symmetry
CHECK_DEADLOCK FALSE
INVARIANTS
    StandingActIsBounded
    AllowedIsGrounded
    OnlyAgentAccountsAct
PROPERTIES
    UsageWithinBudget
    RevokedStaysRevoked
