----------------------------- MODULE MCAuthority -----------------------------
(* Instances of Authority for TLC.                                         *)
EXTENDS Authority, TLC

CONSTANTS m1, m2, h1, e1

Act(limit, end) ==
    [level |-> "ACT_WITHIN_MANDATE", grants |-> {"lend"}, familiar |-> {"lend"}, assetList |-> TRUE,
     capital |-> NULL, perAction |-> limit, budget |-> limit, approval |-> "WITHIN_LIMITS",
     threshold |-> NULL, from |-> 0, until |-> end]

\* An ACT mandate valid for a day, the draft of one without its limits, and one
\* to prepare only.
MCPolicies ==
    {Act(2, 1), Act(NULL, NULL),
     [Act(NULL, NULL) EXCEPT !.level = "PREPARE"]}

MCEnvelopes ==
    {[operation |-> "EXECUTE", needs |-> {"lend"}, value |-> 2, effect |-> "write"]}

Symmetry == Permutations(Mandates)
=============================================================================
