----------------------------- MODULE MCExecution -----------------------------
(* Small instances of Execution for TLC.                                   *)
EXTENDS Execution, TLC

CONSTANTS h1, h2, o1, o2, t1, t2, t3, x1

\* A transfer that needs approval, one policy allows, a swap policy denies, and
\* one without a quote.  Approved quotes run out in MCEmergencyStop.
MCEvaluations ==
    {[authority |-> "APPROVAL_REQUIRED", checks |-> "OK", expiry |-> "NONE"],
     [authority |-> "ALLOWED", checks |-> "OK", expiry |-> "NONE"],
     [authority |-> "DENIED", checks |-> "OK", expiry |-> "LIVE"],
     [authority |-> "APPROVAL_REQUIRED", checks |-> "NO_QUOTE", expiry |-> "NONE"]}

\* A transfer that needs approval: for runs about prompts and observation.
MCTransfer == {[authority |-> "APPROVAL_REQUIRED", checks |-> "OK", expiry |-> "NONE"]}

Symmetry ==
    Permutations(Handlers) \cup Permutations(Observers) \cup Permutations(PromptTokens)
=============================================================================
