---------------------------- MODULE MCEmergencyStop ----------------------------
(* Small instances of EmergencyStop for TLC.                               *)
EXTENDS EmergencyStop, TLC

CONSTANTS h1, h2, o1, t1, t2

\* A swap that needs approval, whose quote may run out.
MCSwap == {[authority |-> "APPROVAL_REQUIRED", checks |-> "OK", expiry |-> "LIVE"]}

Symmetry ==
    Permutations(Handlers) \cup Permutations(Observers) \cup Permutations(PromptTokens)
=============================================================================
