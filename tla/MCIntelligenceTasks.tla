------------------------ MODULE MCIntelligenceTasks ------------------------
(* Instances of IntelligenceTasks for TLC.                                 *)
EXTENDS IntelligenceTasks, TLC

CONSTANTS w1, w2, a1, a2

\* The first task comes from the Manager's chat, the second is a request in the
\* chat of its job, or a routine's with a job of its own.
MCScope == [t \in Tasks |-> IF t = 1 THEN "manager" ELSE "job"]
MCFollowUp == [t \in Tasks |-> 1]
MCOwn == [t \in Tasks |-> t]

Symmetry == Permutations(Replicas)
=============================================================================
