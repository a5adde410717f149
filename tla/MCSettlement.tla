---------------------------- MODULE MCSettlement ----------------------------
(* Instances of Settlement for TLC.                                        *)
EXTENDS Settlement, TLC

CONSTANTS a1, a2, j1, v1, v2

\* Two revisions of one action, or two actions of one job.
MCSharedJob == [a \in Attempts |-> j1]

\* A transfer of a job and one asked for in the chat, without a job.
MCOneWithoutJob == [a \in Attempts |-> IF a = a1 THEN j1 ELSE NULL]

Symmetry == Permutations(Verifiers)
=============================================================================
