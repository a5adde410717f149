-------------------------- MODULE MCServicePayments --------------------------
(* ServicePayments on a small instance.                                    *)
EXTENDS ServicePayments, TLC

Symmetry == Permutations(Runtimes) \cup Permutations(Requests)
=============================================================================
