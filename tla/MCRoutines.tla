----------------------------- MODULE MCRoutines ------------------------------
(* Instances of Routines for TLC.                                          *)
EXTENDS Routines, TLC

CONSTANTS s1, s2, h1

MCBudget == {[max |-> 1, limit |-> 1]}
MCBudgets == {[max |-> 1, limit |-> 1], [max |-> 2, limit |-> 3]}

Symmetry == Permutations(Schedulers)
=============================================================================
