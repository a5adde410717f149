------------------------------ MODULE MCBilling ------------------------------
(* Instances of Billing for TLC.                                           *)
EXTENDS Billing, TLC
CONSTANTS r1, r2, s1, s2, w1, f1, p1, p2, h1, h2
=============================================================================
