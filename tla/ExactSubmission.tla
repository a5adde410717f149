--------------------------- MODULE ExactSubmission ---------------------------
(***************************************************************************)
(* What execution promises about exact preparations, with nothing of how:  *)
(* each may be put to the user's wallet, declined and put again, but once  *)
(* it is spent or signed it is never put again, and it is signed at most   *)
(* once.  docs/MILESTONE-9.md, "Transaction attempt states" and the        *)
(* paragraph on the execution key.                                         *)
(***************************************************************************)
CONSTANTS
    Preparations,   \* exact prepared revisions
    Transactions    \* what a wallet may broadcast

VARIABLES
    phase,    \* of each preparation: IDLE, ASKED, DECLINED or SPENT
    signed    \* the transactions signed for each preparation

evars == <<phase, signed>>

EInit ==
    /\ phase = [p \in Preparations |-> "IDLE"]
    /\ signed = [p \in Preparations |-> {}]

\* The wallet is asked.
Ask(p) ==
    /\ phase[p] \in {"IDLE", "DECLINED"}
    /\ signed[p] = {}
    /\ phase' = [phase EXCEPT ![p] = "ASKED"]
    /\ UNCHANGED signed

\* The wallet refused, and nothing was signed.
Decline(p) ==
    /\ phase[p] = "ASKED"
    /\ signed[p] = {}
    /\ phase' = [phase EXCEPT ![p] = "DECLINED"]
    /\ UNCHANGED signed

\* Submitted, or nobody knows: the preparation is spent.
Spend(p) ==
    /\ phase[p] = "ASKED"
    /\ phase' = [phase EXCEPT ![p] = "SPENT"]
    /\ UNCHANGED signed

\* The user signs, perhaps after the server has given the prompt up.
Sign(p, tx) ==
    /\ phase[p] \in {"ASKED", "SPENT"}
    /\ signed[p] = {}
    /\ signed' = [signed EXCEPT ![p] = {tx}]
    /\ UNCHANGED phase

ENext ==
    \E p \in Preparations :
        Ask(p) \/ Decline(p) \/ Spend(p) \/ \E tx \in Transactions : Sign(p, tx)

ESpec == EInit /\ [][ENext]_evars
=============================================================================
