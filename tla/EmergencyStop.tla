----------------------------- MODULE EmergencyStop -----------------------------
(***************************************************************************)
(* Execution under the emergency stop of packages/security/src/index.ts.   *)
(*                                                                         *)
(* The stop is one transaction at READ COMMITTED over rows of Execution.   *)
(* Its first statement stops the open wallet prompts and holds their rows; *)
(* the action is read and locked only afterwards, and what other requests  *)
(* committed in between is seen.                                           *)
(***************************************************************************)
EXTENDS Execution

VARIABLES
    stop,      \* the stop in progress and the attempts whose rows it holds
    stopped    \* history: the current revisions of the action when stopped

stopvars == <<vars, stop, stopped>>

NotStopping == [running |-> FALSE, held |-> {}]

StopTypeOK ==
    /\ TypeOK
    /\ stop \in [running : {TRUE}, held : SUBSET Revisions] \cup {NotStopping}
    /\ stopped \subseteq Revisions

StopInit ==
    /\ Init
    /\ stop = NotStopping
    /\ stopped = {}

Stoppable(r) == attempt[r].status = "WALLET_PROMPTED"

StopBegin ==
    /\ stop = NotStopping
    /\ stop' = [running |-> TRUE, held |-> {r \in Revisions : Stoppable(r)}]
    /\ UNCHANGED <<vars, stopped>>

Cancellable == {"DRAFT", "PREPARED", "APPROVAL_REQUIRED", "READY_FOR_EXECUTION"}
Protected   == Observable \cup {"CONFIRMED"}

\* Slip: the action goes back to its review.
StoppedStatusSlip == "APPROVAL_REQUIRED"

StoppedStatus == "REJECTED"

\* stopLockedAction: an action with a submission, or one in doubt, is spared.
Stops == status \in Cancellable /\ \A r \in Revisions : attempt[r].status \notin Protected

\* The rest of the transaction.  The prompt token is not cleared.  The update
\* of the approvals waits for a preparation that holds them.
StopCommit ==
    /\ stop.running
    /\ Stops => \A h \in Handlers : LockedBy(h) \cap Approved = {}
    /\ attempt' = [r \in Revisions |->
                     IF r \in stop.held
                     THEN [attempt[r] EXCEPT !.status = "PRE_SUBMISSION_FAILED"]
                     ELSE attempt[r]]
    /\ older' = [r \in Revisions |->
                   IF r \in stop.held THEN Others \cup (Revisions \ {r}) ELSE older[r] \ stop.held]
    /\ status' = IF Stops THEN StoppedStatus ELSE status
    /\ approval' = [r \in Revisions |->
                      IF Stops /\ approval[r] = "APPROVED" THEN "INVALIDATED" ELSE approval[r]]
    /\ stopped' = IF Stops THEN stopped \cup ({current_revision} \cap Revisions) ELSE stopped
    /\ stop' = NotStopping
    /\ UNCHANGED <<current_revision, prepared, prompt, handler, observer>>

\* An exception, a restart, or a deadlock with a start or a preparation, which
\* take the same rows in the other order.
StopFails ==
    /\ stop.running
    /\ stop' = NotStopping
    /\ UNCHANGED <<vars, stopped>>

\* Nobody else writes a row the stop holds.
HeldRowsWait == \A r \in stop.held : attempt'[r] = attempt[r]

StopNext ==
    \/ StopBegin \/ StopCommit \/ StopFails
    \/ Next /\ HeldRowsWait /\ UNCHANGED <<stop, stopped>>

StopSpec == StopInit /\ [][StopNext]_stopvars

-----------------------------------------------------------------------------
\* "Stale Action Review state cannot resurrect a stopped action"
\* (docs/MILESTONE-13.md:24), for the wallet: a revision that was current when
\* the action was stopped is not handed to the wallet afterwards, neither by a
\* start that passed its gates before the stop nor by an approval given later.
StoppedIsNotPrompted ==
    [][\A r \in stopped : attempt'[r].status = "WALLET_PROMPTED" =>
         attempt[r].status = "WALLET_PROMPTED" /\ attempt'[r].token = attempt[r].token]_stopvars
=============================================================================
