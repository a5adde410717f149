----------------------------- MODULE Settlement -----------------------------
(***************************************************************************)
(* Settlement verification (packages/verification/src/index.ts): workers   *)
(* claim confirmed transfers under a lease, read the chain themselves, and *)
(* record an immutable outcome, a receipt and the status of the job.       *)
(*                                                                         *)
(* A verified_receipt and a proof_anchor_queue row are inserted with every *)
(* VERIFIED outcome and by nothing else: the outcome stands for the three. *)
(***************************************************************************)
EXTENDS Naturals, Sequences

CONSTANTS
    Attempts,       \* transfers handed to the wallet under a valid approval
    Jobs,           \* the jobs they belong to
    Verifiers,      \* replicas of the worker's settlementVerificationLoop
    JobOf,          \* financial_action.job_id, by attempt
    Satisfying,     \* attempts whose transaction did what was authorised
    NULL            \* a NULL column

ASSUME JobOfAssumption == JobOf \in [Attempts -> Jobs \cup {NULL}]
ASSUME SatisfyingAssumption == Satisfying \subseteq Attempts
ASSUME NullAssumption == NULL \notin Attempts \cup Jobs

VARIABLES
    confirmed,    \* CONFIRMED attempts, in the order of confirmed_at
    approval,     \* action_approval.decision, by attempt
    observation,  \* settlement_observation, by attempt
    outcome,      \* verified_outcome.status, by attempt
    job,          \* job.status
    verifier      \* the candidate a verifier works on

vars == <<confirmed, approval, observation, outcome, job, verifier>>

Verdicts == {"VERIFIED", "NOT_VERIFIED"}

\* waiting: lease_until or next_check_at lies in the future.  No two of a
\* claim, a retry and an outcome leave both columns set.
NoObservation == [status |-> "NONE", waiting |-> FALSE, evidence |-> "NONE"]

IdleVerifier == [stage |-> "IDLE", attempt |-> NULL, approved |-> FALSE, verdict |-> "NONE"]

BusyVerifiers ==
    [stage : {"CLAIMED", "DECIDED", "FAILED"}, attempt : Attempts, approved : BOOLEAN,
     verdict : Verdicts \cup {"NONE"}]

ObservationRows ==
    [status : Verdicts \cup {"NONE", "VERIFYING", "UNKNOWN"}, waiting : BOOLEAN,
     evidence : Verdicts \cup {"NONE"}]

TypeOK ==
    /\ confirmed \in Seq(Attempts)
    /\ approval \in [Attempts -> {"APPROVED", "INVALIDATED", "REJECTED"}]
    /\ observation \in [Attempts -> ObservationRows]
    /\ outcome \in [Attempts -> Verdicts \cup {"NONE"}]
    /\ job \in [Jobs -> {"ACTIVE", "VERIFYING", "COMPLETED", "FAILED_FINAL"}]
    /\ verifier \in [Verifiers -> BusyVerifiers \cup {IdleVerifier}]

Init ==
    /\ confirmed = <<>>
    /\ approval = [a \in Attempts |-> "APPROVED"]
    /\ observation = [a \in Attempts |-> NoObservation]
    /\ outcome = [a \in Attempts |-> "NONE"]
    /\ job = [j \in Jobs |-> "ACTIVE"]
    /\ verifier = [v \in Verifiers |-> IdleVerifier]

-----------------------------------------------------------------------------
(* What packages/execution does to the rows a verifier reads               *)

Confirmed(a) == \E i \in 1 .. Len(confirmed) : confirmed[i] = a

Confirm(a) ==
    /\ ~Confirmed(a)
    /\ confirmed' = Append(confirmed, a)
    /\ UNCHANGED <<approval, observation, outcome, job, verifier>>

\* The user may reject until the transaction is submitted, a preparation that
\* began before the prompt may invalidate at any time (module Execution).
WithdrawApproval(a, decision) ==
    /\ approval[a] = "APPROVED"
    /\ decision = "REJECTED" => ~Confirmed(a)
    /\ approval' = [approval EXCEPT ![a] = decision]
    /\ UNCHANGED <<confirmed, observation, outcome, job, verifier>>

\* A lease or a retry delay runs out.
TimePasses(a) ==
    /\ observation[a].waiting
    /\ observation' = [observation EXCEPT ![a].waiting = FALSE]
    /\ UNCHANGED <<confirmed, approval, outcome, job, verifier>>

-----------------------------------------------------------------------------
(* claimNextCandidate                                                      *)

\* Slip: only attempts that came out UNKNOWN are tried again.
ClaimableSlip(a) ==
    /\ outcome[a] = "NONE"
    /\ observation[a].status \in {"NONE", "UNKNOWN"}
    /\ ~observation[a].waiting

Claimable(a) ==
    /\ outcome[a] = "NONE"
    /\ observation[a].status \in {"NONE", "VERIFYING", "UNKNOWN"}
    /\ ~observation[a].waiting

\* The oldest confirmed attempt that is claimable; the candidate keeps the
\* approval's decision as it is now.
Claim(v) ==
    \E i \in 1 .. Len(confirmed) :
        LET a == confirmed[i] IN
        /\ verifier[v] = IdleVerifier
        /\ Claimable(a)
        /\ \A k \in 1 .. i - 1 : ~Claimable(confirmed[k])
        /\ observation' = [observation EXCEPT ![a].status = "VERIFYING", ![a].waiting = TRUE]
        /\ verifier' = [verifier EXCEPT ![v] =
                          [stage |-> "CLAIMED", attempt |-> a,
                           approved |-> approval[a] = "APPROVED", verdict |-> "NONE"]]
        /\ UNCHANGED <<confirmed, approval, outcome, job>>

-----------------------------------------------------------------------------
(* verifyCandidate                                                         *)

\* Slip: the checks on the transaction decide, those on its approval do not.
VerdictSlip(a, approved) == IF a \in Satisfying THEN "VERIFIED" ELSE "NOT_VERIFIED"

\* verificationResult: every check passes, the authorization lineage included.
Verdict(a, approved) ==
    IF a \in Satisfying /\ approved THEN "VERIFIED" ELSE "NOT_VERIFIED"

\* The evidence is read within the providers' timeouts and persisted on the
\* observation, whatever the row says by now.
ReadEvidence(v) ==
    LET a == verifier[v].attempt  verdict == Verdict(a, verifier[v].approved) IN
    /\ verifier[v].stage = "CLAIMED"
    /\ observation' = [observation EXCEPT ![a].evidence = verdict]
    /\ verifier' = [verifier EXCEPT ![v].stage = "DECIDED", ![v].verdict = verdict]
    /\ UNCHANGED <<confirmed, approval, outcome, job>>

\* No provider answers, two contradict each other, or a write fails.
Throws(v) ==
    /\ verifier[v].stage \in {"CLAIMED", "DECIDED"}
    /\ verifier' = [verifier EXCEPT ![v].stage = "FAILED"]
    /\ UNCHANGED <<confirmed, approval, observation, outcome, job>>

\* Slip: nothing refuses a second outcome of an attempt.
OutcomeInsertableSlip(a) == TRUE

\* UNIQUE(owner_user_id, transaction_attempt_id, verification_contract_id).
OutcomeInsertable(a) == outcome[a] = "NONE"

JobStatus(verdict) == IF verdict = "VERIFIED" THEN "COMPLETED" ELSE "FAILED_FINAL"

SetJob(a, status) ==
    IF JobOf[a] = NULL THEN job ELSE [job EXCEPT ![JobOf[a]] = status]

\* finalizeVerified and finalizeNotVerified, one transaction each.
Finalize(v) ==
    LET a == verifier[v].attempt  verdict == verifier[v].verdict IN
    /\ verifier[v].stage = "DECIDED"
    /\ OutcomeInsertable(a)
    /\ observation' = [observation EXCEPT ![a].status = verdict, ![a].waiting = FALSE]
    /\ outcome' = [outcome EXCEPT ![a] = verdict]
    /\ job' = SetJob(a, JobStatus(verdict))
    /\ verifier' = [verifier EXCEPT ![v] = IdleVerifier]
    /\ UNCHANGED <<confirmed, approval>>

\* Slip: the job is updated outside the transaction.
FinalizeConflictsSlip(v) ==
    LET a == verifier[v].attempt IN
    /\ verifier[v].stage = "DECIDED"
    /\ ~OutcomeInsertable(a)
    /\ job' = SetJob(a, JobStatus(verifier[v].verdict))
    /\ verifier' = [verifier EXCEPT ![v].stage = "FAILED"]
    /\ UNCHANGED <<confirmed, approval, observation, outcome>>

\* The insert is refused and the transaction rolls back.
FinalizeConflicts(v) ==
    /\ verifier[v].stage = "DECIDED"
    /\ ~OutcomeInsertable(verifier[v].attempt)
    /\ verifier' = [verifier EXCEPT ![v].stage = "FAILED"]
    /\ UNCHANGED <<confirmed, approval, observation, outcome, job>>

\* Both UPDATEs go by id alone.
MarkUnknown(v) ==
    LET a == verifier[v].attempt IN
    /\ verifier[v].stage = "FAILED"
    /\ observation' = [observation EXCEPT ![a].status = "UNKNOWN", ![a].waiting = TRUE]
    /\ job' = SetJob(a, "VERIFYING")
    /\ verifier' = [verifier EXCEPT ![v] = IdleVerifier]
    /\ UNCHANGED <<confirmed, approval, outcome>>

\* The worker restarts, or the database refuses markUnknown too.
Crash(v) ==
    /\ verifier[v] # IdleVerifier
    /\ verifier' = [verifier EXCEPT ![v] = IdleVerifier]
    /\ UNCHANGED <<confirmed, approval, observation, outcome, job>>

-----------------------------------------------------------------------------
AttemptStep(a) ==
    \/ Confirm(a) \/ TimePasses(a)
    \/ \E decision \in {"INVALIDATED", "REJECTED"} : WithdrawApproval(a, decision)

VerifierStep(v) ==
    \/ Claim(v) \/ ReadEvidence(v) \/ Throws(v) \/ Finalize(v)
    \/ FinalizeConflicts(v) \/ MarkUnknown(v) \/ Crash(v)

Next == (\E a \in Attempts : AttemptStep(a)) \/ (\E v \in Verifiers : VerifierStep(v))

Spec == Init /\ [][Next]_vars

\* The loop polls forever, and for no attempt do the providers fail or the
\* worker restart every single time.
Fairness ==
    /\ \A a \in Attempts : WF_vars(TimePasses(a))
    /\ \A v \in Verifiers :
         /\ SF_vars(Claim(v))
         /\ WF_vars(FinalizeConflicts(v) \/ MarkUnknown(v))
         /\ \A a \in Attempts :
              /\ SF_vars(verifier[v].attempt = a /\ ReadEvidence(v))
              /\ SF_vars(verifier[v].attempt = a /\ Finalize(v))

FairSpec == Spec /\ Fairness

-----------------------------------------------------------------------------
(* Properties                                                              *)

\* A recorded outcome, and so the receipt issued with it, is never replaced by
\* that of another verifier whose lease on the attempt had run out
\* (finalizeVerified, finalizeNotVerified, the triggers of migration 0015).
OutcomeIsFinal ==
    [][\A a \in Attempts : outcome[a] # "NONE" => outcome'[a] = outcome[a]]_vars

\* A receipt exists only for a confirmed transaction that did what was
\* authorised, and never for one the user rejected before it was submitted,
\* however many verifiers looked at it and when (verificationResult).
ReceiptsAreEarned ==
    \A a \in Attempts : outcome[a] = "VERIFIED" =>
        a \in Satisfying /\ Confirmed(a) /\ approval[a] # "REJECTED"

\* docs/MILESTONE-10.md:74: a job shows "Completed - AgentPlace Verified" only
\* with a VERIFIED outcome of one of its attempts, "Outcome not verified" only
\* with a NOT_VERIFIED one, whatever retries and rival verifiers write.
JobShowsOutcome ==
    \A j \in Jobs :
        /\ job[j] = "COMPLETED" =>
             \E a \in Attempts : JobOf[a] = j /\ outcome[a] = "VERIFIED"
        /\ job[j] = "FAILED_FINAL" =>
             \E a \in Attempts : JobOf[a] = j /\ outcome[a] = "NOT_VERIFIED"

\* Every confirmed transfer gets its outcome, across restarts in the middle of
\* a verification, provider outages and lost races.
ConfirmedIsDecided ==
    \A a \in Attempts : Confirmed(a) ~> outcome[a] # "NONE"

\* docs/MILESTONE-10.md:71: UNKNOWN says that the evidence is insufficient and
\* will be looked at again, so not that an outcome has been recorded.
UnknownIsUndecided ==
    \A a \in Attempts : observation[a].status = "UNKNOWN" => outcome[a] = "NONE"
=============================================================================
