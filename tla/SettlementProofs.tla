-------------------------- MODULE SettlementProofs --------------------------
(* Proofs about Settlement, for every number of attempts, jobs and          *)
(* verifiers.                                                               *)
EXTENDS Settlement, TLAPS

(***************************************************************************)
(* Type correctness                                                        *)
(***************************************************************************)
LEMMA TypeInit == Init => TypeOK
  BY DEF Init, TypeOK, NoObservation, ObservationRows

LEMMA BusyTyped ==
  ASSUME TypeOK, NEW v \in Verifiers, verifier[v].stage # "IDLE"
  PROVE  verifier[v] \in BusyVerifiers /\ verifier[v].attempt \in Attempts
  BY DEF TypeOK, IdleVerifier, BusyVerifiers

LEMMA TypeNext == TypeOK /\ [Next]_vars => TypeOK'
<1> SUFFICES ASSUME TypeOK, [Next]_vars PROVE TypeOK'
  OBVIOUS
<1> USE DEF TypeOK
<1>1. ASSUME NEW a \in Attempts, AttemptStep(a) PROVE TypeOK'
  <2>1. CASE Confirm(a)
    <3>1. Append(confirmed, a) \in Seq(Attempts)
      OBVIOUS
    <3> QED
      BY <2>1, <3>1 DEF Confirm
  <2>2. CASE TimePasses(a)
    BY <2>2 DEF TimePasses, ObservationRows
  <2>3. ASSUME NEW decision \in {"INVALIDATED", "REJECTED"}, WithdrawApproval(a, decision)
        PROVE TypeOK'
    BY <2>3 DEF WithdrawApproval
  <2> QED
    BY <1>1, <2>1, <2>2, <2>3 DEF AttemptStep
<1>2. ASSUME NEW v \in Verifiers, Claim(v) PROVE TypeOK'
  <2>1. UNCHANGED <<confirmed, approval, outcome, job>>
    BY <1>2 DEF Claim
  <2>2. PICK i \in 1 .. Len(confirmed) :
          /\ observation' = [observation EXCEPT ![confirmed[i]].status = "VERIFYING",
                                                 ![confirmed[i]].waiting = TRUE]
          /\ verifier' = [verifier EXCEPT ![v] =
               [stage |-> "CLAIMED", attempt |-> confirmed[i],
                approved |-> approval[confirmed[i]] = "APPROVED", verdict |-> "NONE"]]
    BY <1>2 DEF Claim
  <2>3. confirmed[i] \in Attempts
    OBVIOUS
  <2>4. observation' \in [Attempts -> ObservationRows]
    BY <2>2, <2>3 DEF ObservationRows
  <2>5. verifier' \in [Verifiers -> BusyVerifiers \cup {IdleVerifier}]
    <3>1. PICK approved \in BOOLEAN :
            verifier' = [verifier EXCEPT ![v] =
              [stage |-> "CLAIMED", attempt |-> confirmed[i], approved |-> approved,
               verdict |-> "NONE"]]
      BY <2>2, Zenon
    <3> QED
      BY <2>3, <3>1 DEF BusyVerifiers
  <2> QED
    BY <2>1, <2>4, <2>5
<1>3. ASSUME NEW v \in Verifiers, ReadEvidence(v) PROVE TypeOK'
  <2> DEFINE a == verifier[v].attempt
             verdict == Verdict(a, verifier[v].approved)
  <2>1. /\ verifier[v] \in BusyVerifiers
        /\ a \in Attempts
        /\ verdict \in Verdicts
    BY <1>3, BusyTyped DEF ReadEvidence, Verdict, Verdicts
  <2>2. [verifier[v] EXCEPT !.stage = "DECIDED", !.verdict = verdict] \in BusyVerifiers
    BY <2>1 DEF BusyVerifiers
  <2>3. [observation[a] EXCEPT !.evidence = verdict] \in ObservationRows
    BY <2>1 DEF ObservationRows
  <2> QED
    BY <1>3, <2>1, <2>2, <2>3 DEF ReadEvidence
<1>4. ASSUME NEW v \in Verifiers, Throws(v) \/ FinalizeConflicts(v) PROVE TypeOK'
  <2>1. verifier[v] \in BusyVerifiers
    BY <1>4, BusyTyped DEF Throws, FinalizeConflicts
  <2>2. [verifier[v] EXCEPT !.stage = "FAILED"] \in BusyVerifiers
    BY <2>1 DEF BusyVerifiers
  <2> QED
    BY <1>4, <2>2 DEF Throws, FinalizeConflicts
<1>5. ASSUME NEW v \in Verifiers, Finalize(v) PROVE TypeOK'
  <2> DEFINE a == verifier[v].attempt
             verdict == verifier[v].verdict
  <2>1. a \in Attempts /\ verdict \in Verdicts \cup {"NONE"}
    BY <1>5, BusyTyped DEF Finalize, BusyVerifiers
  <2>2. observation' \in [Attempts -> ObservationRows]
    <3>1. observation[a] \in ObservationRows
      BY <2>1
    <3> HIDE DEF a, verdict
    <3>2. [observation[a] EXCEPT !.status = verdict, !.waiting = FALSE] \in ObservationRows
      BY <2>1, <3>1 DEF ObservationRows, Verdicts
    <3> QED
      BY <1>5, <2>1, <3>2 DEF Finalize, a, verdict
  <2>3. job' \in [Jobs -> {"ACTIVE", "VERIFYING", "COMPLETED", "FAILED_FINAL"}]
    BY <1>5 DEF Finalize, SetJob, JobStatus
  <2> QED
    BY <1>5, <2>1, <2>2, <2>3 DEF Finalize
<1>6. ASSUME NEW v \in Verifiers, MarkUnknown(v) PROVE TypeOK'
  <2> DEFINE a == verifier[v].attempt
  <2>1. a \in Attempts
    BY <1>6, BusyTyped DEF MarkUnknown
  <2>2. [observation[a] EXCEPT !.status = "UNKNOWN", !.waiting = TRUE] \in ObservationRows
    BY <2>1 DEF ObservationRows
  <2>3. job' \in [Jobs -> {"ACTIVE", "VERIFYING", "COMPLETED", "FAILED_FINAL"}]
    BY <1>6 DEF MarkUnknown, SetJob
  <2> QED
    BY <1>6, <2>1, <2>2, <2>3 DEF MarkUnknown
<1>7. ASSUME NEW v \in Verifiers, Crash(v) PROVE TypeOK'
  BY <1>7 DEF Crash
<1>8. CASE UNCHANGED vars
  BY <1>8 DEF vars
<1> QED
  BY <1>1, <1>2, <1>3, <1>4, <1>5, <1>6, <1>7, <1>8 DEF Next, VerifierStep

\* Every reachable row and verifier local is one the tables and the code's
\* types admit.
THEOREM TypeCorrect == Spec => []TypeOK
  BY TypeInit, TypeNext, PTL DEF Spec

(***************************************************************************)
(* What a verifier holds.                                                  *)
(*                                                                         *)
(* That receipts are earned is not inductive: a verifier decides on the    *)
(* approval as it was when it claimed the attempt, and records the verdict *)
(* much later.  What carries it over is that a held attempt is confirmed,  *)
(* which ends the time in which its approval can be rejected, and that the *)
(* verdict is the one that follows from what was claimed.                  *)
(***************************************************************************)
VerifierInv ==
    \A v \in Verifiers :
        LET a == verifier[v].attempt IN
        /\ verifier[v].stage \in {"CLAIMED", "DECIDED"} =>
             /\ Confirmed(a)
             /\ verifier[v].approved => approval[a] # "REJECTED"
        /\ verifier[v].stage = "DECIDED" =>
             verifier[v].verdict = Verdict(a, verifier[v].approved)

ReceiptInv == VerifierInv /\ ReceiptsAreEarned

LEMMA ReceiptInit == Init => ReceiptInv
  BY DEF Init, ReceiptInv, VerifierInv, ReceiptsAreEarned, IdleVerifier

LEMMA ConfirmedStays ==
  ASSUME TypeOK, [Next]_vars, NEW a \in Attempts, Confirmed(a)
  PROVE  Confirmed(a)'
<1>1. ASSUME NEW b \in Attempts, Confirm(b) PROVE Confirmed(a)'
  <2>1. PICK i \in 1 .. Len(confirmed) : confirmed[i] = a
    BY DEF Confirmed
  <2>2. i \in 1 .. Len(confirmed') /\ confirmed'[i] = confirmed[i]
    BY <1>1, <2>1 DEF Confirm, TypeOK
  <2> QED
    BY <2>1, <2>2 DEF Confirmed
<1>2. CASE UNCHANGED confirmed
  BY <1>2 DEF Confirmed
<1> QED
  BY <1>1, <1>2
  DEF Next, vars, AttemptStep, VerifierStep, TimePasses, WithdrawApproval, Claim,
      ReadEvidence, Throws, Finalize, FinalizeConflicts, MarkUnknown, Crash

LEMMA ReceiptNext == TypeOK /\ ReceiptInv /\ [Next]_vars => ReceiptInv'
<1> SUFFICES ASSUME TypeOK, ReceiptInv, [Next]_vars PROVE ReceiptInv'
  OBVIOUS
<1>1. \A a \in Attempts : Confirmed(a) => Confirmed(a)'
  BY ConfirmedStays
<1>2. ASSUME NEW a \in Attempts, Confirm(a) \/ TimePasses(a) PROVE ReceiptInv'
  <2>1. UNCHANGED <<approval, outcome, verifier>>
    BY <1>2 DEF Confirm, TimePasses
  <2>2. \A v \in Verifiers : verifier[v].stage # "IDLE" => verifier[v].attempt \in Attempts
    BY BusyTyped
  <2> QED
    BY <1>1, <2>1, <2>2 DEF ReceiptInv, VerifierInv, ReceiptsAreEarned, Verdict
<1>3. ASSUME NEW a \in Attempts, NEW decision \in {"INVALIDATED", "REJECTED"},
             WithdrawApproval(a, decision)
      PROVE ReceiptInv'
  <2>1. UNCHANGED <<confirmed, outcome, verifier>>
    BY <1>3 DEF WithdrawApproval
  <2>2. \A b \in Attempts :
          Confirmed(b) /\ approval[b] # "REJECTED" => approval'[b] # "REJECTED"
    BY <1>3 DEF WithdrawApproval, TypeOK
  <2>3. \A v \in Verifiers : verifier[v].stage # "IDLE" => verifier[v].attempt \in Attempts
    BY BusyTyped
  <2> QED
    BY <1>1, <2>1, <2>2, <2>3 DEF ReceiptInv, VerifierInv, ReceiptsAreEarned, Verdict
<1>4. ASSUME NEW v \in Verifiers, Claim(v) PROVE ReceiptInv'
  <2>1. PICK i \in 1 .. Len(confirmed) :
          verifier' = [verifier EXCEPT ![v] =
            [stage |-> "CLAIMED", attempt |-> confirmed[i],
             approved |-> approval[confirmed[i]] = "APPROVED", verdict |-> "NONE"]]
    BY <1>4 DEF Claim
  <2>2. Confirmed(confirmed[i])
    BY <2>1 DEF Confirmed
  <2>3. UNCHANGED <<confirmed, approval, outcome>>
    BY <1>4 DEF Claim
  <2> QED
    BY <2>1, <2>2, <2>3
    DEF ReceiptInv, VerifierInv, ReceiptsAreEarned, Confirmed, Verdict, TypeOK
<1>5. ASSUME NEW v \in Verifiers, ReadEvidence(v) PROVE ReceiptInv'
  <2> DEFINE a == verifier[v].attempt
  <2>1. UNCHANGED <<confirmed, approval, outcome>>
    BY <1>5 DEF ReadEvidence
  <2>2. /\ verifier[v] \in BusyVerifiers /\ verifier[v].stage = "CLAIMED"
        /\ verifier' = [verifier EXCEPT ![v] =
             [verifier[v] EXCEPT !.stage = "DECIDED",
                                 !.verdict = Verdict(a, verifier[v].approved)]]
    BY <1>5, BusyTyped DEF ReadEvidence, TypeOK
  <2>3. /\ verifier'[v].attempt = a /\ verifier'[v].approved = verifier[v].approved
        /\ verifier'[v].verdict = Verdict(a, verifier[v].approved)
    BY <2>2 DEF BusyVerifiers, TypeOK
  <2>4. \A w \in Verifiers : w # v => verifier'[w] = verifier[w]
    BY <2>2 DEF TypeOK
  <2> QED
    BY <2>1, <2>2, <2>3, <2>4
    DEF ReceiptInv, VerifierInv, ReceiptsAreEarned, Confirmed, Verdict
<1>6. ASSUME NEW v \in Verifiers,
             Throws(v) \/ FinalizeConflicts(v) \/ MarkUnknown(v) \/ Crash(v)
      PROVE ReceiptInv'
  <2>1. UNCHANGED <<confirmed, approval, outcome>>
    BY <1>6 DEF Throws, FinalizeConflicts, MarkUnknown, Crash
  <2>2. \A w \in Verifiers :
          verifier'[w].stage \in {"CLAIMED", "DECIDED"} => verifier'[w] = verifier[w]
    <3>1. CASE Throws(v) \/ FinalizeConflicts(v)
      <4>1. verifier' = [verifier EXCEPT ![v].stage = "FAILED"] /\ verifier[v] \in BusyVerifiers
        BY <3>1, BusyTyped DEF Throws, FinalizeConflicts
      <4>2. verifier'[v].stage = "FAILED"
        BY <4>1 DEF TypeOK, BusyVerifiers
      <4> QED
        BY <4>1, <4>2 DEF TypeOK
    <3>2. CASE MarkUnknown(v) \/ Crash(v)
      BY <3>2 DEF MarkUnknown, Crash, IdleVerifier, TypeOK
    <3> QED
      BY <1>6, <3>1, <3>2
  <2> QED
    BY <2>1, <2>2 DEF ReceiptInv, VerifierInv, ReceiptsAreEarned, Confirmed, Verdict
<1>7. ASSUME NEW v \in Verifiers, Finalize(v) PROVE ReceiptInv'
  <2> DEFINE a == verifier[v].attempt
  <2>1. UNCHANGED <<confirmed, approval>>
    BY <1>7 DEF Finalize
  <2>2. \A w \in Verifiers :
          verifier'[w].stage \in {"CLAIMED", "DECIDED"} => verifier'[w] = verifier[w]
    BY <1>7 DEF Finalize, IdleVerifier, TypeOK
  <2>3. VerifierInv'
    BY <2>1, <2>2 DEF ReceiptInv, VerifierInv, Confirmed, Verdict
  <2>4. /\ outcome' = [outcome EXCEPT ![a] = verifier[v].verdict]
        /\ verifier[v].verdict = Verdict(a, verifier[v].approved)
        /\ Confirmed(a)
        /\ verifier[v].approved => approval[a] # "REJECTED"
    BY <1>7 DEF Finalize, ReceiptInv, VerifierInv
  <2>5. ReceiptsAreEarned'
    BY <2>1, <2>4 DEF ReceiptInv, ReceiptsAreEarned, Confirmed, Verdict, TypeOK
  <2> QED
    BY <2>3, <2>5 DEF ReceiptInv
<1>8. CASE UNCHANGED vars
  BY <1>8 DEF vars, ReceiptInv, VerifierInv, ReceiptsAreEarned, Confirmed, Verdict
<1> QED
  BY <1>2, <1>3, <1>4, <1>5, <1>6, <1>7, <1>8 DEF Next, AttemptStep, VerifierStep

\* However verifiers, withdrawn approvals and restarts interleave, a receipt
\* stands for a confirmed transfer that did what was authorised and that
\* nobody had rejected.
THEOREM ReceiptsEarned == Spec => []ReceiptsAreEarned
<1>1. ReceiptInv => ReceiptsAreEarned
  BY DEF ReceiptInv
<1> QED
  BY <1>1, TypeCorrect, ReceiptInit, ReceiptNext, PTL DEF Spec

(***************************************************************************)
(* Outcomes are final, and jobs show them.                                 *)
(***************************************************************************)
LEMMA OutcomeKept ==
  ASSUME TypeOK, [Next]_vars
  PROVE  \A a \in Attempts : outcome[a] # "NONE" => outcome'[a] = outcome[a]
<1>1. ASSUME NEW v \in Verifiers, Finalize(v)
      PROVE \A a \in Attempts : outcome[a] # "NONE" => outcome'[a] = outcome[a]
  BY <1>1 DEF Finalize, OutcomeInsertable, TypeOK
<1>2. CASE UNCHANGED outcome
  BY <1>2
<1> QED
  BY <1>1, <1>2
  DEF Next, vars, AttemptStep, VerifierStep, Confirm, TimePasses, WithdrawApproval, Claim,
      ReadEvidence, Throws, FinalizeConflicts, MarkUnknown, Crash

\* No rival verifier, late retry or restart ever replaces a recorded outcome.
THEOREM OutcomeStays == Spec => OutcomeIsFinal
<1>1. TypeOK /\ [Next]_vars =>
        [\A a \in Attempts : outcome[a] # "NONE" => outcome'[a] = outcome[a]]_vars
  BY OutcomeKept
<1> QED
  BY <1>1, TypeCorrect, PTL DEF Spec, OutcomeIsFinal

LEMMA JobShowsInit == Init => JobShowsOutcome
  BY DEF Init, JobShowsOutcome

LEMMA JobShowsNext ==
  TypeOK /\ ReceiptInv /\ JobShowsOutcome /\ [Next]_vars => JobShowsOutcome'
<1> SUFFICES ASSUME TypeOK, ReceiptInv, JobShowsOutcome, [Next]_vars PROVE JobShowsOutcome'
  OBVIOUS
<1>1. \A a \in Attempts : outcome[a] # "NONE" => outcome'[a] = outcome[a]
  BY OutcomeKept
<1>2. ASSUME NEW v \in Verifiers, Finalize(v) PROVE JobShowsOutcome'
  <2> DEFINE a == verifier[v].attempt
             verdict == verifier[v].verdict
  <2>1. /\ a \in Attempts /\ verdict \in Verdicts \cup {"NONE"}
        /\ verifier[v].stage = "DECIDED"
    BY <1>2, BusyTyped DEF Finalize, BusyVerifiers
  <2>2. outcome'[a] = verdict
    BY <1>2, <2>1 DEF Finalize, TypeOK
  <2>3. ASSUME NEW j \in Jobs, job'[j] # job[j]
        PROVE JobOf[a] = j /\ job'[j] = JobStatus(verdict)
    BY <1>2, <2>1, <2>3, JobOfAssumption DEF Finalize, SetJob, TypeOK
  <2>4. verdict \in Verdicts
    BY <2>1 DEF ReceiptInv, VerifierInv, Verdict, Verdicts
  <2> QED
    BY <1>1, <2>1, <2>2, <2>3, <2>4 DEF JobShowsOutcome, JobStatus, Verdicts
<1>3. ASSUME NEW v \in Verifiers, MarkUnknown(v) PROVE JobShowsOutcome'
  BY <1>1, <1>3, JobOfAssumption DEF MarkUnknown, SetJob, JobShowsOutcome, TypeOK
<1>4. CASE UNCHANGED job
  BY <1>1, <1>4 DEF JobShowsOutcome
<1> QED
  BY <1>2, <1>3, <1>4
  DEF Next, vars, AttemptStep, VerifierStep, Confirm, TimePasses, WithdrawApproval, Claim,
      ReadEvidence, Throws, FinalizeConflicts, Crash

\* What a job shows about its outcome is what some verifier has recorded.
THEOREM JobsShowOutcomes == Spec => []JobShowsOutcome
  BY TypeCorrect, ReceiptInit, ReceiptNext, JobShowsInit, JobShowsNext, PTL DEF Spec
=============================================================================
