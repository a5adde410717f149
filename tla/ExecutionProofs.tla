--------------------------- MODULE ExecutionProofs ---------------------------
(* Proofs about Execution, alone and under the emergency stop, for every    *)
(* number of handlers, observers, prompts and revisions and every set of    *)
(* evaluations.                                                             *)
EXTENDS EmergencyStop, TLAPS

(***************************************************************************)
(* Type correctness                                                        *)
(***************************************************************************)
LEMMA TypeInit == Init => TypeOK
  BY MaxRevisionAssumption
  DEF Init, TypeOK, ActionStatuses, PreparedRows, AttemptRows, NoAttempt,
      WalletPrompts, HandlerStates, ObserverStates, Revisions

LEMMA Touched ==
  ASSUME older \in [Revisions -> SUBSET (Others \cup Revisions)], NEW r, Touch(r)
  PROVE  older' \in [Revisions -> SUBSET (Others \cup Revisions)]
  BY DEF Touch

LEMMA TypeNext == TypeOK /\ [Next]_vars => TypeOK'
<1> SUFFICES ASSUME TypeOK, [Next]_vars PROVE TypeOK'
  OBVIOUS
<1> USE DEF TypeOK
<1>1. ASSUME NEW h \in Handlers, PrepareRead(h) PROVE TypeOK'
  BY <1>1, MaxRevisionAssumption DEF PrepareRead, HandlerStates, Revisions
<1>2. ASSUME NEW h \in Handlers, PrepareInvalidate(h) PROVE TypeOK'
  BY <1>2 DEF PrepareInvalidate, HandlerStates, IdleHandler, Approved
<1>3. ASSUME NEW h \in Handlers, PrepareCommit(h) PROVE TypeOK'
  BY <1>3, EvaluationsAssumption
  DEF PrepareCommit, HandlerStates, IdleHandler, PreparedRows, Evaluation,
      PreparedStatus, ActionStatuses
<1>4. ASSUME NEW h \in Handlers, StartRead(h) PROVE TypeOK'
  BY <1>4 DEF StartRead, HandlerStates
<1>5. ASSUME NEW h \in Handlers, StartCommit(h) PROVE TypeOK'
  <2>1. older' \in [Revisions -> SUBSET (Others \cup Revisions)]
    BY <1>5, Touched DEF StartCommit
  <2> QED
    BY <1>5, <2>1 DEF StartCommit, HandlerStates, IdleHandler, AttemptRows, AttemptStatuses,
        WalletPrompts, UnusedPrompt
<1>6. ASSUME NEW h \in Handlers, HandlerFails(h) PROVE TypeOK'
  BY <1>6 DEF HandlerFails, HandlerStates
<1>7. ASSUME NEW r \in Revisions, Approve(r) \/ Reject(r) PROVE TypeOK'
  BY <1>7 DEF Approve, Reject, ActionStatuses
<1>8. ASSUME NEW r \in Revisions, QuoteExpires(r) PROVE TypeOK'
  BY <1>8 DEF QuoteExpires, PreparedRows, NoPrepared
<1>9. ASSUME NEW r \in Revisions, PromptLapses(r) PROVE TypeOK'
  BY <1>9 DEF PromptLapses, AttemptRows
<1>10. ASSUME NEW t \in PromptTokens, WalletSends(t) \/ WalletDeclines(t) \/ ChainMoves(t)
       PROVE TypeOK'
  BY <1>10 DEF WalletSends, WalletDeclines, ChainMoves, WalletPrompts, UnusedPrompt
<1>11. ASSUME NEW t \in PromptTokens, ReportSubmitted(t) \/ ReportDeclined(t) \/ ReportUnknown(t)
       PROVE TypeOK'
  <2> DEFINE r == prompt[t].revision
  <2>1. PICK outcome \in AttemptStatuses, hash \in PromptTokens \cup {NULL} :
          /\ AcceptReport(t, outcome, hash)
          /\ hash = t \/ hash = attempt[r].hash
    <3>1. prompt[t].wallet # "UNUSED" => attempt[prompt[t].revision].hash \in PromptTokens \cup {NULL}
      BY DEF WalletPrompts, UnusedPrompt, AttemptRows
    <3> QED
      BY <1>11, <3>1 DEF ReportSubmitted, ReportDeclined, ReportUnknown, AcceptReport,
          ReportAccepted, AttemptStatuses, Declined, Observable
  <2>2. r \in Revisions
    BY <2>1 DEF AcceptReport, ReportAccepted, WalletPrompts, UnusedPrompt
  <2>3. attempt[r] \in AttemptRows
    BY <2>2
  <2>4. [status |-> outcome, token |-> NULL, hash |-> hash, lapsed |-> FALSE] \in AttemptRows
    BY <2>1, <2>3 DEF AttemptRows
  <2> QED
    BY <2>1, <2>2, <2>4, Touched DEF AcceptReport
<1>12. ASSUME NEW o \in Observers, ObserveRead(o) PROVE TypeOK'
  BY <1>12 DEF ObserveRead, ObserveRow, ObserverStates, PromptExpired, Pending
<1>13. ASSUME NEW o \in Observers, ObserveWrite(o) PROVE TypeOK'
  <2> DEFINE r == observer[o].revision
             row == [attempt[r] EXCEPT !.status = observer[o].next, !.token = NULL]
  <2>1. r \in Revisions /\ observer[o].next \in Observations
    BY <1>13 DEF ObserveWrite, ObserverStates
  <2>2. attempt[r] \in AttemptRows
    BY <2>1
  <2>3. row \in AttemptRows
    BY <2>1, <2>2 DEF AttemptRows, Observations, AttemptStatuses, Observable
  <2>4. attempt' \in [Revisions -> AttemptRows]
    BY <1>13, <2>1, <2>3 DEF ObserveWrite
  <2>5. older' \in [Revisions -> SUBSET (Others \cup Revisions)]
    BY <1>13, <2>1, Touched DEF ObserveWrite
  <2> QED
    BY <1>13, <2>4, <2>5 DEF ObserveWrite, ObserverStates
<1>14. ASSUME NEW o \in Observers, ObserverFails(o) PROVE TypeOK'
  BY <1>14 DEF ObserverFails, ObserverStates
<1>15. ASSUME NEW x \in Others, OtherMoves(x) PROVE TypeOK'
  BY <1>15 DEF OtherMoves
<1>16. CASE UNCHANGED vars
  BY <1>16 DEF vars
<1> QED
  BY <1>1, <1>2, <1>3, <1>4, <1>5, <1>6, <1>7, <1>8, <1>9, <1>10, <1>11, <1>12, <1>13,
     <1>14, <1>15, <1>16
  DEF Next, HandlerStep, RevisionStep, PromptStep, ObserverStep

\* Every reachable row, handler local and observer local is one the tables and
\* the code's types admit.
THEOREM TypeCorrect == Spec => []TypeOK
  BY TypeInit, TypeNext, PTL DEF Spec

(***************************************************************************)
(* At most one submission of an exact preparation.                         *)
(*                                                                         *)
(* That no two prompts of a revision are signed is not inductive: before   *)
(* the second signature there is a second open prompt.  What is kept is    *)
(* that a prompt which is open or signed holds its revision's attempt: the *)
(* attempt has not ended before submission and, while it still waits for   *)
(* the wallet, it waits for this very prompt.                              *)
(***************************************************************************)
LiveHolds ==
    \A t \in PromptTokens : Live(t) =>
        LET r == prompt[t].revision IN
        /\ attempt[r].status \notin Declined \cup {"NONE"}
        /\ attempt[r].status = "WALLET_PROMPTED" => attempt[r].token = t

LiveUnique ==
    \A t, u \in PromptTokens :
        Live(t) /\ Live(u) /\ prompt[t].revision = prompt[u].revision => t = u

SubmissionInv == LiveHolds /\ LiveUnique

LEMMA SubmissionInit == Init => SubmissionInv
  BY DEF Init, SubmissionInv, LiveHolds, LiveUnique, Live, UnusedPrompt

LEMMA SubmissionNext == TypeOK /\ SubmissionInv /\ [Next]_vars => SubmissionInv'
<1> SUFFICES ASSUME TypeOK, SubmissionInv, [Next]_vars PROVE SubmissionInv'
  OBVIOUS
<1> USE DEF SubmissionInv, LiveHolds, LiveUnique, Live
<1>1. ASSUME UNCHANGED <<attempt, prompt>> PROVE SubmissionInv'
  BY <1>1
<1>2. ASSUME NEW h \in Handlers, StartCommit(h) PROVE SubmissionInv'
  <2> DEFINE r == handler[h].revision
  <2>1. r \in Revisions
    BY <1>2 DEF StartCommit, TypeOK, HandlerStates, IdleHandler
  <2>2. PICK t \in PromptTokens :
          /\ prompt[t].wallet = "UNUSED"
          /\ attempt' = [attempt EXCEPT ![r].status = "WALLET_PROMPTED",
                                        ![r].token = t, ![r].lapsed = FALSE]
          /\ prompt' = [prompt EXCEPT ![t].revision = r, ![t].wallet = "OPEN"]
    BY <1>2 DEF StartCommit
  <2>3. \A u \in PromptTokens : Live(u) => prompt[u].revision # r
    BY <1>2 DEF StartCommit, MayPrompt
  <2>4. \A u \in PromptTokens : u # t => prompt'[u] = prompt[u]
    BY <2>2 DEF TypeOK
  <2>5. /\ prompt'[t].revision = r
        /\ attempt'[r].status = "WALLET_PROMPTED" /\ attempt'[r].token = t
    BY <2>1, <2>2 DEF TypeOK, AttemptRows, WalletPrompts, UnusedPrompt
  <2>6. \A q \in Revisions : q # r => attempt'[q] = attempt[q]
    BY <2>2 DEF TypeOK
  <2>7. \A u \in PromptTokens : Live(u) => prompt[u].revision \in Revisions
    BY DEF TypeOK, WalletPrompts, UnusedPrompt
  <2>8. LiveHolds'
    BY <2>3, <2>4, <2>5, <2>6, <2>7 DEF Declined
  <2>9. LiveUnique'
    BY <2>3, <2>4, <2>5
  <2> QED
    BY <2>8, <2>9
<1>3. ASSUME NEW r \in Revisions, PromptLapses(r) PROVE SubmissionInv'
  BY <1>3 DEF PromptLapses, TypeOK, AttemptRows
<1>4. ASSUME NEW t \in PromptTokens, WalletSends(t) \/ WalletDeclines(t) \/ ChainMoves(t)
      PROVE SubmissionInv'
  <2>1. \A u \in PromptTokens :
          /\ prompt[u].wallet = "UNUSED" => prompt'[u].wallet = "UNUSED"
          /\ prompt'[u].revision = prompt[u].revision
          /\ prompt'[u].wallet \in {"OPEN", "SENT"} => prompt[u].wallet \in {"OPEN", "SENT"}
    BY <1>4 DEF WalletSends, WalletDeclines, ChainMoves, TypeOK, WalletPrompts, UnusedPrompt
  <2>2. UNCHANGED attempt
    BY <1>4 DEF WalletSends, WalletDeclines, ChainMoves
  <2> QED
    BY <2>1, <2>2
<1>5. ASSUME NEW t \in PromptTokens, ReportSubmitted(t) \/ ReportUnknown(t)
      PROVE SubmissionInv'
  <2> DEFINE r == prompt[t].revision
  <2>1. r \in Revisions /\ UNCHANGED prompt
    BY <1>5 DEF ReportSubmitted, ReportUnknown, AcceptReport, ReportAccepted, TypeOK,
        WalletPrompts, UnusedPrompt
  <2>2. attempt'[r].status \in {"SUBMITTED", "UNKNOWN"}
    BY <1>5, <2>1 DEF ReportSubmitted, ReportUnknown, AcceptReport, TypeOK
  <2>3. \A q \in Revisions : q # r => attempt'[q] = attempt[q]
    BY <1>5, <2>1 DEF ReportSubmitted, ReportUnknown, AcceptReport, TypeOK
  <2>4. \A u \in PromptTokens : Live(u) => prompt[u].revision \in Revisions
    BY DEF TypeOK, WalletPrompts, UnusedPrompt
  <2> QED
    BY <2>1, <2>2, <2>3, <2>4 DEF Declined
<1>6. ASSUME NEW t \in PromptTokens, ReportDeclined(t) PROVE SubmissionInv'
  <2> DEFINE r == prompt[t].revision
  <2>1. /\ prompt[t].wallet = "DECLINED" /\ r \in Revisions /\ UNCHANGED prompt
        /\ attempt[r].status = "WALLET_PROMPTED" /\ attempt[r].token = t
    BY <1>6 DEF ReportDeclined, AcceptReport, ReportAccepted, TypeOK, WalletPrompts, UnusedPrompt
  <2>2. \A q \in Revisions : q # r => attempt'[q] = attempt[q]
    BY <1>6, <2>1 DEF ReportDeclined, AcceptReport, TypeOK
  <2>3. \A u \in PromptTokens : Live(u) => prompt[u].revision \in Revisions \ {r}
    BY <2>1 DEF TypeOK, WalletPrompts, UnusedPrompt
  <2> QED
    BY <2>1, <2>2, <2>3
<1>7. ASSUME NEW o \in Observers, ObserveWrite(o) PROVE SubmissionInv'
  <2> DEFINE r == observer[o].revision
  <2>1. UNCHANGED prompt
    BY <1>7 DEF ObserveWrite
  <2>2. CASE UNCHANGED attempt
    BY <2>1, <2>2
  <2>3. CASE attempt' # attempt
    <3>1. r \in Revisions /\ observer[o].next \in Observations
      BY <1>7 DEF ObserveWrite, TypeOK, ObserverStates
    <3>2. attempt'[r].status = observer[o].next
      BY <1>7, <2>3, <3>1 DEF ObserveWrite, TypeOK, AttemptRows
    <3>3. \A q \in Revisions : q # r => attempt'[q] = attempt[q]
      BY <1>7, <2>3, <3>1 DEF ObserveWrite, TypeOK
    <3>4. \A u \in PromptTokens : Live(u) => prompt[u].revision \in Revisions
      BY DEF TypeOK, WalletPrompts, UnusedPrompt
    <3> QED
      BY <2>1, <3>1, <3>2, <3>3, <3>4 DEF Observations, Terminal, Declined
  <2> QED
    BY <2>2, <2>3
<1> QED
  BY <1>1, <1>2, <1>3, <1>4, <1>5, <1>6, <1>7
  DEF Next, vars, HandlerStep, RevisionStep, PromptStep, ObserverStep, PrepareRead,
      PrepareInvalidate, PrepareCommit, StartRead, HandlerFails, Approve, Reject,
      QuoteExpires, ObserveRead, ObserveRow, ObserverFails, OtherMoves

\* However many requests, tabs, retries and observers there are, an exact
\* preparation is submitted to the chain at most once.
THEOREM SubmittedOnce == Spec => []PreparationSubmittedOnce
<1>1. SubmissionInv => PreparationSubmittedOnce
  BY DEF SubmissionInv, LiveUnique, Live, PreparationSubmittedOnce, Sent
<1> QED
  BY <1>1, TypeCorrect, SubmissionInit, SubmissionNext, PTL DEF Spec

\* An attempt recorded as stopped before submission was not, and will not be,
\* submitted by a prompt already handed out.
THEOREM DeclinedIsUnsubmitted == Spec => []DeclinedMeansNothingSubmitted
<1>1. SubmissionInv => DeclinedMeansNothingSubmitted
  BY DEF SubmissionInv, LiveHolds, DeclinedMeansNothingSubmitted
<1> QED
  BY <1>1, TypeCorrect, SubmissionInit, SubmissionNext, PTL DEF Spec

(***************************************************************************)
(* An action is ready only with what its current revision needs.           *)
(*                                                                         *)
(* ReadyIsCleared alone does not survive an approval: that the checks of   *)
(* the approved revision passed was decided when its preparation asked for *)
(* the approval.                                                           *)
(***************************************************************************)
AskedIsChecked ==
    status = "APPROVAL_REQUIRED" =>
        current_revision \in Revisions /\ prepared[current_revision].checks = "OK"

ReadyInv == ReadyIsCleared /\ AskedIsChecked

LEMMA ReadyInit == Init => ReadyInv
  BY DEF Init, ReadyInv, ReadyIsCleared, AskedIsChecked

LEMMA ReadyNext == TypeOK /\ ReadyInv /\ [Next]_vars => ReadyInv'
<1> SUFFICES ASSUME TypeOK, ReadyInv, [Next]_vars PROVE ReadyInv'
  OBVIOUS
<1> USE DEF ReadyInv, ReadyIsCleared, AskedIsChecked
<1>1. ASSUME UNCHANGED <<status, current_revision, prepared, approval>> PROVE ReadyInv'
  BY <1>1
<1>2. ASSUME NEW h \in Handlers, PrepareCommit(h) PROVE ReadyInv'
  <2> DEFINE r == handler[h].revision
  <2>1. r \in Revisions /\ current_revision' = r
    BY <1>2 DEF PrepareCommit, TypeOK, HandlerStates, IdleHandler
  <2>2. PICK e \in Evaluations :
          prepared' = [prepared EXCEPT ![r] = e] /\ status' = PreparedStatus(e)
    BY <1>2 DEF PrepareCommit
  <2>3. prepared'[r] = e /\ e \in Evaluation
    BY <2>1, <2>2, EvaluationsAssumption DEF TypeOK
  <2>4. status' \in {"READY_FOR_EXECUTION", "APPROVAL_REQUIRED"} => e.checks = "OK"
    BY <2>2, <2>3 DEF PreparedStatus, Evaluation, Checks
  <2>5. status' = "READY_FOR_EXECUTION" => e.authority = "ALLOWED"
    BY <2>2, <2>3 DEF PreparedStatus, Evaluation, AuthorityDecisions
  <2> QED
    BY <2>1, <2>3, <2>4, <2>5
<1>3. ASSUME NEW r \in Revisions, Approve(r) PROVE ReadyInv'
  BY <1>3 DEF Approve, Decidable, TypeOK
<1>4. ASSUME NEW r \in Revisions, Reject(r) PROVE ReadyInv'
  BY <1>4 DEF Reject
<1>5. ASSUME NEW r \in Revisions, QuoteExpires(r) PROVE ReadyInv'
  <2>1. \A q \in Revisions : /\ prepared'[q].checks = prepared[q].checks
                             /\ prepared'[q].authority = prepared[q].authority
    BY <1>5 DEF QuoteExpires, TypeOK, PreparedRows, NoPrepared
  <2> QED
    BY <1>5, <2>1 DEF QuoteExpires
<1> QED
  BY <1>1, <1>2, <1>3, <1>4, <1>5
  DEF Next, vars, HandlerStep, RevisionStep, PromptStep, ObserverStep, PrepareRead,
      PrepareInvalidate, StartRead, StartCommit, HandlerFails, PromptLapses, WalletSends,
      WalletDeclines, ChainMoves, ReportSubmitted, ReportDeclined, ReportUnknown,
      AcceptReport, ObserveRead, ObserveRow, ObserveWrite, ObserverFails, OtherMoves

\* An action that is ready for the wallet has passed its checks and has the
\* policy's or the user's consent to its current revision, whatever
\* preparations, approvals and rejections ran at the same time.
THEOREM ReadyMeansCleared == Spec => []ReadyIsCleared
<1>1. ReadyInv => ReadyIsCleared
  BY DEF ReadyInv
<1> QED
  BY <1>1, TypeCorrect, ReadyInit, ReadyNext, PTL DEF Spec

(***************************************************************************)
(* What is settled is what happened.                                       *)
(*                                                                         *)
(* An observer settles an attempt by an answer it got earlier.  The answer *)
(* is still true then, because it was about the attempt's hash, which is   *)
(* never replaced, and about a mined transaction.                          *)
(***************************************************************************)
Truthful(next, p) ==
    /\ next = "CONFIRMED" => p.exact /\ p.tx = "SUCCESS"
    /\ next = "REVERTED" => p.exact /\ p.tx = "REVERTED"
    /\ next = "MISMATCH" => ~p.exact

HashInv ==
    \A r \in Revisions :
        /\ attempt[r].status \in Declined \cup {"NONE", "WALLET_PROMPTED"} => attempt[r].hash = NULL
        /\ attempt[r].hash # NULL => prompt[attempt[r].hash].revision = r /\ Sent(attempt[r].hash)

AnswersTrue ==
    \A o \in Observers : observer[o].next \in Terminal =>
        LET t == attempt[observer[o].revision].hash IN
        t # NULL /\ Truthful(observer[o].next, prompt[t])

SettledTrue ==
    \A r \in Revisions : attempt[r].status \in Terminal =>
        attempt[r].hash # NULL /\ Truthful(attempt[r].status, prompt[attempt[r].hash])

SettledInv == HashInv /\ AnswersTrue /\ SettledTrue

LEMMA SettledInit == Init => SettledInv
  BY DEF Init, SettledInv, HashInv, AnswersTrue, SettledTrue, NoAttempt, IdleObserver, Terminal

\* What an answer was about stays: a signed prompt remains signed for its
\* revision, a mined transaction remains mined.
LEMMA SentStays ==
    ASSUME TypeOK, [Next]_vars, NEW t \in PromptTokens, Sent(t)
    PROVE  /\ Sent(t)' /\ prompt'[t].revision = prompt[t].revision
           /\ prompt'[t].exact = prompt[t].exact
           /\ prompt[t].tx \in {"SUCCESS", "REVERTED"} => prompt'[t].tx = prompt[t].tx
<1> USE DEF Sent, TypeOK, WalletPrompts, UnusedPrompt
<1>1. CASE UNCHANGED prompt
  BY <1>1
<1>2. ASSUME NEW h \in Handlers, StartCommit(h)
      PROVE  prompt'[t] = prompt[t]
  BY <1>2 DEF StartCommit
<1>3. ASSUME NEW u \in PromptTokens, WalletSends(u) \/ WalletDeclines(u)
      PROVE  prompt'[t] = prompt[t]
  BY <1>3 DEF WalletSends, WalletDeclines
<1>4. CASE \E u \in PromptTokens : ChainMoves(u)
  BY <1>4 DEF ChainMoves
<1> QED
  BY <1>1, <1>2, <1>3, <1>4
  DEF Next, vars, HandlerStep, RevisionStep, PromptStep, ObserverStep, PrepareRead,
      PrepareInvalidate, PrepareCommit, StartRead, HandlerFails, Approve, Reject, QuoteExpires,
      PromptLapses, ReportSubmitted, ReportDeclined, ReportUnknown, AcceptReport,
      ObserveRead, ObserveRow, ObserveWrite, ObserverFails, OtherMoves

\* What an attempt may do in a step.
AttemptMoves(r) ==
    \/ attempt'[r].status = attempt[r].status /\ attempt'[r].hash = attempt[r].hash
    \/ /\ attempt[r].status \in Declined \cup {"NONE"}
       /\ attempt'[r].status = "WALLET_PROMPTED" /\ attempt'[r].hash = attempt[r].hash
    \/ /\ attempt[r].status = "WALLET_PROMPTED"
       /\ attempt'[r].status \in Declined \cup {"UNKNOWN"} /\ attempt'[r].hash = attempt[r].hash
    \/ /\ attempt[r].status = "WALLET_PROMPTED" /\ attempt'[r].status = "SUBMITTED"
       /\ attempt'[r].hash \in PromptTokens
       /\ prompt[attempt'[r].hash].revision = r /\ Sent(attempt'[r].hash)
    \/ /\ attempt[r].status \in Observable \cup {"WALLET_PROMPTED"}
       /\ attempt'[r].hash = attempt[r].hash
       /\ \E o \in Observers : /\ observer[o].revision = r
                               /\ attempt'[r].status = observer[o].next
                               /\ observer[o] \in ObserverStates \ {IdleObserver}

LEMMA AttemptNext ==
    ASSUME TypeOK, [Next]_vars, NEW r \in Revisions
    PROVE  AttemptMoves(r)
<1> USE DEF TypeOK
<1>0. attempt[r] \in AttemptRows
  OBVIOUS
<1>1. CASE UNCHANGED attempt
  BY <1>1 DEF AttemptMoves
<1>2. ASSUME NEW h \in Handlers, StartCommit(h) PROVE AttemptMoves(r)
  BY <1>2, <1>0 DEF StartCommit, MayPrompt, AttemptMoves, AttemptRows
<1>3. CASE \E q \in Revisions : PromptLapses(q)
  BY <1>3, <1>0 DEF PromptLapses, AttemptMoves, AttemptRows
<1>4. ASSUME NEW t \in PromptTokens, ReportSubmitted(t) PROVE AttemptMoves(r)
  <2>1. /\ prompt[t].revision \in Revisions /\ Sent(t)
        /\ attempt[prompt[t].revision].status = "WALLET_PROMPTED"
    BY <1>4 DEF ReportSubmitted, AcceptReport, ReportAccepted, WalletPrompts, UnusedPrompt, Sent
  <2>2. attempt' = [attempt EXCEPT ![prompt[t].revision] =
                      [status |-> "SUBMITTED", token |-> NULL, hash |-> t, lapsed |-> FALSE]]
    BY <1>4 DEF ReportSubmitted, AcceptReport
  <2>3. CASE r = prompt[t].revision
    BY <2>1, <2>2, <2>3 DEF AttemptMoves
  <2>4. CASE r # prompt[t].revision
    BY <2>2, <2>4 DEF AttemptMoves
  <2> QED
    BY <2>3, <2>4
<1>5. ASSUME NEW t \in PromptTokens, ReportDeclined(t) \/ ReportUnknown(t) PROVE AttemptMoves(r)
  <2> DEFINE q == prompt[t].revision
  <2>1. PICK outcome \in Declined \cup {"UNKNOWN"} :
          /\ attempt[q].status = "WALLET_PROMPTED"
          /\ attempt' = [attempt EXCEPT ![q] =
               [status |-> outcome, token |-> NULL, hash |-> attempt[q].hash, lapsed |-> FALSE]]
    BY <1>5 DEF ReportDeclined, ReportUnknown, AcceptReport, ReportAccepted
  <2>2. CASE r = q
    BY <2>1, <2>2 DEF AttemptMoves
  <2>3. CASE r # q
    BY <2>1, <2>3 DEF AttemptMoves
  <2> QED
    BY <2>2, <2>3
<1>6. ASSUME NEW o \in Observers, ObserveWrite(o) PROVE AttemptMoves(r)
  <2> DEFINE q == observer[o].revision
  <2>1. CASE attempt' = attempt
    BY <2>1 DEF AttemptMoves
  <2>2. CASE attempt' # attempt
    <3>1. /\ ObservationApplies(o) /\ observer[o] \in ObserverStates \ {IdleObserver}
          /\ attempt' = [attempt EXCEPT ![q].status = observer[o].next, ![q].token = NULL]
      BY <1>6, <2>2 DEF ObserveWrite
    <3>2. attempt[q].status \in Observable \cup {"WALLET_PROMPTED"}
      BY <3>1 DEF ObservationApplies
    <3>3. CASE r = q
      BY <1>0, <3>1, <3>2, <3>3 DEF AttemptMoves, AttemptRows
    <3>4. CASE r # q
      BY <3>1, <3>4 DEF AttemptMoves
    <3> QED
      BY <3>3, <3>4
  <2> QED
    BY <2>1, <2>2
<1> QED
  BY <1>1, <1>2, <1>3, <1>4, <1>5, <1>6
  DEF Next, vars, HandlerStep, RevisionStep, PromptStep, ObserverStep, PrepareRead,
      PrepareInvalidate, PrepareCommit, StartRead, HandlerFails, Approve, Reject, QuoteExpires,
      WalletSends, WalletDeclines, ChainMoves, ObserveRead, ObserveRow, ObserverFails, OtherMoves

LEMMA HashStays ==
    ASSUME TypeOK, HashInv, [Next]_vars, NEW r \in Revisions, attempt[r].hash # NULL
    PROVE  attempt'[r].hash = attempt[r].hash
<1>1. attempt[r].status # "WALLET_PROMPTED"
  BY DEF HashInv
<1> QED
  BY <1>1, AttemptNext DEF AttemptMoves

\* Observers take up something new by selecting a row, and nothing else.
LEMMA NextObserver ==
    ASSUME TypeOK, [Next]_vars, NEW o \in Observers, observer'[o] # observer[o],
           observer'[o].next \in Terminal
    PROVE  ObserveRead(o)
<1>1. ASSUME NEW p \in Observers, ObserverStep(p) PROVE ObserveRead(o)
  BY <1>1 DEF ObserverStep, ObserveRead, ObserveRow, ObserveWrite, ObserverFails, OtherMoves, TypeOK,
      IdleObserver, Terminal
<1> QED
  BY <1>1
  DEF Next, vars, HandlerStep, RevisionStep, PromptStep, PrepareRead, PrepareInvalidate,
      PrepareCommit, StartRead, StartCommit, HandlerFails, Approve, Reject, QuoteExpires,
      PromptLapses, WalletSends, WalletDeclines, ChainMoves, ReportSubmitted, ReportDeclined,
      ReportUnknown, AcceptReport, OtherMoves

LEMMA SettledNext == TypeOK /\ SettledInv /\ [Next]_vars => SettledInv'
<1> SUFFICES ASSUME TypeOK, SettledInv, [Next]_vars PROVE SettledInv'
  OBVIOUS
<1>1. \A r \in Revisions :
        attempt[r].hash # NULL => attempt[r].hash \in PromptTokens /\ Sent(attempt[r].hash)
  BY DEF SettledInv, HashInv, TypeOK, AttemptRows
<1>2. ASSUME NEW next \in Observations, NEW t \in PromptTokens, Sent(t),
             Truthful(next, prompt[t])
      PROVE  Truthful(next, prompt'[t])
  BY <1>2, SentStays DEF Truthful
<1>3. ASSUME NEW r \in Revisions PROVE AttemptMoves(r)
  BY AttemptNext
<1>4. HashInv'
  <2> SUFFICES ASSUME NEW r \in Revisions
               PROVE  /\ attempt'[r].status \in Declined \cup {"NONE", "WALLET_PROMPTED"}
                           => attempt'[r].hash = NULL
                      /\ attempt'[r].hash # NULL
                           => /\ prompt'[attempt'[r].hash].revision = r
                              /\ prompt'[attempt'[r].hash].wallet = "SENT"
    BY DEF HashInv, Sent
  <2>1. AttemptMoves(r)
    BY <1>3
  <2>2. /\ attempt[r].status \in Declined \cup {"NONE", "WALLET_PROMPTED"} => attempt[r].hash = NULL
        /\ attempt[r].hash # NULL => /\ prompt[attempt[r].hash].revision = r
                                     /\ Sent(attempt[r].hash)
    BY DEF SettledInv, HashInv
  <2>3. \A o \in Observers : observer[o] \in ObserverStates \ {IdleObserver}
          => observer[o].next \notin Declined \cup {"NONE", "WALLET_PROMPTED"}
    BY DEF ObserverStates, Observations, Terminal, Declined
  <2>4. attempt'[r].status \in Declined \cup {"NONE", "WALLET_PROMPTED"} => attempt'[r].hash = NULL
    BY <2>1, <2>2, <2>3 DEF AttemptMoves, Observable, Declined
  <2>5. attempt'[r].hash # NULL =>
          /\ attempt'[r].hash \in PromptTokens
          /\ prompt[attempt'[r].hash].revision = r /\ Sent(attempt'[r].hash)
    BY <1>1, <2>1, <2>2 DEF AttemptMoves
  <2>6. \A t \in PromptTokens : Sent(t) => /\ prompt'[t].revision = prompt[t].revision
                                           /\ prompt'[t].wallet = "SENT"
    BY SentStays DEF Sent
  <2> QED
    BY <2>4, <2>5, <2>6
<1>5. AnswersTrue'
  <2> SUFFICES ASSUME NEW o \in Observers, observer'[o].next \in Terminal
               PROVE  LET t == attempt'[observer'[o].revision].hash IN
                      t # NULL /\ Truthful(observer'[o].next, prompt'[t])
    BY DEF AnswersTrue
  <2>1. CASE observer'[o] = observer[o]
    <3> DEFINE r == observer[o].revision
    <3>1. /\ attempt[r].hash # NULL /\ Truthful(observer[o].next, prompt[attempt[r].hash])
          /\ r \in Revisions /\ observer[o].next \in Observations
      BY <2>1 DEF SettledInv, AnswersTrue, TypeOK, ObserverStates, IdleObserver, Terminal
    <3>2. attempt'[r].hash = attempt[r].hash
      BY <3>1, HashStays DEF SettledInv
    <3>3. Truthful(observer[o].next, prompt'[attempt[r].hash])
      BY <1>1, <1>2, <3>1
    <3> QED
      BY <2>1, <3>1, <3>2, <3>3
  <2>2. CASE observer'[o] # observer[o]
    <3>1. ObserveRead(o)
      BY <2>2, NextObserver
    <3>2. PICK q \in Revisions, next \in Observations : ObserveRow(o, q, next)
      BY <3>1 DEF ObserveRead
    <3>3. /\ observer'[o].revision = q /\ observer'[o].next = next /\ next \in Terminal
          /\ UNCHANGED <<attempt, prompt>>
      BY <3>2 DEF ObserveRow, TypeOK
    <3>4. attempt[q].hash # NULL /\ next \in Answers(prompt[attempt[q].hash])
      BY <3>2, <3>3 DEF ObserveRow, Pending, Terminal
    <3>5. Truthful(next, prompt[attempt[q].hash])
      BY <3>3, <3>4 DEF Answers, Truthful, Terminal
    <3> QED
      BY <3>3, <3>4, <3>5
  <2> QED
    BY <2>1, <2>2
<1>6. SettledTrue'
  <2> SUFFICES ASSUME NEW r \in Revisions, attempt'[r].status \in Terminal
               PROVE  /\ attempt'[r].hash # NULL
                      /\ Truthful(attempt'[r].status, prompt'[attempt'[r].hash])
    BY DEF SettledTrue
  <2>1. AttemptMoves(r)
    BY <1>3
  <2>2. attempt[r].status \in Terminal \/ attempt'[r].status # attempt[r].status
    OBVIOUS
  <2>3. attempt[r].hash # NULL /\ Truthful(attempt'[r].status, prompt[attempt[r].hash])
    BY <2>1, <2>2 DEF AttemptMoves, SettledInv, SettledTrue, AnswersTrue, Terminal, Declined
  <2>4. attempt'[r].hash = attempt[r].hash
    BY <2>3, HashStays DEF SettledInv
  <2>5. attempt'[r].status \in Observations
    BY DEF Observations
  <2> QED
    BY <1>1, <1>2, <2>3, <2>4, <2>5
<1> QED
  BY <1>4, <1>5, <1>6 DEF SettledInv

\* An attempt is CONFIRMED, REVERTED or MISMATCH only if that is what happened
\* to the exact transaction of its revision.
THEOREM SettledIsTrue == Spec => []SettledTruthfully
<1>1. TypeOK /\ SettledInv => SettledTruthfully
  BY DEF SettledInv, HashInv, SettledTrue, Truthful, SettledTruthfully, Terminal
<1> QED
  BY <1>1, TypeCorrect, SettledInit, SettledNext, PTL DEF Spec

\* No step replaces a hash or reopens a settled attempt.
THEOREM SettledStays == Spec => SettledStaysSettled
<1>1. TypeOK /\ SettledInv /\ [Next]_vars =>
        [\A r \in Revisions :
           /\ attempt[r].hash # NULL => attempt'[r].hash = attempt[r].hash
           /\ attempt[r].status \in Terminal => attempt'[r].status = attempt[r].status]_vars
  <2> SUFFICES ASSUME TypeOK, SettledInv, [Next]_vars, NEW r \in Revisions
               PROVE  /\ attempt[r].hash # NULL => attempt'[r].hash = attempt[r].hash
                      /\ attempt[r].status \in Terminal => attempt'[r].status = attempt[r].status
    OBVIOUS
  <2>1. attempt[r].hash # NULL => attempt'[r].hash = attempt[r].hash
    BY HashStays DEF SettledInv
  <2>2. attempt[r].status \in Terminal => attempt'[r].status = attempt[r].status
    BY AttemptNext DEF AttemptMoves, Terminal, Declined, Observable
  <2> QED
    BY <2>1, <2>2
<1> QED
  BY <1>1, TypeCorrect, SettledInit, SettledNext, PTL DEF Spec, SettledStaysSettled

(***************************************************************************)
(* Execution implements ExactSubmission.                                   *)
(***************************************************************************)
LEMMA PhaseInit == Init => Submission!EInit
  BY DEF Init, Submission!EInit, Phase, NoAttempt, Sent, UnusedPrompt

\* A step that keeps the statuses and the signed prompts is a stutter.
LEMMA PhaseStays ==
    ASSUME \A r \in Revisions : attempt'[r].status = attempt[r].status,
           \A t \in PromptTokens : /\ prompt'[t].wallet = "SENT" <=> prompt[t].wallet = "SENT"
                                   /\ Sent(t) => prompt'[t].revision = prompt[t].revision
    PROVE  UNCHANGED Submission!evars
  BY DEF Submission!evars, Phase, Sent

LEMMA PhaseNext ==
    TypeOK /\ SubmissionInv /\ [Next]_vars => [Submission!ENext]_(Submission!evars)
<1> SUFFICES ASSUME TypeOK, SubmissionInv, [Next]_vars
             PROVE  Submission!ENext \/ UNCHANGED Submission!evars
  OBVIOUS
<1> USE DEF TypeOK
<1>1. ASSUME UNCHANGED <<attempt, prompt>> PROVE UNCHANGED Submission!evars
  BY <1>1, PhaseStays
<1>2. ASSUME NEW h \in Handlers, StartCommit(h) PROVE Submission!ENext
  <2> DEFINE r == handler[h].revision
  <2>1. r \in Revisions /\ attempt[r].status \in Declined \cup {"NONE"}
    BY <1>2 DEF StartCommit, MayPrompt, HandlerStates, IdleHandler
  <2>2. PICK t \in PromptTokens :
          /\ prompt[t].wallet = "UNUSED"
          /\ attempt' = [attempt EXCEPT ![r].status = "WALLET_PROMPTED",
                                        ![r].token = t, ![r].lapsed = FALSE]
          /\ prompt' = [prompt EXCEPT ![t].revision = r, ![t].wallet = "OPEN"]
    BY <1>2 DEF StartCommit
  <2>3. \A u \in PromptTokens : Sent(u) => prompt[u].revision # r
    BY <2>1 DEF SubmissionInv, LiveHolds, Live, Sent
  <2>4. /\ attempt'[r].status = "WALLET_PROMPTED"
        /\ \A q \in Revisions : q # r => attempt'[q].status = attempt[q].status
    BY <2>1, <2>2 DEF AttemptRows
  <2>5. \A u \in PromptTokens : /\ prompt'[u].wallet = "SENT" <=> prompt[u].wallet = "SENT"
                                /\ Sent(u) => prompt'[u].revision = prompt[u].revision
    BY <2>2 DEF WalletPrompts, UnusedPrompt, Sent
  <2>6. Submission!Ask(r)
    BY <2>1, <2>3, <2>4, <2>5 DEF Submission!Ask, Phase, Sent, Declined
  <2> QED
    BY <2>1, <2>6 DEF Submission!ENext
<1>3. ASSUME NEW r \in Revisions, PromptLapses(r) PROVE UNCHANGED Submission!evars
  BY <1>3, PhaseStays DEF PromptLapses, AttemptRows
<1>4. ASSUME NEW t \in PromptTokens, WalletSends(t) PROVE Submission!ENext
  <2>1. PICK r \in Revisions : prompt[t].revision = r /\ Live(t)
    BY <1>4 DEF WalletSends, WalletPrompts, UnusedPrompt, Live
  <2>2. attempt[r].status \notin Declined \cup {"NONE"}
    BY <2>1 DEF SubmissionInv, LiveHolds
  <2>3. \A u \in PromptTokens : ~(Sent(u) /\ prompt[u].revision = r)
    BY <1>4, <2>1 DEF WalletSends, SubmissionInv, LiveUnique, Live, Sent
  <2>4. /\ prompt'[t].wallet = "SENT" /\ prompt'[t].revision = r
        /\ \A u \in PromptTokens : u # t => prompt'[u] = prompt[u]
        /\ UNCHANGED attempt
    BY <1>4, <2>1 DEF WalletSends, WalletPrompts, UnusedPrompt
  <2> DEFINE Now(q) == {u \in PromptTokens : Sent(u) /\ prompt[u].revision = q}
             Then(q) == {u \in PromptTokens : prompt'[u].wallet = "SENT" /\ prompt'[u].revision = q}
  <2>5. /\ Then(r) = {t}
        /\ \A q \in Revisions : q # r => Then(q) = Now(q)
    <3>1. \A u \in PromptTokens : u # t => (u \in Then(r) <=> u \in Now(r))
      BY <2>4 DEF Sent
    <3>2. t \in Then(r) /\ \A q \in Revisions : q # r => t \notin Then(q) /\ t \notin Now(q)
      BY <2>1, <2>4
    <3>3. \A q \in Revisions, u \in PromptTokens : u # t => (u \in Then(q) <=> u \in Now(q))
      BY <2>4 DEF Sent
    <3> QED
      BY <2>3, <3>1, <3>2, <3>3
  <2>6. [q \in Revisions |-> Then(q)] = [[q \in Revisions |-> Now(q)] EXCEPT ![r] = {t}]
    BY <2>5
  <2>7. Phase(r) \in {"ASKED", "SPENT"} /\ \A q \in Revisions : Phase(q)' = Phase(q)
    BY <2>1, <2>2, <2>4 DEF Phase
  <2>8. Now(r) = {}
    BY <2>3
  <2>9. Submission!Sign(r, t)
    BY <2>6, <2>7, <2>8 DEF Submission!Sign, Phase, Sent
  <2> QED
    BY <2>9 DEF Submission!ENext
<1>5. ASSUME NEW t \in PromptTokens, WalletDeclines(t) \/ ChainMoves(t)
      PROVE  UNCHANGED Submission!evars
  <2>1. \A u \in PromptTokens : /\ prompt'[u].wallet = "SENT" <=> prompt[u].wallet = "SENT"
                                /\ prompt'[u].revision = prompt[u].revision
    BY <1>5 DEF WalletDeclines, ChainMoves, WalletPrompts, UnusedPrompt
  <2> QED
    BY <1>5, <2>1, PhaseStays DEF WalletDeclines, ChainMoves
<1>6. ASSUME NEW t \in PromptTokens, ReportSubmitted(t) \/ ReportUnknown(t)
      PROVE  Submission!ENext
  <2> DEFINE r == prompt[t].revision
  <2>1. r \in Revisions /\ attempt[r].status = "WALLET_PROMPTED" /\ UNCHANGED prompt
    BY <1>6 DEF ReportSubmitted, ReportUnknown, AcceptReport, ReportAccepted, WalletPrompts,
        UnusedPrompt
  <2>2. /\ attempt'[r].status \in {"SUBMITTED", "UNKNOWN"}
        /\ \A q \in Revisions : q # r => attempt'[q] = attempt[q]
    BY <1>6, <2>1 DEF ReportSubmitted, ReportUnknown, AcceptReport
  <2>3. Submission!Spend(r)
    BY <2>1, <2>2 DEF Submission!Spend, Phase, Sent, Declined
  <2> QED
    BY <2>1, <2>3 DEF Submission!ENext
<1>7. ASSUME NEW t \in PromptTokens, ReportDeclined(t) PROVE Submission!ENext
  <2> DEFINE r == prompt[t].revision
  <2>1. /\ r \in Revisions /\ attempt[r].status = "WALLET_PROMPTED" /\ attempt[r].token = t
        /\ prompt[t].wallet = "DECLINED" /\ UNCHANGED prompt
    BY <1>7 DEF ReportDeclined, AcceptReport, ReportAccepted, WalletPrompts, UnusedPrompt
  <2>2. /\ attempt'[r].status \in Declined
        /\ \A q \in Revisions : q # r => attempt'[q] = attempt[q]
    BY <1>7, <2>1 DEF ReportDeclined, AcceptReport
  <2>3. \A u \in PromptTokens : ~(Sent(u) /\ prompt[u].revision = r)
    BY <2>1 DEF SubmissionInv, LiveHolds, Live, Sent
  <2>4. Submission!Decline(r)
    BY <2>1, <2>2, <2>3 DEF Submission!Decline, Phase, Sent, Declined
  <2> QED
    BY <2>1, <2>4 DEF Submission!ENext
<1>8. ASSUME NEW o \in Observers, ObserveWrite(o)
      PROVE  Submission!ENext \/ UNCHANGED Submission!evars
  <2> DEFINE r == observer[o].revision
  <2>1. UNCHANGED prompt /\ r \in Revisions /\ observer[o].next \in Observations
    BY <1>8 DEF ObserveWrite, ObserverStates
  <2>2. CASE attempt' = attempt
    BY <1>1, <2>1, <2>2
  <2>3. CASE attempt' # attempt
    <3>1. /\ attempt'[r].status = observer[o].next
          /\ \A q \in Revisions : q # r => attempt'[q].status = attempt[q].status
      BY <1>8, <2>1, <2>3 DEF ObserveWrite, AttemptRows
    <3>2. attempt'[r].status \notin Declined \cup {"NONE", "WALLET_PROMPTED"}
      BY <2>1, <3>1 DEF Observations, Terminal, Declined
    <3>3. attempt[r].status \in Observable \cup {"WALLET_PROMPTED"}
      BY <1>8, <2>3 DEF ObserveWrite, ObservationApplies
    <3>4. CASE attempt[r].status = "WALLET_PROMPTED"
      <4>1. Submission!Spend(r)
        BY <2>1, <3>1, <3>2, <3>4 DEF Submission!Spend, Phase, Sent
      <4> QED
        BY <2>1, <4>1 DEF Submission!ENext
    <3>5. CASE attempt[r].status \in Observable
      <4>1. \A q \in Revisions : Phase(q) = Phase(q)'
        BY <2>1, <3>1, <3>2, <3>5 DEF Phase, Observable, Declined
      <4> QED
        BY <2>1, <4>1 DEF Submission!evars, Sent
    <3> QED
      BY <3>3, <3>4, <3>5
  <2> QED
    BY <2>2, <2>3
<1> QED
  BY <1>1, <1>2, <1>3, <1>4, <1>5, <1>6, <1>7, <1>8
  DEF Next, vars, HandlerStep, RevisionStep, PromptStep, ObserverStep, PrepareRead,
      PrepareInvalidate, PrepareCommit, StartRead, HandlerFails, Approve, Reject,
      QuoteExpires, ObserveRead, ObserveRow, ObserverFails, OtherMoves

\* The handlers, the browser and the observers together keep the promise of
\* ExactSubmission: a preparation is asked for, declined and asked again, and
\* spent or signed once for all.
THEOREM ImplementsSubmission == Spec => ImplementsExactSubmission
  BY PhaseInit, PhaseNext, TypeCorrect, SubmissionInit, SubmissionNext, PTL
  DEF Spec, ImplementsExactSubmission, Submission!ESpec

(***************************************************************************)
(* The emergency stop: types                                               *)
(***************************************************************************)
LEMMA StopTypeInit == StopInit => StopTypeOK
  BY TypeInit DEF StopInit, StopTypeOK

LEMMA StopTypeNext == StopTypeOK /\ [StopNext]_stopvars => StopTypeOK'
<1> SUFFICES ASSUME StopTypeOK, [StopNext]_stopvars PROVE StopTypeOK'
  OBVIOUS
<1> USE DEF StopTypeOK
<1>1. CASE StopBegin
  BY <1>1 DEF StopBegin, vars, TypeOK
<1>2. CASE StopCommit
  <2>1. attempt' \in [Revisions -> AttemptRows]
    BY <1>2 DEF StopCommit, TypeOK, AttemptRows, AttemptStatuses, Declined
  <2>2. /\ status' \in ActionStatuses
        /\ approval' \in [Revisions -> {"NONE", "APPROVED", "REJECTED", "INVALIDATED"}]
        /\ stopped' \subseteq Revisions
    BY <1>2 DEF StopCommit, StoppedStatus, TypeOK, ActionStatuses
  <2>3. UNCHANGED <<current_revision, prepared, prompt, handler, observer>> /\ stop' = NotStopping
    BY <1>2 DEF StopCommit
  <2>4. older' \in [Revisions -> SUBSET (Others \cup Revisions)]
    BY <1>2 DEF StopCommit, TypeOK
  <2> QED
    BY <2>1, <2>2, <2>3, <2>4 DEF TypeOK
<1>3. CASE StopFails
  BY <1>3 DEF StopFails, vars, TypeOK
<1>4. CASE Next /\ UNCHANGED <<stop, stopped>>
  BY <1>4, TypeNext
<1>5. CASE UNCHANGED stopvars
  BY <1>5 DEF stopvars, vars, TypeOK
<1> QED
  BY <1>1, <1>2, <1>3, <1>4, <1>5 DEF StopNext

\* The stop leaves the rows of execution as the tables admit them, and holds
\* and remembers revisions.
THEOREM StopTypeCorrect == StopSpec => []StopTypeOK
  BY StopTypeInit, StopTypeNext, PTL DEF StopSpec

(***************************************************************************)
(* What was stopped is not handed to the wallet again.                     *)
(*                                                                         *)
(* A prompt needs a current revision and a ready action.  A stopped        *)
(* revision is current only while the action is REJECTED: the action       *)
(* leaves REJECTED by a preparation alone, and that takes a revision not   *)
(* prepared before.                                                        *)
(***************************************************************************)
StoppedInv ==
    /\ current_revision \in Revisions => prepared[current_revision] # NoPrepared
    /\ \A r \in stopped : /\ prepared[r] # NoPrepared
                          /\ current_revision = r => status = "REJECTED"

LEMMA StoppedInit == StopInit => StoppedInv
  BY DEF StopInit, Init, StoppedInv, Revisions

LEMMA StoppedNext == StopTypeOK /\ StoppedInv /\ [StopNext]_stopvars => StoppedInv'
<1> SUFFICES ASSUME StopTypeOK, StoppedInv, [StopNext]_stopvars PROVE StoppedInv'
  OBVIOUS
<1> USE DEF StopTypeOK, TypeOK, StoppedInv
<1>1. CASE UNCHANGED <<status, current_revision, prepared, stopped>>
  BY <1>1
<1>2. CASE StopCommit
  BY <1>2 DEF StopCommit, StoppedStatus
<1>3. CASE Next /\ UNCHANGED stopped
  <2>1. ASSUME NEW h \in Handlers, PrepareCommit(h) PROVE StoppedInv'
    <3> DEFINE r == handler[h].revision
    <3>1. r \in Revisions /\ current_revision' = r /\ prepared[r] = NoPrepared
      BY <2>1 DEF PrepareCommit, HandlerStates, IdleHandler
    <3>2. PICK e \in Evaluations : prepared' = [prepared EXCEPT ![r] = e]
      BY <2>1 DEF PrepareCommit
    <3>3. e # NoPrepared
      BY EvaluationsAssumption DEF Evaluation, NoPrepared, Checks
    <3> QED
      BY <1>3, <3>1, <3>2, <3>3
  <2>2. ASSUME NEW r \in Revisions, Approve(r) PROVE StoppedInv'
    BY <1>3, <2>2 DEF Approve, Decidable
  <2>3. ASSUME NEW r \in Revisions, Reject(r) PROVE StoppedInv'
    BY <1>3, <2>3 DEF Reject
  <2>4. ASSUME NEW r \in Revisions, QuoteExpires(r) PROVE StoppedInv'
    <3>1. \A q \in Revisions : prepared[q] # NoPrepared => prepared'[q] # NoPrepared
      BY <2>4 DEF QuoteExpires, PreparedRows, NoPrepared
    <3> QED
      BY <1>3, <2>4, <3>1 DEF QuoteExpires
  <2> QED
    BY <1>1, <1>3, <2>1, <2>2, <2>3, <2>4
    DEF Next, HandlerStep, RevisionStep, PromptStep, ObserverStep, PrepareRead,
        PrepareInvalidate, StartRead, StartCommit, HandlerFails, PromptLapses, WalletSends,
        WalletDeclines, ChainMoves, ReportSubmitted, ReportDeclined, ReportUnknown,
        AcceptReport, ObserveRead, ObserveRow, ObserveWrite, ObserverFails, OtherMoves
<1> QED
  BY <1>1, <1>2, <1>3 DEF StopNext, StopBegin, StopFails, stopvars, vars

\* Only a start issues a prompt, and a start needs a ready, current revision.
LEMMA PromptNeedsReady ==
    ASSUME StopTypeOK, [StopNext]_stopvars, NEW r \in Revisions,
           attempt'[r].status = "WALLET_PROMPTED"
    PROVE  \/ attempt[r].status = "WALLET_PROMPTED" /\ attempt'[r].token = attempt[r].token
           \/ status = "READY_FOR_EXECUTION" /\ current_revision = r
<1> USE DEF StopTypeOK, TypeOK
<1>1. CASE UNCHANGED attempt
  BY <1>1
<1>2. CASE StopCommit
  BY <1>2 DEF StopCommit, AttemptRows
<1>3. ASSUME NEW h \in Handlers, StartCommit(h)
      PROVE  attempt'[r] = attempt[r] \/ (status = "READY_FOR_EXECUTION" /\ current_revision = r)
  BY <1>3 DEF StartCommit
<1>4. ASSUME NEW q \in Revisions, PromptLapses(q)
      PROVE  attempt[r].status = "WALLET_PROMPTED" /\ attempt'[r].token = attempt[r].token
  BY <1>4 DEF PromptLapses, AttemptRows
<1>5. ASSUME NEW t \in PromptTokens, ReportSubmitted(t) \/ ReportDeclined(t) \/ ReportUnknown(t)
      PROVE  attempt'[r] = attempt[r]
  <2>1. PICK outcome \in Declined \cup {"SUBMITTED", "UNKNOWN"}, hash \in PromptTokens \cup {NULL} :
          attempt' = [attempt EXCEPT ![prompt[t].revision] =
                        [status |-> outcome, token |-> NULL, hash |-> hash, lapsed |-> FALSE]]
    <3>1. prompt[t].wallet # "UNUSED" => attempt[prompt[t].revision].hash \in PromptTokens \cup {NULL}
      BY DEF WalletPrompts, UnusedPrompt, AttemptRows
    <3> QED
      BY <1>5, <3>1 DEF ReportSubmitted, ReportDeclined, ReportUnknown, AcceptReport, ReportAccepted
  <2> QED
    BY <2>1 DEF Declined
<1>6. ASSUME NEW o \in Observers, ObserveWrite(o) PROVE attempt'[r] = attempt[r]
  <2>1. observer[o].next \in Observations
    BY <1>6 DEF ObserveWrite, ObserverStates
  <2>2. CASE r = observer[o].revision /\ attempt' # attempt
    BY <1>6, <2>1, <2>2 DEF ObserveWrite, AttemptRows, Observations, Terminal
  <2> QED
    BY <1>6, <2>2 DEF ObserveWrite
<1> QED
  BY <1>1, <1>2, <1>3, <1>4, <1>5, <1>6
  DEF StopNext, StopBegin, StopFails, stopvars, vars, Next, HandlerStep, RevisionStep,
      PromptStep, ObserverStep, PrepareRead, PrepareInvalidate, PrepareCommit, StartRead,
      HandlerFails, Approve, Reject, QuoteExpires, WalletSends, WalletDeclines, ChainMoves,
      ObserveRead, ObserveRow, ObserverFails, OtherMoves

\* A revision that was stopped while current never reaches the wallet again,
\* whatever starts, preparations and decisions were in flight at the stop.
THEOREM StoppedStaysUnprompted == StopSpec => StoppedIsNotPrompted
<1>1. StopTypeOK /\ StoppedInv /\ [StopNext]_stopvars =>
        [\A r \in stopped : attempt'[r].status = "WALLET_PROMPTED" =>
           attempt[r].status = "WALLET_PROMPTED" /\ attempt'[r].token = attempt[r].token]_stopvars
  <2> SUFFICES ASSUME StopTypeOK, StoppedInv, [StopNext]_stopvars, NEW r \in stopped,
                      attempt'[r].status = "WALLET_PROMPTED"
               PROVE  attempt[r].status = "WALLET_PROMPTED" /\ attempt'[r].token = attempt[r].token
    OBVIOUS
  <2>1. r \in Revisions /\ (current_revision = r => status = "REJECTED")
    BY DEF StopTypeOK, StoppedInv
  <2> QED
    BY <2>1, PromptNeedsReady
<1> QED
  BY <1>1, StopTypeCorrect, StoppedInit, StoppedNext, PTL DEF StopSpec, StoppedIsNotPrompted
=============================================================================
