------------------------------ MODULE Execution ------------------------------
(***************************************************************************)
(* The life of one financial action: preparation, approval, wallet prompt, *)
(* submission and observation (packages/execution/src/index.ts), together  *)
(* with the browser wallet and the chain as that code uses them.           *)
(*                                                                         *)
(* Every database row is one variable.  A request handler of the API is    *)
(* cut where it awaits something slow or where another transaction can     *)
(* commit in between; what one transaction does under its row locks is one *)
(* action.  The rows are those of a single action id: actions of different *)
(* ids share no row.                                                       *)
(***************************************************************************)
EXTENDS Integers, FiniteSets

CONSTANTS
    Handlers,       \* API requests that may be in progress at the same time
    Observers,      \* replicas of the worker's transactionObservationLoop
    PromptTokens,   \* wallet prompts ever issued for the action (a bound)
    MaxRevision,    \* preparations of the action (a bound)
    Evaluations,    \* what checks and policy may answer to a preparation
    Others,         \* attempts of other actions that the same pass may select
    Batch,          \* the LIMIT of that selection (25)
    NULL            \* a NULL column

AuthorityDecisions == {"ALLOWED", "APPROVAL_REQUIRED", "DENIED"}

\* FAILED: validation or a blocking risk check.  NO_QUOTE: a swap or bridge
\* without an executable quote.
Checks == {"OK", "NO_QUOTE", "FAILED"}

\* A quote expires, a transfer has none.
Evaluation ==
    [authority : AuthorityDecisions, checks : Checks, expiry : {"NONE", "LIVE"}]

ASSUME MaxRevisionAssumption == MaxRevision \in Nat \ {0}
ASSUME EvaluationsAssumption == Evaluations \subseteq Evaluation
ASSUME NullAssumption == NULL \notin PromptTokens
ASSUME BatchAssumption == Batch \in Nat \ {0}

Revisions == 1 .. MaxRevision

VARIABLES
    status,            \* financial_action.status
    current_revision,  \* financial_action.current_revision
    prepared,          \* prepared_action_revision, by revision
    approval,          \* action_approval.decision, by revision
    attempt,           \* transaction_attempt, by revision
    prompt,            \* what became of each wallet prompt, off the database
    handler,           \* locals of the API requests in progress
    observer,          \* the row and the RPC answer an observer holds
    older              \* the rows whose updated_at is before an attempt's

vars == <<status, current_revision, prepared, approval, attempt, prompt,
          handler, observer, older>>

-----------------------------------------------------------------------------
ActionStatuses == {"DRAFT", "PREPARED", "APPROVAL_REQUIRED", "DENIED",
                   "READY_FOR_EXECUTION", "REJECTED"}
Declined   == {"USER_REJECTED", "PRE_SUBMISSION_FAILED"}
Observable == {"SUBMITTED", "CONFIRMING", "UNKNOWN"}
Terminal   == {"CONFIRMED", "REVERTED", "MISMATCH"}
AttemptStatuses == {"WALLET_PROMPTED"} \cup Declined \cup Observable \cup Terminal

NoPrepared == [authority |-> "NONE", checks |-> "NONE", expiry |-> "NONE"]
PreparedRows ==
    [authority : AuthorityDecisions, checks : Checks,
     expiry : {"NONE", "LIVE", "EXPIRED"}] \cup {NoPrepared}

NoAttempt == [status |-> "NONE", token |-> NULL, hash |-> NULL, lapsed |-> FALSE]
AttemptRows ==
    [status : AttemptStatuses \cup {"NONE"}, token : PromptTokens \cup {NULL},
     hash : PromptTokens \cup {NULL}, lapsed : BOOLEAN]

\* A transaction has the identity of the prompt that produced it, so a hash
\* is a prompt token.  "exact": it is the request the user was shown.
UnusedPrompt == [revision |-> 0, wallet |-> "UNUSED", tx |-> "NONE", exact |-> TRUE]
WalletPrompts ==
    [revision : Revisions, wallet : {"OPEN", "DECLINED", "SENT"},
     tx : {"NONE", "PENDING", "SUCCESS", "REVERTED"}, exact : BOOLEAN] \cup {UnusedPrompt}

IdleHandler == [op |-> "IDLE", revision |-> 0, locked |-> {}]
HandlerStates ==
    [op : {"PREPARE", "COMMIT", "START"}, revision : Revisions, locked : SUBSET Revisions]
        \cup {IdleHandler}

Observations == {"UNKNOWN", "CONFIRMING"} \cup Terminal
IdleObserver == [revision |-> 0, was |-> "NONE", next |-> "NONE"]
ObserverStates ==
    [revision : Revisions, was : {"WALLET_PROMPTED"} \cup Observable, next : Observations]
        \cup {IdleObserver}

TypeOK ==
    /\ status \in ActionStatuses
    /\ current_revision \in Revisions \cup {0}
    /\ prepared \in [Revisions -> PreparedRows]
    /\ approval \in [Revisions -> {"NONE", "APPROVED", "REJECTED", "INVALIDATED"}]
    /\ attempt \in [Revisions -> AttemptRows]
    /\ prompt \in [PromptTokens -> WalletPrompts]
    /\ handler \in [Handlers -> HandlerStates]
    /\ observer \in [Observers -> ObserverStates]
    /\ older \in [Revisions -> SUBSET (Others \cup Revisions)]

\* The row createFinancialAction has just inserted.
Init ==
    /\ status = "DRAFT"
    /\ current_revision = 0
    /\ prepared = [r \in Revisions |-> NoPrepared]
    /\ approval = [r \in Revisions |-> "NONE"]
    /\ attempt = [r \in Revisions |-> NoAttempt]
    /\ prompt = [t \in PromptTokens |-> UnusedPrompt]
    /\ handler = [h \in Handlers |-> IdleHandler]
    /\ observer = [o \in Observers |-> IdleObserver]
    /\ older = [r \in Revisions |-> {}]

\* An UPDATE or INSERT of an attempt sets its updated_at to now.
Touch(r) ==
    older' = [q \in Revisions |->
                IF q = r THEN Others \cup (Revisions \ {r}) ELSE older[q] \ {r}]

-----------------------------------------------------------------------------
(* prepareFinancialAction                                                  *)

\* The newest attempt, if any, ended before anything was submitted.
ExecutionUnlocked ==
    \A r \in Revisions :
        (attempt[r].status # "NONE" /\ \A q \in Revisions : q > r => attempt[q].status = "NONE")
            => attempt[r].status \in Declined

\* The action row and the execution lock are read; then the handler spends
\* seconds in price feeds, quotes, preflight and the authority evaluation.
PrepareRead(h) ==
    /\ handler[h].op = "IDLE"
    /\ current_revision < MaxRevision
    /\ ExecutionUnlocked
    /\ handler' = [handler EXCEPT ![h] =
                     [op |-> "PREPARE", revision |-> current_revision + 1, locked |-> {}]]
    /\ UNCHANGED <<status, current_revision, prepared, approval, attempt, prompt, observer, older>>

Approved == {r \in Revisions : approval[r] = "APPROVED"}

LockedBy(h) == IF handler[h].op = "COMMIT" THEN handler[h].locked ELSE {}

\* First statement of the transaction: the approvals that are APPROVED now are
\* updated, which locks those rows.  Nobody sees the update before the commit.
PrepareInvalidate(h) ==
    /\ handler[h].op = "PREPARE"
    /\ \A g \in Handlers : LockedBy(g) \cap Approved = {}
    /\ handler' = [handler EXCEPT ![h] =
                     [op |-> "COMMIT", revision |-> handler[h].revision, locked |-> Approved]]
    /\ UNCHANGED <<status, current_revision, prepared, approval, attempt, prompt, observer, older>>

\* Slip: an action that needs approval is offered for it without a quote.
PreparedStatusSlip(e) ==
    IF e.checks = "FAILED" \/ e.authority = "DENIED" THEN "DENIED"
    ELSE IF e.authority = "APPROVAL_REQUIRED" THEN "APPROVAL_REQUIRED"
    ELSE IF e.checks = "NO_QUOTE" THEN "PREPARED"
    ELSE "READY_FOR_EXECUTION"

PreparedStatus(e) ==
    IF e.checks = "FAILED" \/ e.authority = "DENIED" THEN "DENIED"
    ELSE IF e.checks = "NO_QUOTE" THEN "PREPARED"
    ELSE IF e.authority = "APPROVAL_REQUIRED" THEN "APPROVAL_REQUIRED"
    ELSE "READY_FOR_EXECUTION"

\* The rest of the transaction.  The primary key (action_id, revision) refuses
\* a revision somebody else has committed; the status is overwritten whatever
\* it has become since PrepareRead.
PrepareCommit(h) ==
    LET r == handler[h].revision IN
    /\ handler[h].op = "COMMIT"
    /\ prepared[r] = NoPrepared
    /\ \E e \in Evaluations :
         /\ prepared' = [prepared EXCEPT ![r] = e]
         /\ status' = PreparedStatus(e)
    /\ current_revision' = r
    /\ approval' = [q \in Revisions |->
                      IF q \in handler[h].locked THEN "INVALIDATED" ELSE approval[q]]
    /\ handler' = [handler EXCEPT ![h] = IdleHandler]
    /\ UNCHANGED <<attempt, prompt, observer, older>>

\* A preparation's quote, and the approval that copies its expiry, runs out.
QuoteExpires(r) ==
    /\ prepared[r].expiry = "LIVE"
    /\ prepared' = [prepared EXCEPT ![r].expiry = "EXPIRED"]
    /\ UNCHANGED <<status, current_revision, approval, attempt, prompt, handler, observer, older>>

\* Any refusal, exception or restart of the API: the transaction rolls back.
HandlerFails(h) ==
    /\ handler[h].op # "IDLE"
    /\ handler' = [handler EXCEPT ![h] = IdleHandler]
    /\ UNCHANGED <<status, current_revision, prepared, approval, attempt, prompt, observer, older>>

-----------------------------------------------------------------------------
(* decideActionApproval: one transaction under FOR UPDATE on the action    *)

LatestPrepared(r) ==
    /\ prepared[r] # NoPrepared
    /\ \A q \in Revisions : q > r => prepared[q] = NoPrepared

\* WALLET_PROMPTED is not among the statuses that refuse a decision.  The
\* upsert waits for a transaction that holds the approval row.
Decidable(r) ==
    /\ LatestPrepared(r)
    /\ prepared[r].expiry # "EXPIRED"
    /\ \A q \in Revisions : attempt[q].status \notin Observable \cup {"CONFIRMED"}
    /\ current_revision = r
    /\ \A h \in Handlers : r \notin LockedBy(h)

Approve(r) ==
    /\ Decidable(r)
    /\ prepared[r].authority = "APPROVAL_REQUIRED"
    /\ status = "APPROVAL_REQUIRED"
    /\ approval' = [approval EXCEPT ![r] = "APPROVED"]
    /\ status' = "READY_FOR_EXECUTION"
    /\ UNCHANGED <<current_revision, prepared, attempt, prompt, handler, observer, older>>

Reject(r) ==
    /\ Decidable(r)
    /\ status \in {"DRAFT", "PREPARED", "APPROVAL_REQUIRED", "READY_FOR_EXECUTION"}
    /\ approval' = [approval EXCEPT ![r] = "REJECTED"]
    /\ status' = "REJECTED"
    /\ UNCHANGED <<current_revision, prepared, attempt, prompt, handler, observer, older>>

-----------------------------------------------------------------------------
(* startConnectedWalletExecution                                           *)

CurrentApproval(r) == approval[r] = "APPROVED" /\ prepared[r].expiry # "EXPIRED"

\* Everything up to the transaction: the gates, then the authority evaluation
\* and the gas preflight, which take seconds.
StartRead(h) ==
    \E r \in Revisions :
        /\ handler[h].op = "IDLE"
        /\ LatestPrepared(r)
        /\ status = "READY_FOR_EXECUTION"
        /\ prepared[r].checks = "OK"
        /\ CurrentApproval(r)
        /\ handler' = [handler EXCEPT ![h] = [op |-> "START", revision |-> r, locked |-> {}]]
        /\ UNCHANGED <<status, current_revision, prepared, approval, attempt, prompt,
                       observer, older>>

\* Slip: an uncertain attempt is started again.
MayPromptSlip(r) == attempt[r].status \in Declined \cup {"NONE", "UNKNOWN"}

MayPrompt(r) == attempt[r].status \in Declined \cup {"NONE"}

\* The transaction, under FOR UPDATE on the action: a first attempt of the
\* revision is inserted, one that ended before submission is reset.
StartCommit(h) ==
    LET r == handler[h].revision IN
    /\ handler[h].op = "START"
    /\ status = "READY_FOR_EXECUTION"
    /\ current_revision = r
    /\ CurrentApproval(r)
    /\ MayPrompt(r)
    /\ \E t \in PromptTokens :
         /\ prompt[t].wallet = "UNUSED"
         /\ attempt' = [attempt EXCEPT ![r].status = "WALLET_PROMPTED",
                                       ![r].token = t, ![r].lapsed = FALSE]
         /\ prompt' = [prompt EXCEPT ![t].revision = r, ![t].wallet = "OPEN"]
    /\ handler' = [handler EXCEPT ![h] = IdleHandler]
    /\ Touch(r)
    /\ UNCHANGED <<status, current_revision, prepared, approval, observer>>

-----------------------------------------------------------------------------
(* The browser: submitConnectedWalletRequest and the wallet behind it.  A  *)
(* prompt the user never answers stays OPEN, also after the server gave up.*)

WalletSends(t) ==
    /\ prompt[t].wallet = "OPEN"
    /\ \E exact \in BOOLEAN :
         prompt' = [prompt EXCEPT ![t].wallet = "SENT", ![t].tx = "PENDING", ![t].exact = exact]
    /\ UNCHANGED <<status, current_revision, prepared, approval, attempt, handler, observer, older>>

WalletDeclines(t) ==
    /\ prompt[t].wallet = "OPEN"
    /\ prompt' = [prompt EXCEPT ![t].wallet = "DECLINED"]
    /\ UNCHANGED <<status, current_revision, prepared, approval, attempt, handler, observer, older>>

\* The chain mines a broadcast transaction, or the mempool forgets it.
ChainMoves(t) ==
    /\ prompt[t].tx = "PENDING"
    /\ \E tx \in {"SUCCESS", "REVERTED", "NONE"} : prompt' = [prompt EXCEPT ![t].tx = tx]
    /\ UNCHANGED <<status, current_revision, prepared, approval, attempt, handler, observer, older>>

-----------------------------------------------------------------------------
(* reportConnectedWalletResult: FOR UPDATE on the attempt.  The token, not *)
(* the clock, decides: a late report counts until an observer has expired  *)
(* the prompt.                                                             *)

\* Slip: any report on a prompted attempt counts, a repeated one included.
ReportAcceptedSlip(t) ==
    prompt[t].wallet # "UNUSED" /\ attempt[prompt[t].revision].status = "WALLET_PROMPTED"

ReportAccepted(t) ==
    /\ prompt[t].wallet # "UNUSED"
    /\ attempt[prompt[t].revision].status = "WALLET_PROMPTED"
    /\ attempt[prompt[t].revision].token = t

AcceptReport(t, outcome, hash) ==
    LET r == prompt[t].revision IN
    /\ ReportAccepted(t)
    /\ attempt' = [attempt EXCEPT ![r] =
                     [status |-> outcome, token |-> NULL, hash |-> hash, lapsed |-> FALSE]]
    /\ Touch(r)
    /\ UNCHANGED <<status, current_revision, prepared, approval, prompt, handler, observer>>

ReportSubmitted(t) == prompt[t].wallet = "SENT" /\ AcceptReport(t, "SUBMITTED", t)

ReportDeclined(t) ==
    /\ prompt[t].wallet = "DECLINED"
    /\ \E outcome \in Declined : AcceptReport(t, outcome, attempt[prompt[t].revision].hash)

\* walletErrorClassification: any other error, also a SUBMITTED report that
\* failed on its way to the server.
ReportUnknown(t) == AcceptReport(t, "UNKNOWN", attempt[prompt[t].revision].hash)

-----------------------------------------------------------------------------
(* observePendingTransactionAttempts and observeOne                        *)

PromptLapses(r) ==
    /\ attempt[r].status = "WALLET_PROMPTED" /\ ~attempt[r].lapsed
    /\ attempt' = [attempt EXCEPT ![r].lapsed = TRUE]
    /\ UNCHANGED <<status, current_revision, prepared, approval, prompt, handler, observer, older>>

\* Slip: a mined receipt is believed without comparing the transaction.
AnswersSlip(p) ==
    {"UNKNOWN", "CONFIRMING"} \cup
    IF p.tx = "SUCCESS" THEN {"CONFIRMED"} ELSE IF p.tx = "REVERTED" THEN {"REVERTED"} ELSE {}

\* What the RPC providers may answer about a hash: an error or nothing for too
\* long, nothing yet or no receipt yet, and what is really there.
Answers(p) ==
    {"UNKNOWN", "CONFIRMING"} \cup
    IF p.tx = "NONE" THEN {}
    ELSE IF ~p.exact THEN {"MISMATCH"}
    ELSE IF p.tx = "SUCCESS" THEN {"CONFIRMED"}
    ELSE IF p.tx = "REVERTED" THEN {"REVERTED"}
    ELSE {}

\* Slip: an UNKNOWN attempt is not looked at again.
PendingSlip(r) ==
    attempt[r].status \in {"SUBMITTED", "CONFIRMING"} /\ attempt[r].hash # NULL

Pending(r) == attempt[r].status \in Observable /\ attempt[r].hash # NULL

\* Slip: a prompt is only expired once it has been answered.
PromptExpiredSlip(r) ==
    attempt[r].status = "WALLET_PROMPTED" /\ attempt[r].lapsed /\ attempt[r].hash # NULL

PromptExpired(r) == attempt[r].status = "WALLET_PROMPTED" /\ attempt[r].lapsed

\* Rows of other actions count as due until they move, open prompts included:
\* this can only keep a row of this action waiting for longer.
Due(x) == x \in Others \/ (x \in Revisions /\ (PromptExpired(x) \/ Pending(x)))

\* The selection is ordered by updated_at and limited.  A row that stays
\* UNKNOWN because its lookup fails or finds nothing keeps its place.
InBatch(r) == Cardinality({x \in older[r] : Due(x)}) < Batch

\* The row is selected and, if it has a hash, the providers are asked.
ObserveRow(o, r, next) ==
    /\ observer[o] = IdleObserver
    /\ InBatch(r)
    /\ \/ PromptExpired(r) /\ next = "UNKNOWN"
       \/ Pending(r) /\ next \in Answers(prompt[attempt[r].hash])
    /\ observer' = [observer EXCEPT ![o] =
                      [revision |-> r, was |-> attempt[r].status, next |-> next]]
    /\ UNCHANGED <<status, current_revision, prepared, approval, attempt, prompt, handler, older>>

\* Slip: the UPDATE of a polled row is not guarded.
ObservationAppliesSlip(o) ==
    LET was == observer[o].was IN
    IF was = "WALLET_PROMPTED"
    THEN attempt[observer[o].revision].status = "WALLET_PROMPTED"
    ELSE ~(was = "UNKNOWN" /\ observer[o].next = "UNKNOWN")

\* The UPDATE, whose WHERE re-checks the status and nothing else.
ObservationApplies(o) ==
    LET r == observer[o].revision  was == observer[o].was IN
    IF was = "WALLET_PROMPTED"
    THEN attempt[r].status = "WALLET_PROMPTED"
    ELSE /\ attempt[r].status \in Observable
         /\ ~(was = "UNKNOWN" /\ observer[o].next = "UNKNOWN")

ObserveWrite(o) ==
    LET r == observer[o].revision IN
    /\ observer[o] # IdleObserver
    /\ IF ObservationApplies(o)
       THEN /\ attempt' = [attempt EXCEPT ![r].status = observer[o].next, ![r].token = NULL]
            /\ Touch(r)
       ELSE UNCHANGED <<attempt, older>>
    /\ observer' = [observer EXCEPT ![o] = IdleObserver]
    /\ UNCHANGED <<status, current_revision, prepared, approval, prompt, handler>>

\* A worker replica restarts between the two, or the UPDATE fails.
ObserverFails(o) ==
    /\ observer[o] # IdleObserver
    /\ observer' = [observer EXCEPT ![o] = IdleObserver]
    /\ UNCHANGED <<status, current_revision, prepared, approval, attempt, prompt, handler, older>>

-----------------------------------------------------------------------------
(* An attempt of another action is written: it is settled, or goes on being *)
(* due behind the others.                                                  *)

OtherMoves(x) ==
    /\ \E r \in Revisions : x \in older[r]
    /\ older' = [r \in Revisions |-> older[r] \ {x}]
    /\ UNCHANGED <<status, current_revision, prepared, approval, attempt, prompt,
                   handler, observer>>

-----------------------------------------------------------------------------
HandlerStep(h) ==
    \/ PrepareRead(h) \/ PrepareInvalidate(h) \/ PrepareCommit(h)
    \/ StartRead(h) \/ StartCommit(h) \/ HandlerFails(h)

RevisionStep(r) == Approve(r) \/ Reject(r) \/ QuoteExpires(r) \/ PromptLapses(r)

PromptStep(t) ==
    \/ WalletSends(t) \/ WalletDeclines(t) \/ ChainMoves(t)
    \/ ReportSubmitted(t) \/ ReportDeclined(t) \/ ReportUnknown(t)

ObserveRead(o) == \E r \in Revisions, next \in Observations : ObserveRow(o, r, next)

ObserverStep(o) == ObserveRead(o) \/ ObserveWrite(o) \/ ObserverFails(o)

Next ==
    \/ \E h \in Handlers : HandlerStep(h)
    \/ \E r \in Revisions : RevisionStep(r)
    \/ \E t \in PromptTokens : PromptStep(t)
    \/ \E o \in Observers : ObserverStep(o)
    \/ \E x \in Others : OtherMoves(x)

Spec == Init /\ [][Next]_vars

\* The worker polls forever and prompts run out.  What a pass can select again
\* and again is looked at again and again, with providers that do not fail on
\* every look at a mined transaction, and not every worker restart falls
\* between an answer and its UPDATE.  Nothing is assumed of other attempts,
\* which may fill the batch for ever.
Fairness ==
    /\ \A r \in Revisions : WF_vars(PromptLapses(r))
    /\ \A o \in Observers :
         /\ WF_vars(ObserveWrite(o) \/ ObserverFails(o))
         /\ SF_vars(observer[o].next \in Terminal /\ ObserveWrite(o))
         /\ SF_vars(observer[o].was = "WALLET_PROMPTED" /\ ObserveWrite(o))
         /\ \A r \in Revisions :
              /\ SF_vars(PromptExpired(r) /\ ObserveRow(o, r, "UNKNOWN"))
              /\ SF_vars(\E next \in Terminal : ObserveRow(o, r, next))

FairSpec == Spec /\ Fairness

-----------------------------------------------------------------------------
(* Properties                                                              *)

\* A prompt whose transaction is on its way, or may still be sent.
Live(t) == prompt[t].wallet \in {"OPEN", "SENT"}
Sent(t) == prompt[t].wallet = "SENT"

\* One exact preparation is submitted at most once, whatever is clicked,
\* retried, expired or reported twice: the unique execution key and the rules
\* for resetting an attempt (startConnectedWalletExecution) together with the
\* one-time token (reportConnectedWalletResult) allow a second signature only
\* when the first can no longer be given.
PreparationSubmittedOnce ==
    \A t, u \in PromptTokens :
        Sent(t) /\ Sent(u) /\ prompt[t].revision = prompt[u].revision => t = u

\* While an attempt says that the user rejected or that the wallet stopped
\* before submission ("Nothing was submitted", reportConnectedWalletResult),
\* no prompt of its revision was signed or can still be.
DeclinedMeansNothingSubmitted ==
    \A r \in Revisions : attempt[r].status \in Declined =>
        \A t \in PromptTokens : prompt[t].revision = r => ~Live(t)

\* What observeOne settles on is what happened to the exact transaction of
\* that revision, though the row and the providers were read earlier and other
\* observers wrote in between.
SettledTruthfully ==
    \A r \in Revisions : attempt[r].status \in Terminal =>
        LET t == attempt[r].hash IN
        /\ t # NULL
        /\ prompt[t].revision = r
        /\ Sent(t)
        /\ attempt[r].status = "CONFIRMED" => prompt[t].exact /\ prompt[t].tx = "SUCCESS"
        /\ attempt[r].status = "REVERTED" => prompt[t].exact /\ prompt[t].tx = "REVERTED"
        /\ attempt[r].status = "MISMATCH" => ~prompt[t].exact

\* READY_FOR_EXECUTION is a statement about the current revision: its checks
\* passed and policy allowed it, or it has the user's approval and no
\* concurrent preparation or rejection has taken that away.
ReadyIsCleared ==
    status = "READY_FOR_EXECUTION" =>
        /\ current_revision \in Revisions
        /\ prepared[current_revision].checks = "OK"
        /\ \/ prepared[current_revision].authority = "ALLOWED"
           \/ /\ prepared[current_revision].authority = "APPROVAL_REQUIRED"
              /\ approval[current_revision] = "APPROVED"

\* A recorded hash is never replaced and a settled attempt never reopened, by
\* no observer however old the row it holds and by no later start or report.
SettledStaysSettled ==
    [][\A r \in Revisions :
         /\ attempt[r].hash # NULL => attempt'[r].hash = attempt[r].hash
         /\ attempt[r].status \in Terminal => attempt'[r].status = attempt[r].status]_vars

\* An attempt with a hash whose transaction is mined, also one that went
\* UNKNOWN meanwhile, is settled by the observation loop in the end, unless
\* from some time on a batch of older rows is due that nobody can settle.
SubmittedIsSettled ==
    \A r \in Revisions : []<>InBatch(r) =>
        \A t \in PromptTokens :
            (attempt[r].hash = t /\ prompt[t].tx \in {"SUCCESS", "REVERTED"})
                ~> attempt[r].status \in Terminal

\* No prompt is waited for indefinitely: it is answered or the observer gives
\* it up, also when an observer restarts or acts on an old row, with the same
\* exception.
PromptIsResolved ==
    \A r \in Revisions : []<>InBatch(r) =>
        \A t \in PromptTokens : attempt[r].token = t ~> attempt[r].token # t

\* docs/MILESTONE-9-TESTING.md:61: once a hash is submitted, another execution
\* call for the action is refused.
NoSecondSubmission ==
    [][\A r, q \in Revisions :
         attempt[r].token = NULL /\ attempt'[r].token # NULL => attempt[q].hash = NULL]_vars

-----------------------------------------------------------------------------
(* The promise this implements                                             *)

Phase(r) ==
    IF attempt[r].status = "NONE" THEN "IDLE"
    ELSE IF attempt[r].status = "WALLET_PROMPTED" THEN "ASKED"
    ELSE IF attempt[r].status \in Declined THEN "DECLINED"
    ELSE "SPENT"

Submission == INSTANCE ExactSubmission WITH
    Preparations <- Revisions,
    Transactions <- PromptTokens,
    phase <- [r \in Revisions |-> Phase(r)],
    signed <- [r \in Revisions |-> {t \in PromptTokens : Sent(t) /\ prompt[t].revision = r}]

\* Every step of the code's handlers, the browser and the observers is a step
\* of ExactSubmission or leaves its state alone.
ImplementsExactSubmission == Submission!ESpec
=============================================================================
