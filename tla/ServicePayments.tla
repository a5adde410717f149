--------------------------- MODULE ServicePayments ---------------------------
(***************************************************************************)
(* What the tasks of one job pay to external services over x402            *)
(* (packages/telegraph/src/runtime.ts): the worker runtime asks, is        *)
(* answered 402, signs the cheapest requirement, reserves it in            *)
(* telegraph_service_payment, sends the signed authorization and records   *)
(* what it hears of it. A charge above the user's threshold needs a        *)
(* service cost review first.                                              *)
(*                                                                         *)
(* A request stands for one request_fingerprint. The fallback loop and the *)
(* leases of the task queue decide when it is made: here any runtime may   *)
(* make any request at any time, and again, since a task whose lease       *)
(* lapsed is processed twice. Runtimes die between two steps. A service    *)
(* that holds an authorization takes its transfer at any time or never,    *)
(* and answers what it likes: its receipts are not checked, and true or    *)
(* false.                                                                  *)
(***************************************************************************)
EXTENDS Naturals, FiniteSets, FiniteSetsExt, Functions

CONSTANTS
    Runtimes,       \* worker runtimes
    Requests,       \* exact requests of the tasks of the job
    Amounts,        \* atomic USDC amounts a service may ask for
    MaxCallAtomic, MaxJobAtomic, MaxCallsPerJob,
    Cent,           \* atomic units in a cent
    Thresholds,     \* values of single_job_threshold_cents
    NULL

ASSUME AmountsAssumption == Amounts \subseteq Nat \ {0} /\ Thresholds \subseteq Nat
ASSUME LimitsAssumption ==
    MaxCallAtomic \in Nat /\ MaxJobAtomic \in Nat /\ MaxCallsPerJob \in Nat /\ Cent \in Nat \ {0}

VARIABLES
    ledger,         \* telegraph_service_payment by request, NULL without a row
    review,         \* the latest service_cost_review of a request and an amount
    threshold,      \* single_job_threshold_cents of billing_account
    lock,           \* who holds the advisory lock of the job
    proc,           \* what each runtime is doing
    sent,           \* signed authorizations that were sent
    taken,          \* those whose transfer the service has settled
    confirmed,      \* those of which a receipt was heard that they settled
    denied          \* those of which one was heard that they did not

runtime == <<lock, proc>>
service == <<sent, taken, confirmed, denied>>
vars == <<ledger, review, threshold, runtime, service>>

Idle == [stage |-> "IDLE"]
Stages == {"SIGNED", "CLEARED", "RESERVED", "SENT"}
Calls == [stage : Stages, request : Requests, amount : Amounts]
Statuses == {"reserved", "settled", "failed", "unknown"}
Rows == [status : Statuses, amount : Amounts]
ASSUME NullAssumption == NULL \notin Runtimes \cup Rows
Reviews == {"NONE", "PENDING", "APPROVED", "REJECTED", "EXPIRED"}
Authorizations == [request : Requests, amount : Amounts, nonce : Nat]

TypeOK ==
    /\ ledger \in [Requests -> Rows \cup {NULL}]
    /\ review \in [Requests \X Amounts -> Reviews]
    /\ threshold \in Thresholds
    /\ proc \in [Runtimes -> Calls \cup {Idle}]
    /\ lock \in Runtimes \cup {NULL} /\ \A w \in Runtimes : lock = w <=> proc[w].stage = "CLEARED"
    /\ sent \subseteq Authorizations
    /\ taken \subseteq sent /\ confirmed \subseteq sent /\ denied \subseteq sent

Init ==
    /\ ledger = [q \in Requests |-> NULL]
    /\ review = [x \in Requests \X Amounts |-> "NONE"]
    /\ threshold \in Thresholds
    /\ lock = NULL /\ proc = [w \in Runtimes |-> Idle]
    /\ sent = {} /\ taken = {} /\ confirmed = {} /\ denied = {}

Committed == {q \in Requests : ledger[q] # NULL /\ ledger[q].status \in {"reserved", "settled", "unknown"}}
CommittedAtomic == SumFunction([q \in Committed |-> ledger[q].amount])

\* Atomic units in cents, rounded up.
Cents(amount) == (amount + Cent - 1) \div Cent

-----------------------------------------------------------------------------
(* A call (invokeTelegraphMappedService)                                   *)

\* selectTelegraphPaymentChallenge: the cheapest acceptable requirement.
Acceptable(accepts) == {a \in accepts : a <= MaxCallAtomic}

\* The service is asked, and what it wants for the answer is signed.
Ask(w, q, accepts) ==
    /\ proc[w] = Idle
    /\ Acceptable(accepts) # {}
    /\ proc' = [proc EXCEPT ![w] = [stage |-> "SIGNED", request |-> q, amount |-> Min(Acceptable(accepts))]]
    /\ UNCHANGED <<ledger, review, threshold, lock, service>>

\* Slip: the budget is read without the advisory lock.
LockFreeSlip(w) == TRUE

LockFree(w) == lock = NULL

\* Slip: a request that failed may be paid again, as its row is not in the budget.
UnpaidSlip(q) == ledger[q] = NULL \/ ledger[q].status = "failed"

Unpaid(q) == ledger[q] = NULL

WithinBudget(amount) ==
    /\ CommittedAtomic + amount <= MaxJobAtomic
    /\ Cardinality(Committed) < MaxCallsPerJob

\* reserveServicePayment takes the lock of the job and refuses a duplicate and
\* what exceeds the budget.
BeginReserve(w) ==
    /\ proc[w].stage = "SIGNED" /\ LockFree(w)
    /\ IF Unpaid(proc[w].request) /\ WithinBudget(proc[w].amount)
       THEN lock' = w /\ proc' = [proc EXCEPT ![w].stage = "CLEARED"]
       ELSE proc' = [proc EXCEPT ![w] = Idle] /\ UNCHANGED lock
    /\ UNCHANGED <<ledger, review, threshold, service>>

\* Slip: a review approves its request at any amount.
ReviewedSlip(q, amount) == \E a \in Amounts : review[<<q, a>>] = "APPROVED"

Reviewed(q, amount) == review[<<q, amount>>] = "APPROVED"

NeedsReview(amount) == Cents(amount) > threshold

\* The rest of reserveServicePayment for a charge that needs a review and has
\* none: a review is opened unless there is one, and the call ends.
RequireReview(w) ==
    LET q == proc[w].request  amount == proc[w].amount IN
    /\ proc[w].stage = "CLEARED"
    /\ NeedsReview(amount) /\ ~Reviewed(q, amount)
    /\ review' = [review EXCEPT ![<<q, amount>>] = IF @ \in {"NONE", "EXPIRED"} THEN "PENDING" ELSE @]
    /\ lock' = NULL /\ proc' = [proc EXCEPT ![w] = Idle]
    /\ UNCHANGED <<ledger, threshold, service>>

\* ... and for a charge that may be made. A request has one row.
reserveServicePayment(w) ==
    LET q == proc[w].request  amount == proc[w].amount IN
    /\ proc[w].stage = "CLEARED"
    /\ ~NeedsReview(amount) \/ Reviewed(q, amount)
    /\ ledger' = [ledger EXCEPT ![q] = [status |-> "reserved", amount |-> amount]]
    /\ lock' = NULL /\ proc' = [proc EXCEPT ![w].stage = "RESERVED"]
    /\ UNCHANGED <<review, threshold, service>>

\* The paid request is sent, with an authorization whose nonce is new.
SendPaid(w) ==
    /\ proc[w].stage = "RESERVED"
    /\ sent' = sent \cup {[request |-> proc[w].request, amount |-> proc[w].amount,
                           nonce |-> Cardinality(sent)]}
    /\ proc' = [proc EXCEPT ![w].stage = "SENT"]
    /\ UNCHANGED <<ledger, review, threshold, lock, taken, confirmed, denied>>

Own(w, x) == x.request = proc[w].request /\ x.amount = proc[w].amount

\* What the payment-response header of an answer says; "none" as well without
\* an answer.
Receipts == {"success", "failure", "none"}

\* Slip: an answer that is an error is recorded as a failure.
OutcomeSlip(receipt, ok) ==
    CASE receipt = "success" /\ ok -> "settled"
      [] receipt = "failure" \/ ~ok -> "failed"
      [] OTHER -> "unknown"

Outcome(receipt, ok) ==
    CASE receipt = "success" /\ ok -> "settled"
      [] receipt = "failure" -> "failed"
      [] OTHER -> "unknown"

\* The answer to the paid request is recorded, or that there was none.
updateServicePayment(w, receipt, ok) ==
    LET answered == {x \in sent : Own(w, x)} IN
    /\ proc[w].stage = "SENT"
    /\ ledger' = [ledger EXCEPT ![proc[w].request].status = Outcome(receipt, ok)]
    /\ confirmed' = IF receipt = "success" THEN confirmed \cup answered ELSE confirmed
    /\ denied' = IF receipt = "failure" THEN denied \cup answered ELSE denied
    /\ proc' = [proc EXCEPT ![w] = Idle]
    /\ UNCHANGED <<review, threshold, lock, sent, taken>>

\* A runtime dies; its transaction is undone and what it committed stays.
Crash(w) ==
    /\ proc[w] # Idle
    /\ proc' = [proc EXCEPT ![w] = Idle]
    /\ lock' = IF lock = w THEN NULL ELSE lock
    /\ UNCHANGED <<ledger, review, threshold, service>>

-----------------------------------------------------------------------------
(* The service                                                             *)

Settle(x) ==
    /\ x \notin taken
    /\ taken' = taken \cup {x}
    /\ UNCHANGED <<ledger, review, threshold, runtime, sent, confirmed, denied>>

-----------------------------------------------------------------------------
(* The user                                                                *)

Decidable(x) == review[x] = "PENDING"

decideServiceCostReview(x, decision) ==
    /\ Decidable(x)
    /\ review' = [review EXCEPT ![x] = decision]
    /\ UNCHANGED <<ledger, threshold, runtime, service>>

\* expires_at passes on a review that nobody decided. Every statement that
\* reads the review first writes that down, or looks at the time as well.
ReviewExpires(x) ==
    /\ review[x] = "PENDING"
    /\ review' = [review EXCEPT ![x] = "EXPIRED"]
    /\ UNCHANGED <<ledger, threshold, runtime, service>>

updateSpendControls(cents) ==
    /\ threshold # cents
    /\ threshold' = cents
    /\ UNCHANGED <<ledger, review, runtime, service>>

-----------------------------------------------------------------------------
Next ==
    \/ \E w \in Runtimes, q \in Requests, accepts \in SUBSET Amounts : Ask(w, q, accepts)
    \/ \E w \in Runtimes : BeginReserve(w)
    \/ \E w \in Runtimes : RequireReview(w)
    \/ \E w \in Runtimes : reserveServicePayment(w)
    \/ \E w \in Runtimes : SendPaid(w)
    \/ \E w \in Runtimes, receipt \in Receipts, ok \in BOOLEAN : updateServicePayment(w, receipt, ok)
    \/ \E w \in Runtimes : Crash(w)
    \/ \E x \in sent : Settle(x)
    \/ \E x \in Requests \X Amounts, decision \in {"APPROVED", "REJECTED"} : decideServiceCostReview(x, decision)
    \/ \E x \in Requests \X Amounts : ReviewExpires(x)
    \/ \E cents \in Thresholds : updateSpendControls(cents)

Spec == Init /\ [][Next]_vars

-----------------------------------------------------------------------------
(* Properties                                                              *)

\* An exact request is paid at most once, through retries, deaths of its
\* runtime, two runtimes on one task and answers that were never heard
\* ("A paid request is sent at most once", MILESTONE-5B2.md:81).
NeverPaidTwice == \A x, y \in sent : x.request = y.request => x = y

Atomic(authorizations) == SumFunction([x \in authorizations |-> x.amount])

\* What services have taken and may still take from a job stays within its
\* limits, whatever the runtimes know of it, but for what services themselves
\* have reported as failed: such a row leaves the budget, though its
\* authorization is valid until validBefore (telegraph/src/runtime.ts:668-680).
JobBudgetKept ==
    /\ Atomic(sent \ denied) <= MaxJobAtomic
    /\ Cardinality(sent \ denied) <= MaxCallsPerJob

\* The same of all that services have taken (MILESTONE-5B2.md:73-74).
JobBudgetHolds == Atomic(taken) <= MaxJobAtomic /\ Cardinality(taken) <= MaxCallsPerJob

\* No service takes a transfer that it has reported as failed.
Honest == taken \cap denied = {}

\* No authorization is sent for more than the user ever let pass without a
\* review, unless this very charge was approved: a request whose price has
\* changed is reviewed anew, one that was rejected is not paid
\* (MILESTONE-14-TESTING.md:25-28).
PaidAsReviewed ==
    \A x \in sent :
      (\A cents \in Thresholds : Cents(x.amount) > cents) => review[<<x.request, x.amount>>] = "APPROVED"

\* The ledger accounts for every transfer, those included that its runtime never
\* heard of: the row of its request says what it took, and counts in the budget
\* unless the service itself denied the transfer. What the ledger calls settled
\* the service has confirmed.
LedgerAccounts ==
    /\ \A x \in taken :
         /\ ledger[x.request] # NULL /\ ledger[x.request].amount = x.amount
         /\ x.request \in Committed \/ x \in denied
    /\ \A q \in Requests :
         (ledger[q] # NULL /\ ledger[q].status = "settled") => \E x \in confirmed : x.request = q
=============================================================================
