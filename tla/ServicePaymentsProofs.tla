------------------------ MODULE ServicePaymentsProofs ------------------------
(* Proofs about ServicePayments, for every number of runtimes and requests, *)
(* all prices, limits and thresholds.                                       *)
EXTENDS ServicePayments, SumLemmas, FiniteSetTheorems, WellFoundedInduction, TLAPS

-----------------------------------------------------------------------------
(* What the invariant says of a call, of an authorization and of a row.    *)

\* A call that has reserved its request holds the row of it, alone, and has
\* sent nothing yet; a call that was cleared holds the lock.
CallsHold ==
    /\ \A w \in Runtimes : proc[w].stage = "CLEARED" => lock = w /\ ledger[proc[w].request] = NULL
    /\ \A w \in Runtimes : proc[w].stage \in {"RESERVED", "SENT"} =>
         /\ ledger[proc[w].request] # NULL
         /\ ledger[proc[w].request].status = "reserved"
         /\ ledger[proc[w].request].amount = proc[w].amount
    /\ \A w \in Runtimes : proc[w].stage = "RESERVED" => \A x \in sent : x.request # proc[w].request
    /\ \A w \in Runtimes : proc[w].stage = "SENT" =>
         \E x \in sent : x.request = proc[w].request /\ x.amount = proc[w].amount
    /\ \A w, u \in Runtimes :
         (proc[w].stage \in {"RESERVED", "SENT"} /\ proc[u].stage \in {"RESERVED", "SENT"}
            /\ proc[w].request = proc[u].request) => w = u

\* An authorization belongs to the row of its request, which fails only by the
\* word of the service.
SentIsRecorded ==
    \A x \in sent :
      /\ ledger[x.request] # NULL /\ ledger[x.request].amount = x.amount
      /\ ledger[x.request].status = "failed" => x \in denied

SettledIsConfirmed ==
    \A q \in Requests :
      (ledger[q] # NULL /\ ledger[q].status = "settled") => \E x \in confirmed : x.request = q

\* What was let through has its approval, or was below a threshold.
Passed(q, amount) ==
    (\E cents \in Thresholds : Cents(amount) <= cents) \/ review[<<q, amount>>] = "APPROVED"

PassedIsSent ==
    /\ \A w \in Runtimes : proc[w].stage = "RESERVED" => Passed(proc[w].request, proc[w].amount)
    /\ \A x \in sent : Passed(x.request, x.amount)

Types ==
    /\ ledger \in [Requests -> Rows \cup {NULL}]
    /\ review \in [Requests \X Amounts -> Reviews]
    /\ threshold \in Thresholds
    /\ proc \in [Runtimes -> Calls \cup {Idle}]
    /\ lock \in Runtimes \cup {NULL} /\ \A w \in Runtimes : lock = w <=> proc[w].stage = "CLEARED"
    /\ sent \subseteq Authorizations
    /\ taken \subseteq sent /\ confirmed \subseteq sent /\ denied \subseteq sent
    /\ IsFiniteSet(sent)

IInv == Types /\ CallsHold /\ SentIsRecorded /\ SettledIsConfirmed /\ PassedIsSent /\ NeverPaidTwice

-----------------------------------------------------------------------------
(* Lemmas                                                                  *)

\* Of what a service accepts, one amount is the least.
LEMMA LeastAmount ==
  ASSUME NEW S, S \subseteq Nat, S # {}
  PROVE  Min(S) \in S
<1>1. PICK x \in S : \A y \in S : ~(<<y, x>> \in OpToRel(<, Nat))
  BY NatLessThanWellFounded, WFMin
<1>2. ASSUME NEW y \in S PROVE x =< y
  <2>1. <<y, x>> \in Nat \X Nat /\ (y < x <=> <<y, x>>[1] < <<y, x>>[2])
    OBVIOUS
  <2>2. ~(y < x)
    BY <1>1, <2>1 DEF OpToRel
  <2> QED
    BY <2>2
<1> QED
  BY <1>2 DEF Min

\* A busy call has a request and an amount.
LEMMA BusyCall ==
  ASSUME Types, NEW w \in Runtimes, proc[w].stage # "IDLE"
  PROVE  proc[w] \in Calls
  BY DEF Types, Idle, Calls

LEMMA Step ==
  ASSUME NEW w \in Runtimes, NEW stage \in Stages, Types, proc[w] \in Calls
  PROVE  [proc[w] EXCEPT !.stage = stage] \in Calls
  BY DEF Calls

LEMMA InitIInv == Init => IInv
<1> SUFFICES ASSUME Init PROVE IInv
  OBVIOUS
<1>1. Types
  BY FS_EmptySet, NullAssumption DEF Init, Types, Idle, Reviews
<1>2. CallsHold /\ SentIsRecorded /\ SettledIsConfirmed /\ PassedIsSent /\ NeverPaidTwice
  BY DEF Init, Idle, CallsHold, SentIsRecorded, SettledIsConfirmed, PassedIsSent, NeverPaidTwice
<1> QED
  BY <1>1, <1>2 DEF IInv

LEMMA AskStep ==
  ASSUME IInv, NEW w \in Runtimes, NEW q \in Requests, NEW accepts \in SUBSET Amounts,
         Ask(w, q, accepts)
  PROVE  IInv'
<1> DEFINE amount == Min(Acceptable(accepts))
           call == [stage |-> "SIGNED", request |-> q, amount |-> amount]
<1>1. amount \in Amounts
  BY LeastAmount, AmountsAssumption DEF Ask, Acceptable
<1>2. call \in Calls
  BY <1>1 DEF Calls, Stages
<1> HIDE DEF amount
<1>3. /\ proc' = [proc EXCEPT ![w] = call] /\ proc[w] = Idle
      /\ UNCHANGED <<ledger, review, threshold, lock, sent, taken, confirmed, denied>>
  BY DEF Ask, service, amount
<1>4. proc \in [Runtimes -> Calls \cup {Idle}]
  BY DEF IInv, Types
<1>5. proc'[w].stage = "SIGNED" /\ \A u \in Runtimes \ {w} : proc'[u] = proc[u]
  BY <1>3, <1>4
<1>6. Types'
  BY <1>2, <1>3, <1>4, <1>5 DEF IInv, Types, Idle
<1>7. CallsHold'
  BY <1>3, <1>5 DEF IInv, CallsHold
<1>8. SentIsRecorded' /\ SettledIsConfirmed' /\ NeverPaidTwice'
  BY <1>3 DEF IInv, SentIsRecorded, SettledIsConfirmed, NeverPaidTwice
<1>9. PassedIsSent'
  BY <1>3, <1>5 DEF IInv, PassedIsSent, Passed
<1> QED
  BY <1>6, <1>7, <1>8, <1>9 DEF IInv

LEMMA BeginReserveStep ==
  ASSUME IInv, NEW w \in Runtimes, BeginReserve(w)
  PROVE  IInv'
<1>1. proc[w] \in Calls
  BY BusyCall DEF IInv, BeginReserve
<1>2. UNCHANGED <<ledger, review, threshold, sent, taken, confirmed, denied>>
  BY DEF BeginReserve, service
<1>3. proc \in [Runtimes -> Calls \cup {Idle}] /\ lock = NULL /\ NULL \notin Runtimes
  BY NullAssumption DEF IInv, Types, BeginReserve, LockFree
<1>4. CASE Unpaid(proc[w].request) /\ WithinBudget(proc[w].amount)
  <2>1. lock' = w /\ proc' = [proc EXCEPT ![w].stage = "CLEARED"] /\ ledger[proc[w].request] = NULL
    BY <1>4 DEF BeginReserve, Unpaid
  <2>2. /\ proc'[w] \in Calls /\ proc'[w].stage = "CLEARED" /\ proc'[w].request = proc[w].request
        /\ \A u \in Runtimes \ {w} : proc'[u] = proc[u]
    BY <1>1, <1>3, <2>1, Step DEF IInv, Stages, Calls
  <2>3. Types'
    BY <1>2, <1>3, <2>1, <2>2 DEF IInv, Types
  <2>4. CallsHold'
    BY <1>2, <1>3, <2>1, <2>2 DEF IInv, CallsHold, Types
  <2>5. SentIsRecorded' /\ SettledIsConfirmed' /\ NeverPaidTwice'
    BY <1>2 DEF IInv, SentIsRecorded, SettledIsConfirmed, NeverPaidTwice
  <2>6. PassedIsSent'
    BY <1>2, <2>2 DEF IInv, PassedIsSent, Passed
  <2> QED
    BY <2>3, <2>4, <2>5, <2>6 DEF IInv
<1>5. CASE ~(Unpaid(proc[w].request) /\ WithinBudget(proc[w].amount))
  <2>1. proc' = [proc EXCEPT ![w] = Idle] /\ lock' = NULL
    BY <1>3, <1>5 DEF BeginReserve
  <2>2. proc'[w] = Idle /\ \A u \in Runtimes \ {w} : proc'[u] = proc[u]
    BY <1>3, <2>1
  <2>3. Types'
    BY <1>2, <1>3, <2>1, <2>2 DEF IInv, Types, Idle
  <2>4. CallsHold'
    BY <1>2, <1>3, <2>1, <2>2 DEF IInv, CallsHold, Idle
  <2>5. SentIsRecorded' /\ SettledIsConfirmed' /\ NeverPaidTwice'
    BY <1>2 DEF IInv, SentIsRecorded, SettledIsConfirmed, NeverPaidTwice
  <2>6. PassedIsSent'
    BY <1>2, <2>2 DEF IInv, PassedIsSent, Passed, Idle
  <2> QED
    BY <2>3, <2>4, <2>5, <2>6 DEF IInv
<1> QED
  BY <1>4, <1>5

\* A step that puts a call to rest and leaves the rest but the reviews alone,
\* none of which loses its approval.
LEMMA RestStep ==
  ASSUME IInv, NEW w \in Runtimes, proc' = [proc EXCEPT ![w] = Idle],
         lock' = IF lock = w THEN NULL ELSE lock,
         UNCHANGED <<ledger, threshold, sent, taken, confirmed, denied>>,
         review' \in [Requests \X Amounts -> Reviews],
         \A x \in Requests \X Amounts : review[x] = "APPROVED" => review'[x] = "APPROVED"
  PROVE  IInv'
<1>1. proc \in [Runtimes -> Calls \cup {Idle}] /\ NULL \notin Runtimes
  BY NullAssumption DEF IInv, Types
<1>2. proc'[w] = Idle /\ \A u \in Runtimes \ {w} : proc'[u] = proc[u]
  BY <1>1
<1>3. Types'
  BY <1>1, <1>2 DEF IInv, Types, Idle
<1>4. CallsHold'
  BY <1>1, <1>2 DEF IInv, CallsHold, Idle, Types
<1>5. SentIsRecorded' /\ SettledIsConfirmed' /\ NeverPaidTwice'
  BY DEF IInv, SentIsRecorded, SettledIsConfirmed, NeverPaidTwice
<1>6. PassedIsSent'
  <2>1. ASSUME NEW u \in Runtimes, proc'[u].stage = "RESERVED"
        PROVE  Passed(proc[u].request, proc[u].amount)' /\ proc'[u] = proc[u]
    <3>1. u # w /\ proc'[u] = proc[u] /\ proc[u].stage = "RESERVED"
      BY <1>2, <2>1 DEF Idle
    <3>2. proc[u] \in Calls
      BY <3>1, BusyCall DEF IInv
    <3>3. Passed(proc[u].request, proc[u].amount)
      BY <3>1 DEF IInv, PassedIsSent
    <3> QED
      BY <3>1, <3>2, <3>3 DEF Passed, Calls
  <2>2. ASSUME NEW x \in sent PROVE Passed(x.request, x.amount)'
    <3>1. x \in Authorizations /\ Passed(x.request, x.amount)
      BY DEF IInv, PassedIsSent, Types
    <3> QED
      BY <3>1 DEF Passed, Authorizations
  <2> QED
    BY <2>1, <2>2 DEF PassedIsSent, Passed
<1> QED
  BY <1>3, <1>4, <1>5, <1>6 DEF IInv

LEMMA RequireReviewStep ==
  ASSUME IInv, NEW w \in Runtimes, RequireReview(w)
  PROVE  IInv'
<1> DEFINE x == <<proc[w].request, proc[w].amount>>
<1>1. proc[w] \in Calls /\ lock = w
  BY BusyCall DEF IInv, RequireReview, CallsHold
<1>2. x \in Requests \X Amounts
  BY <1>1 DEF Calls
<1>3. /\ review' = [review EXCEPT ![x] = IF @ \in {"NONE", "EXPIRED"} THEN "PENDING" ELSE @]
      /\ proc' = [proc EXCEPT ![w] = Idle] /\ lock' = NULL
      /\ UNCHANGED <<ledger, threshold, sent, taken, confirmed, denied>>
  BY DEF RequireReview, service
<1>4. review \in [Requests \X Amounts -> Reviews]
  BY DEF IInv, Types
<1> HIDE DEF x
<1>5. review' \in [Requests \X Amounts -> Reviews]
  BY <1>2, <1>3, <1>4 DEF Reviews
<1>6. \A y \in Requests \X Amounts : review[y] = "APPROVED" => review'[y] = "APPROVED"
  BY <1>2, <1>3, <1>4
<1> QED
  BY <1>1, <1>3, <1>5, <1>6, RestStep

LEMMA CrashStep ==
  ASSUME IInv, NEW w \in Runtimes, Crash(w)
  PROVE  IInv'
<1>1. /\ proc' = [proc EXCEPT ![w] = Idle] /\ lock' = IF lock = w THEN NULL ELSE lock
      /\ UNCHANGED <<ledger, review, threshold, sent, taken, confirmed, denied>>
  BY DEF Crash, service
<1>2. review' \in [Requests \X Amounts -> Reviews]
  BY <1>1 DEF IInv, Types
<1> QED
  BY <1>1, <1>2, RestStep

LEMMA ReserveStep ==
  ASSUME IInv, NEW w \in Runtimes, reserveServicePayment(w)
  PROVE  IInv'
<1> DEFINE q == proc[w].request
           amount == proc[w].amount
           row == [status |-> "reserved", amount |-> amount]
<1>1. /\ proc[w] \in Calls /\ proc[w].stage = "CLEARED" /\ lock = w /\ ledger[q] = NULL
      /\ NULL \notin Runtimes
  BY BusyCall, NullAssumption DEF IInv, reserveServicePayment, CallsHold
<1>2. q \in Requests /\ amount \in Amounts
  BY <1>1 DEF Calls
<1>3. row \in Rows /\ row # NULL
  BY <1>2, NullAssumption DEF Rows, Statuses
<1>4. /\ ~NeedsReview(amount) \/ Reviewed(q, amount)
      /\ ledger' = [ledger EXCEPT ![q] = row]
      /\ lock' = NULL /\ proc' = [proc EXCEPT ![w].stage = "RESERVED"]
      /\ UNCHANGED <<review, threshold, sent, taken, confirmed, denied>>
  BY DEF reserveServicePayment, service
<1>5. proc \in [Runtimes -> Calls \cup {Idle}] /\ ledger \in [Requests -> Rows \cup {NULL}]
  BY DEF IInv, Types
<1>6. /\ proc'[w] \in Calls /\ proc'[w].stage = "RESERVED" /\ proc'[w].request = q /\ proc'[w].amount = amount
      /\ \A u \in Runtimes \ {w} : proc'[u] = proc[u]
  BY <1>1, <1>4, <1>5, Step DEF IInv, Stages, Calls
<1>7. ledger'[q] = row /\ \A o \in Requests \ {q} : ledger'[o] = ledger[o]
  BY <1>2, <1>4, <1>5
<1> HIDE DEF q, amount
<1>8. Types'
  BY <1>1, <1>2, <1>3, <1>4, <1>5, <1>6 DEF IInv, Types
<1>9. \A u \in Runtimes \ {w} : proc[u].stage \in {"RESERVED", "SENT"} => proc[u].request # q
  BY <1>1 DEF IInv, CallsHold, q
<1>10. \A x \in sent : x.request # q
  BY <1>1 DEF IInv, SentIsRecorded, q
<1>11. \A u \in Runtimes \ {w} : proc[u].stage # "CLEARED"
  BY <1>1 DEF IInv, Types
<1>12. \A u \in Runtimes : proc[u].stage \in {"RESERVED", "SENT"} => proc[u].request \in Requests
  BY BusyCall DEF IInv, Calls
<1>13. CallsHold'
  <2>1. \A u \in Runtimes : proc'[u].stage # "CLEARED"
    BY <1>6, <1>11
  <2>2. ASSUME NEW u \in Runtimes, proc'[u].stage \in {"RESERVED", "SENT"}
        PROVE  /\ ledger'[proc'[u].request] # NULL
               /\ ledger'[proc'[u].request].status = "reserved"
               /\ ledger'[proc'[u].request].amount = proc'[u].amount
    BY <2>2, <1>3, <1>6, <1>7, <1>9, <1>12 DEF IInv, CallsHold
  <2>3. ASSUME NEW u \in Runtimes, proc'[u].stage = "RESERVED"
        PROVE  \A x \in sent' : x.request # proc'[u].request
    BY <2>3, <1>4, <1>6, <1>10 DEF IInv, CallsHold
  <2>4. \A u, v \in Runtimes :
          (proc'[v].stage \in {"RESERVED", "SENT"} /\ proc'[u].stage \in {"RESERVED", "SENT"}
             /\ proc'[v].request = proc'[u].request) => v = u
    BY <1>6, <1>9 DEF IInv, CallsHold
  <2>5. ASSUME NEW u \in Runtimes, proc'[u].stage = "SENT"
        PROVE  \E x \in sent' : x.request = proc'[u].request /\ x.amount = proc'[u].amount
    BY <2>5, <1>4, <1>6 DEF IInv, CallsHold
  <2> QED
    BY <2>1, <2>2, <2>3, <2>4, <2>5 DEF CallsHold
<1>14. \A x \in sent : x.request \in Requests \ {q}
  BY <1>10 DEF IInv, Types, Authorizations
<1>15. SentIsRecorded' /\ NeverPaidTwice'
  BY <1>4, <1>7, <1>14 DEF IInv, SentIsRecorded, NeverPaidTwice
<1>16. SettledIsConfirmed'
  BY <1>4, <1>7 DEF IInv, SettledIsConfirmed
<1>17. PassedIsSent'
  <2>1. Passed(q, amount)
    <3>1. CASE Reviewed(q, amount)
      BY <3>1 DEF Passed, Reviewed
    <3>2. CASE ~NeedsReview(amount)
      <4>1. threshold \in Thresholds /\ threshold \in Nat /\ Cents(amount) \in Int
        BY <1>2, AmountsAssumption, LimitsAssumption DEF IInv, Types, Cents
      <4>2. Cents(amount) <= threshold
        BY <3>2, <4>1 DEF NeedsReview
      <4> QED
        BY <4>1, <4>2 DEF Passed
    <3> QED
      BY <1>4, <3>1, <3>2
  <2> QED
    BY <2>1, <1>4, <1>6 DEF IInv, PassedIsSent, Passed
<1> QED
  BY <1>8, <1>13, <1>15, <1>16, <1>17 DEF IInv

LEMMA SendStep ==
  ASSUME IInv, NEW w \in Runtimes, SendPaid(w)
  PROVE  IInv'
<1> DEFINE x == [request |-> proc[w].request, amount |-> proc[w].amount, nonce |-> Cardinality(sent)]
<1>1. proc[w] \in Calls /\ proc[w].stage = "RESERVED" /\ IsFiniteSet(sent)
  BY BusyCall DEF IInv, SendPaid, Types
<1>2. x \in Authorizations /\ IsFiniteSet(sent \cup {x})
  BY <1>1, FS_CardinalityType, FS_AddElement DEF Authorizations, Calls
<1>3. x.request = proc[w].request /\ x.amount = proc[w].amount
  OBVIOUS
<1>4. /\ sent' = sent \cup {x} /\ proc' = [proc EXCEPT ![w].stage = "SENT"]
      /\ UNCHANGED <<ledger, review, threshold, lock, taken, confirmed, denied>>
  BY DEF SendPaid
<1> HIDE DEF x
<1>5. proc \in [Runtimes -> Calls \cup {Idle}]
  BY DEF IInv, Types
<1>6. /\ proc'[w] \in Calls /\ proc'[w].stage = "SENT"
      /\ proc'[w].request = proc[w].request /\ proc'[w].amount = proc[w].amount
      /\ \A u \in Runtimes \ {w} : proc'[u] = proc[u]
  BY <1>1, <1>4, <1>5, Step DEF IInv, Stages, Calls
<1>7. Types'
  BY <1>1, <1>2, <1>4, <1>5, <1>6 DEF IInv, Types
<1>8. \A y \in sent : y.request # x.request
  BY <1>1, <1>3 DEF IInv, CallsHold
<1>9. CallsHold'
  <2>1. ASSUME NEW u \in Runtimes, proc'[u].stage = "RESERVED"
        PROVE  \A y \in sent' : y.request # proc'[u].request
    <3>1. u # w /\ proc[u].stage = "RESERVED" /\ proc'[u] = proc[u]
      BY <1>6, <2>1
    <3>2. proc[u].request # proc[w].request /\ \A y \in sent : y.request # proc[u].request
      BY <1>1, <3>1 DEF IInv, CallsHold
    <3> QED
      BY <1>3, <1>4, <3>1, <3>2
  <2>2. ASSUME NEW u \in Runtimes, proc'[u].stage = "SENT"
        PROVE  \E y \in sent' : y.request = proc'[u].request /\ y.amount = proc'[u].amount
    <3>1. CASE u = w
      BY <1>3, <1>4, <1>6, <3>1
    <3>2. CASE u # w
      BY <1>4, <1>6, <2>2, <3>2 DEF IInv, CallsHold
    <3> QED
      BY <3>1, <3>2
  <2>3. \A u, v \in Runtimes :
          (proc'[v].stage \in {"RESERVED", "SENT"} /\ proc'[u].stage \in {"RESERVED", "SENT"}
             /\ proc'[v].request = proc'[u].request) => v = u
    BY <1>1, <1>6 DEF IInv, CallsHold
  <2>4. \A u \in Runtimes : proc'[u].stage \in {"RESERVED", "SENT"} =>
          /\ ledger'[proc'[u].request] # NULL
          /\ ledger'[proc'[u].request].status = "reserved"
          /\ ledger'[proc'[u].request].amount = proc'[u].amount
    BY <1>1, <1>4, <1>6 DEF IInv, CallsHold
  <2>5. \A u \in Runtimes : proc'[u].stage = "CLEARED" => lock' = u /\ ledger'[proc'[u].request] = NULL
    BY <1>1, <1>4, <1>6 DEF IInv, CallsHold
  <2> QED
    BY <2>1, <2>2, <2>3, <2>4, <2>5 DEF CallsHold
<1>10. /\ ledger[x.request] # NULL /\ ledger[x.request].amount = x.amount
       /\ ledger[x.request].status = "reserved"
  BY <1>1, <1>3 DEF IInv, CallsHold
<1>11. SentIsRecorded'
  BY <1>4, <1>10 DEF IInv, SentIsRecorded
<1>12. SettledIsConfirmed' /\ NeverPaidTwice'
  BY <1>4, <1>8 DEF IInv, SettledIsConfirmed, NeverPaidTwice
<1>13. PassedIsSent'
  <2>1. Passed(x.request, x.amount)
    BY <1>1, <1>3 DEF IInv, PassedIsSent
  <2> QED
    BY <2>1, <1>4, <1>6 DEF IInv, PassedIsSent, Passed
<1> QED
  BY <1>7, <1>9, <1>11, <1>12, <1>13 DEF IInv

LEMMA UpdateStep ==
  ASSUME IInv, NEW w \in Runtimes, NEW receipt \in Receipts, NEW ok \in BOOLEAN,
         updateServicePayment(w, receipt, ok)
  PROVE  IInv'
<1> DEFINE q == proc[w].request
           status == Outcome(receipt, ok)
           answered == {x \in sent : Own(w, x)}
<1>1. /\ proc[w] \in Calls /\ proc[w].stage = "SENT" /\ q \in Requests
      /\ ledger[q] # NULL /\ ledger[q].amount = proc[w].amount
  BY BusyCall DEF IInv, updateServicePayment, CallsHold, Calls
<1>2. ledger \in [Requests -> Rows \cup {NULL}] /\ proc \in [Runtimes -> Calls \cup {Idle}]
  BY DEF IInv, Types
<1>3. /\ ledger' = [ledger EXCEPT ![q].status = status] /\ proc' = [proc EXCEPT ![w] = Idle]
      /\ confirmed' = IF receipt = "success" THEN confirmed \cup answered ELSE confirmed
      /\ denied' = IF receipt = "failure" THEN denied \cup answered ELSE denied
      /\ UNCHANGED <<review, threshold, lock, sent, taken>>
  BY DEF updateServicePayment
<1>4. /\ status \in Statuses
      /\ status = "settled" => receipt = "success"
      /\ status = "failed" => receipt = "failure"
  BY DEF Outcome, Statuses, Receipts
<1>17. \E x \in sent : Own(w, x)
  BY DEF IInv, CallsHold, updateServicePayment, Own
<1>18. /\ answered \subseteq sent /\ \A x \in answered : x.request = q
       /\ \A x \in sent : x.request = q => x \in answered
  <2>1. \A x \in sent : x.request = q => x.amount = proc[w].amount
    BY <1>1 DEF IInv, SentIsRecorded
  <2> QED
    BY <2>1 DEF Own
<1> HIDE DEF status, answered
<1>5. /\ ledger'[q] \in Rows /\ ledger'[q] # NULL
      /\ ledger'[q].amount = ledger[q].amount /\ ledger'[q].status = status
      /\ \A o \in Requests \ {q} : ledger'[o] = ledger[o]
  BY <1>1, <1>2, <1>3, <1>4, NullAssumption DEF Rows
<1>6. proc'[w] = Idle /\ \A u \in Runtimes \ {w} : proc'[u] = proc[u]
  BY <1>2, <1>3
<1>7. \A u \in Runtimes \ {w} : proc[u].stage \in {"RESERVED", "SENT"} => proc[u].request # q
  BY <1>1 DEF IInv, CallsHold
<1>8. \A u \in Runtimes : proc[u].stage # "IDLE" => proc[u].request \in Requests
  BY BusyCall DEF IInv, Calls
<1>9. \A u \in Runtimes : proc[u].stage = "CLEARED" => proc[u].request # q
  BY <1>1 DEF IInv, CallsHold
<1>10. Types'
  BY <1>1, <1>2, <1>3, <1>5, <1>6, <1>18 DEF IInv, Types, Idle
<1>11. \A x \in sent : x.request \in Requests
  BY DEF IInv, Types, Authorizations
<1> HIDE DEF q
<1>12. CallsHold'
  <2>1. ASSUME NEW u \in Runtimes, proc'[u].stage # "IDLE"
        PROVE  u # w /\ proc'[u] = proc[u] /\ proc[u].stage # "IDLE" /\ proc[u].request \in Requests
    BY <1>6, <1>8, <2>1 DEF Idle
  <2>2. ASSUME NEW u \in Runtimes, proc'[u].stage = "CLEARED"
        PROVE  lock' = u /\ ledger'[proc'[u].request] = NULL
    BY <1>3, <1>5, <1>9, <2>1, <2>2 DEF IInv, CallsHold
  <2>3. ASSUME NEW u \in Runtimes, proc'[u].stage \in {"RESERVED", "SENT"}
        PROVE  /\ ledger'[proc'[u].request] # NULL
               /\ ledger'[proc'[u].request].status = "reserved"
               /\ ledger'[proc'[u].request].amount = proc'[u].amount
    BY <1>5, <1>7, <2>1, <2>3 DEF IInv, CallsHold
  <2>4. ASSUME NEW u \in Runtimes, proc'[u].stage = "RESERVED"
        PROVE  \A x \in sent' : x.request # proc'[u].request
    BY <1>3, <2>1, <2>4 DEF IInv, CallsHold
  <2>5. \A u, v \in Runtimes :
          (proc'[v].stage \in {"RESERVED", "SENT"} /\ proc'[u].stage \in {"RESERVED", "SENT"}
             /\ proc'[v].request = proc'[u].request) => v = u
    BY <2>1 DEF IInv, CallsHold
  <2>6. ASSUME NEW u \in Runtimes, proc'[u].stage = "SENT"
        PROVE  \E x \in sent' : x.request = proc'[u].request /\ x.amount = proc'[u].amount
    BY <1>3, <2>1, <2>6 DEF IInv, CallsHold
  <2> QED
    BY <2>2, <2>3, <2>4, <2>5, <2>6 DEF CallsHold
<1>13. SentIsRecorded'
  <2>1. ASSUME NEW x \in sent
        PROVE  /\ ledger'[x.request] # NULL /\ ledger'[x.request].amount = x.amount
               /\ ledger'[x.request].status = "failed" => x \in denied'
    <3>1. CASE x.request # q
      BY <1>3, <1>5, <1>11, <3>1 DEF IInv, SentIsRecorded
    <3>2. CASE x.request = q
      <4>1. status = "failed" => x \in denied'
        BY <1>3, <1>4, <1>18, <3>2
      <4> QED
        BY <1>5, <3>2, <4>1 DEF IInv, SentIsRecorded
    <3> QED
      BY <3>1, <3>2
  <2> QED
    BY <1>3, <2>1 DEF SentIsRecorded
<1>14. SettledIsConfirmed'
  <2>1. status = "settled" => \E y \in confirmed' : y.request = q
    BY <1>3, <1>4, <1>17, <1>18 DEF Own, q
  <2> QED
    BY <1>3, <1>5, <2>1 DEF IInv, SettledIsConfirmed
<1>15. NeverPaidTwice'
  BY <1>3 DEF IInv, NeverPaidTwice
<1>16. PassedIsSent'
  BY <1>3, <1>6 DEF IInv, PassedIsSent, Passed, Idle
<1> QED
  BY <1>10, <1>12, <1>13, <1>14, <1>15, <1>16 DEF IInv

LEMMA ServiceStep ==
  ASSUME IInv, NEW x \in sent, Settle(x)
  PROVE  IInv'
<1>1. UNCHANGED <<ledger, review, threshold, lock, proc, sent, confirmed, denied>>
      /\ taken' = taken \cup {x}
  BY DEF Settle, runtime
<1>2. Types'
  BY <1>1 DEF IInv, Types
<1>3. CallsHold' /\ NeverPaidTwice' /\ PassedIsSent'
  BY <1>1 DEF IInv, CallsHold, NeverPaidTwice, PassedIsSent, Passed
<1>4. SentIsRecorded' /\ SettledIsConfirmed'
  BY <1>1 DEF IInv, SentIsRecorded, SettledIsConfirmed
<1> QED
  BY <1>2, <1>3, <1>4 DEF IInv

\* The user decides, lets a review expire or sets the threshold.
LEMMA UserStep ==
  ASSUME IInv,
         \/ \E x \in Requests \X Amounts, decision \in {"APPROVED", "REJECTED"} :
              decideServiceCostReview(x, decision)
         \/ \E x \in Requests \X Amounts : ReviewExpires(x)
         \/ \E cents \in Thresholds : updateSpendControls(cents)
  PROVE  IInv'
<1> DEFINE Kept ==
      /\ UNCHANGED <<ledger, lock, proc, sent, taken, confirmed, denied>>
      /\ review' \in [Requests \X Amounts -> Reviews] /\ threshold' \in Thresholds
      /\ \A y \in Requests \X Amounts : review[y] = "APPROVED" => review'[y] = "APPROVED"
<1>1. Kept
  <2>1. review \in [Requests \X Amounts -> Reviews] /\ threshold \in Thresholds
    BY DEF IInv, Types
  <2>2. ASSUME NEW x \in Requests \X Amounts, NEW decision \in {"APPROVED", "REJECTED"},
               decideServiceCostReview(x, decision)
        PROVE  Kept
    <3>1. review[x] = "PENDING" /\ review' = [review EXCEPT ![x] = decision]
      BY <2>2 DEF decideServiceCostReview, Decidable
    <3> QED
      BY <2>1, <2>2, <3>1 DEF decideServiceCostReview, Reviews, runtime, service
  <2>3. ASSUME NEW x \in Requests \X Amounts, ReviewExpires(x)
        PROVE  Kept
    <3>1. review[x] = "PENDING" /\ review' = [review EXCEPT ![x] = "EXPIRED"]
      BY <2>3 DEF ReviewExpires
    <3> QED
      BY <2>1, <2>3, <3>1 DEF ReviewExpires, Reviews, runtime, service
  <2>4. ASSUME NEW cents \in Thresholds, updateSpendControls(cents)
        PROVE  Kept
    BY <2>1, <2>4 DEF updateSpendControls, runtime, service
  <2> HIDE DEF Kept
  <2> QED
    BY <2>2, <2>3, <2>4, Zenon
<1>2. Types'
  BY <1>1 DEF IInv, Types
<1>3. CallsHold' /\ NeverPaidTwice' /\ SentIsRecorded' /\ SettledIsConfirmed'
  BY <1>1 DEF IInv, CallsHold, NeverPaidTwice, SentIsRecorded, SettledIsConfirmed
<1>4. PassedIsSent'
  <2>1. ASSUME NEW q \in Requests, NEW amount \in Amounts, Passed(q, amount)
        PROVE  Passed(q, amount)'
    BY <1>1, <2>1 DEF Passed
  <2>2. ASSUME NEW u \in Runtimes, proc[u].stage = "RESERVED"
        PROVE  Passed(proc[u].request, proc[u].amount)'
    BY <1>1, <2>2, BusyCall DEF IInv, PassedIsSent, Passed, Calls
  <2>3. ASSUME NEW x \in sent PROVE Passed(x.request, x.amount)'
    BY <2>1 DEF IInv, PassedIsSent, Types, Authorizations, Passed
  <2> QED
    BY <1>1, <2>2, <2>3 DEF PassedIsSent, Passed
<1> QED
  BY <1>2, <1>3, <1>4 DEF IInv

LEMMA NextIInv == IInv /\ [Next]_vars => IInv'
<1> SUFFICES ASSUME IInv, [Next]_vars PROVE IInv'
  OBVIOUS
<1>1. CASE UNCHANGED vars
  BY <1>1 DEF vars, runtime, service, IInv, Types, CallsHold, SentIsRecorded, SettledIsConfirmed,
              PassedIsSent, Passed, NeverPaidTwice
<1>2. CASE Next
  BY <1>2, AskStep, BeginReserveStep, RequireReviewStep, ReserveStep, SendStep, UpdateStep,
     CrashStep, ServiceStep, UserStep, Zenon DEF Next
<1> QED
  BY <1>1, <1>2

LEMMA Invariant == Spec => []IInv
  BY InitIInv, NextIInv, PTL DEF Spec

-----------------------------------------------------------------------------
(* The budget of the job                                                   *)

\* The rows that count stay within both limits, and so does what a call that
\* holds the lock is about to add.
Budgeted ==
    /\ IsFiniteSet(Committed)
    /\ CommittedAtomic <= MaxJobAtomic
    /\ Cardinality(Committed) <= MaxCallsPerJob
    /\ \A w \in Runtimes : proc[w].stage = "CLEARED" => WithinBudget(proc[w].amount)

LEMMA AmountIsNat == \A a \in Amounts : a \in Nat
  BY AmountsAssumption

LEMMA CommittedRow ==
  ASSUME Types, NEW q \in Committed
  PROVE  q \in Requests /\ ledger[q] \in Rows /\ ledger[q].amount \in Nat
  BY AmountIsNat DEF Types, Committed, Rows

LEMMA CommittedAtomicType ==
  ASSUME Types, IsFiniteSet(Committed)
  PROVE  CommittedAtomic \in Nat
<1> DEFINE f == [q \in Committed |-> ledger[q].amount]
<1>1. DOMAIN f = Committed /\ \A q \in Committed : f[q] \in Nat
  BY CommittedRow
<1> HIDE DEF f
<1>2. SumFunction(f) \in Nat
  BY <1>1, FunctionSumType
<1> QED
  BY <1>2 DEF CommittedAtomic, f

\* What neither adds a row that counts nor changes the amount of one keeps the
\* budget, if the calls it clears fit.
LEMMA NothingCommitted ==
  ASSUME Types, Types', Budgeted,
         Committed' \subseteq Committed,
         \A q \in Committed' : ledger'[q].amount = ledger[q].amount,
         \A w \in Runtimes : proc'[w].stage = "CLEARED" =>
             WithinBudget(proc'[w].amount) /\ proc'[w].amount \in Nat
  PROVE  Budgeted'
<1> DEFINE f == [q \in Committed' |-> ledger'[q].amount]
           g == [q \in Committed |-> ledger[q].amount]
<1>1. DOMAIN f = Committed' /\ DOMAIN g = Committed
  OBVIOUS
<1>2. \A q \in Committed : g[q] \in Nat
  BY CommittedRow
<1>3. \A q \in Committed' : f[q] = g[q]
  OBVIOUS
<1>4. IsFiniteSet(Committed) /\ CommittedAtomic <= MaxJobAtomic /\ Cardinality(Committed) <= MaxCallsPerJob
  BY DEF Budgeted
<1>5. IsFiniteSet(Committed') /\ Cardinality(Committed') <= Cardinality(Committed)
  BY <1>4, FS_Subset
<1>6. CommittedAtomic' = SumFunction(f) /\ CommittedAtomic = SumFunction(g)
  BY DEF CommittedAtomic
<1> HIDE DEF f, g
<1>7. SumFunction(f) <= SumFunction(g) /\ SumFunction(f) \in Nat /\ SumFunction(g) \in Nat
  <2>1. \A q \in DOMAIN f : f[q] \in Nat
    BY <1>1, <1>2, <1>3
  <2>2. SumFunction(f) <= SumFunction(g)
    BY <1>1, <1>2, <1>3, <1>4, FunctionSumGrows
  <2> QED
    BY <1>1, <1>2, <1>4, <1>5, <2>1, <2>2, FunctionSumType
<1>8. Cardinality(Committed') \in Nat /\ Cardinality(Committed) \in Nat
  BY <1>4, <1>5, FS_CardinalityType
<1>9. CommittedAtomic' <= MaxJobAtomic /\ Cardinality(Committed') <= MaxCallsPerJob
  BY <1>4, <1>5, <1>6, <1>7, <1>8, LimitsAssumption
<1>10. ASSUME NEW w \in Runtimes, proc'[w].stage = "CLEARED"
       PROVE  /\ CommittedAtomic' + proc'[w].amount <= MaxJobAtomic
              /\ Cardinality(Committed') < MaxCallsPerJob
  <2>1. /\ CommittedAtomic + proc'[w].amount <= MaxJobAtomic
        /\ Cardinality(Committed) < MaxCallsPerJob
        /\ proc'[w].amount \in Nat
    BY <1>10 DEF WithinBudget
  <2> QED
    BY <2>1, <1>5, <1>6, <1>7, <1>8, LimitsAssumption
<1> QED
  BY <1>5, <1>9, <1>10 DEF Budgeted, WithinBudget

LEMMA InitBudgeted == Init => Budgeted
<1> SUFFICES ASSUME Init PROVE Budgeted
  OBVIOUS
<1>1. Committed = {} /\ \A w \in Runtimes : proc[w].stage # "CLEARED"
  BY DEF Init, Committed, Idle
<1>2. CommittedAtomic = 0
  <2> DEFINE f == [q \in Committed |-> ledger[q].amount]
  <2>1. DOMAIN f = {}
    BY <1>1
  <2> HIDE DEF f
  <2>2. SumFunction(f) = 0
    BY <2>1, FunctionSumEmpty
  <2> QED
    BY <2>2 DEF CommittedAtomic, f
<1> QED
  BY <1>1, <1>2, FS_EmptySet, LimitsAssumption DEF Budgeted

\* The call that holds the lock fitted when it took it, and nothing was
\* committed since.
LEMMA ReserveBudgeted ==
  ASSUME IInv, IInv', Budgeted, NEW w \in Runtimes, reserveServicePayment(w)
  PROVE  Budgeted'
<1> DEFINE q == proc[w].request
           amount == proc[w].amount
           f == [o \in Committed |-> ledger[o].amount]
           g == [o \in Committed' |-> ledger'[o].amount]
<1>1. /\ proc[w] \in Calls /\ proc[w].stage = "CLEARED" /\ ledger[q] = NULL
      /\ ledger \in [Requests -> Rows \cup {NULL}]
  BY BusyCall DEF IInv, reserveServicePayment, CallsHold, Types
<1>2. q \in Requests /\ amount \in Amounts /\ amount \in Nat
  BY <1>1, AmountIsNat DEF Calls
<1>3. ledger' = [ledger EXCEPT ![q] = [status |-> "reserved", amount |-> amount]] /\ lock' = NULL
  BY DEF reserveServicePayment
<1>4. /\ ledger'[q] # NULL /\ ledger'[q].status = "reserved" /\ ledger'[q].amount = amount
      /\ \A o \in Requests \ {q} : ledger'[o] = ledger[o]
  <2>1. [status |-> "reserved", amount |-> amount] \in Rows
    BY <1>2 DEF Rows, Statuses
  <2> QED
    BY <1>1, <1>2, <1>3, <2>1, NullAssumption
<1>5. \A u \in Runtimes : proc'[u].stage # "CLEARED"
  BY <1>3, NullAssumption DEF IInv, Types
<1>6. IsFiniteSet(Committed) /\ WithinBudget(amount)
  BY <1>1 DEF Budgeted
<1> HIDE DEF q, amount
<1>7. q \notin Committed /\ Committed' = Committed \cup {q}
  BY <1>1, <1>2, <1>4 DEF Committed
<1>8. \A o \in Committed : ledger'[o] = ledger[o]
  BY <1>4, <1>7 DEF Committed
<1>9. /\ DOMAIN f = Committed /\ DOMAIN g = Committed \cup {q}
      /\ \A o \in Committed : g[o] = f[o]
      /\ g[q] = amount
  BY <1>4, <1>7, <1>8
<1>10. \A o \in Committed \cup {q} : g[o] \in Nat
  <2>1. \A o \in Committed : f[o] \in Nat
    BY CommittedRow DEF IInv
  <2> QED
    BY <1>2, <1>9, <2>1
<1>11. CommittedAtomic' = SumFunction(g) /\ CommittedAtomic = SumFunction(f)
  BY DEF CommittedAtomic
<1> HIDE DEF f, g
<1>12. SumFunction(g) = SumFunction(f) + g[q]
  BY <1>6, <1>7, <1>9, <1>10, FunctionSumAdd
<1>13. CommittedAtomic' = CommittedAtomic + amount
  BY <1>9, <1>11, <1>12
<1>14. /\ IsFiniteSet(Committed') /\ Cardinality(Committed') = Cardinality(Committed) + 1
       /\ Cardinality(Committed) \in Nat
  BY <1>6, <1>7, FS_AddElement, FS_CardinalityType
<1>15. CommittedAtomic' <= MaxJobAtomic /\ Cardinality(Committed') <= MaxCallsPerJob
  BY <1>6, <1>13, <1>14, LimitsAssumption DEF WithinBudget
<1> QED
  BY <1>5, <1>14, <1>15 DEF Budgeted

LEMMA NextBudgeted ==
  ASSUME IInv, IInv', Budgeted, [Next]_vars
  PROVE  Budgeted'
<1>1. /\ Types /\ Types'
      /\ proc \in [Runtimes -> Calls \cup {Idle}] /\ ledger \in [Requests -> Rows \cup {NULL}]
  BY DEF IInv, Types
<1>2. \A w \in Runtimes : proc[w].stage = "CLEARED" =>
         WithinBudget(proc[w].amount) /\ proc[w].amount \in Nat
  BY BusyCall, AmountIsNat DEF IInv, Budgeted, Calls
<1>3. ASSUME UNCHANGED ledger,
             \A w \in Runtimes : proc'[w].stage = "CLEARED" =>
                WithinBudget(proc'[w].amount) /\ proc'[w].amount \in Nat
      PROVE  Budgeted'
  <2>1. Committed' = Committed
    BY <1>3 DEF Committed
  <2> QED
    BY <1>1, <1>3, <2>1, NothingCommitted
<1>4. ASSUME UNCHANGED <<ledger, proc>> PROVE Budgeted'
  BY <1>2, <1>3, <1>4
\* A step of one call that does not clear it.
<1>5. ASSUME NEW w \in Runtimes, NEW call, proc' = [proc EXCEPT ![w] = call], call.stage # "CLEARED"
      PROVE  \A u \in Runtimes : proc'[u].stage = "CLEARED" =>
                WithinBudget(proc'[u].amount) /\ proc'[u].amount \in Nat
  BY <1>1, <1>2, <1>5
<1>6. ASSUME NEW w \in Runtimes, NEW q \in Requests, NEW accepts \in SUBSET Amounts, Ask(w, q, accepts)
      PROVE  Budgeted'
  <2> DEFINE call == [stage |-> "SIGNED", request |-> q, amount |-> Min(Acceptable(accepts))]
  <2>1. proc' = [proc EXCEPT ![w] = call] /\ call.stage # "CLEARED" /\ UNCHANGED ledger
    BY <1>6 DEF Ask
  <2> HIDE DEF call
  <2> QED
    BY <1>3, <1>5, <2>1
<1>7. ASSUME NEW w \in Runtimes, RequireReview(w) \/ Crash(w)
      PROVE  Budgeted'
  <2>1. proc' = [proc EXCEPT ![w] = Idle] /\ UNCHANGED ledger /\ Idle.stage # "CLEARED"
    BY <1>7 DEF RequireReview, Crash, Idle
  <2> QED
    BY <1>3, <1>5, <2>1
<1>8. ASSUME NEW w \in Runtimes, SendPaid(w)
      PROVE  Budgeted'
  <2> DEFINE call == [proc[w] EXCEPT !.stage = "SENT"]
  <2>1. proc' = [proc EXCEPT ![w] = call] /\ UNCHANGED ledger
    BY <1>8 DEF SendPaid
  <2>2. call.stage # "CLEARED"
    BY <1>8, BusyCall DEF SendPaid, IInv, Calls
  <2> HIDE DEF call
  <2> QED
    BY <1>3, <1>5, <2>1, <2>2
<1>9. ASSUME NEW w \in Runtimes, BeginReserve(w)
      PROVE  Budgeted'
  <2>1. CASE ~(Unpaid(proc[w].request) /\ WithinBudget(proc[w].amount))
    <3>1. proc' = [proc EXCEPT ![w] = Idle] /\ UNCHANGED ledger /\ Idle.stage # "CLEARED"
      BY <1>9, <2>1 DEF BeginReserve, Idle
    <3> QED
      BY <1>3, <1>5, <3>1
  <2>2. CASE Unpaid(proc[w].request) /\ WithinBudget(proc[w].amount)
    <3>1. proc[w] \in Calls /\ proc[w].amount \in Nat
      BY <1>9, BusyCall, AmountIsNat DEF BeginReserve, IInv, Calls
    <3>2. /\ UNCHANGED ledger
          /\ proc'[w].amount = proc[w].amount
          /\ \A u \in Runtimes \ {w} : proc'[u] = proc[u]
      BY <1>1, <1>9, <2>2, <3>1 DEF BeginReserve, Calls
    <3>3. \A u \in Runtimes : proc'[u].stage = "CLEARED" =>
              WithinBudget(proc'[u].amount) /\ proc'[u].amount \in Nat
      BY <1>2, <2>2, <3>1, <3>2
    <3> QED
      BY <1>3, <3>2, <3>3
  <2> QED
    BY <2>1, <2>2
<1>10. ASSUME NEW w \in Runtimes, NEW receipt \in Receipts, NEW ok \in BOOLEAN,
              updateServicePayment(w, receipt, ok)
       PROVE  Budgeted'
  <2> DEFINE q == proc[w].request
             status == Outcome(receipt, ok)
  <2>1. /\ proc[w] \in Calls /\ q \in Requests /\ ledger[q] \in Rows /\ ledger[q] # NULL
        /\ ledger[q].status = "reserved"
    BY <1>1, <1>10, BusyCall DEF IInv, updateServicePayment, CallsHold, Calls
  <2>2. ledger' = [ledger EXCEPT ![q].status = status] /\ proc' = [proc EXCEPT ![w] = Idle]
    BY <1>10 DEF updateServicePayment
  <2>3. q \in Committed /\ \A o \in Requests : o # q => ledger'[o] = ledger[o]
    BY <1>1, <2>1, <2>2 DEF Committed
  <2>4. ledger'[q].amount = ledger[q].amount
    BY <1>1, <2>1, <2>2 DEF Rows
  <2>5. Committed' \subseteq Committed
    BY <2>3 DEF Committed
  <2>6. \A o \in Committed' : ledger'[o].amount = ledger[o].amount
    BY <2>3, <2>4 DEF Committed
  <2>7. \A u \in Runtimes : proc'[u].stage = "CLEARED" =>
            WithinBudget(proc'[u].amount) /\ proc'[u].amount \in Nat
    <3>1. Idle.stage # "CLEARED"
      BY DEF Idle
    <3> QED
      BY <1>5, <2>2, <3>1
  <2> QED
    BY <1>1, <2>5, <2>6, <2>7, NothingCommitted
<1>11. ASSUME NEW x \in sent, Settle(x) PROVE Budgeted'
  BY <1>4, <1>11 DEF Settle, runtime
<1>12. ASSUME \/ \E x \in Requests \X Amounts, decision \in {"APPROVED", "REJECTED"} :
                   decideServiceCostReview(x, decision)
              \/ \E x \in Requests \X Amounts : ReviewExpires(x)
              \/ \E cents \in Thresholds : updateSpendControls(cents)
       PROVE  Budgeted'
  BY <1>4, <1>12 DEF decideServiceCostReview, ReviewExpires, updateSpendControls, runtime
<1>13. CASE UNCHANGED vars
  BY <1>4, <1>13 DEF vars, runtime
<1>14. CASE Next
  BY <1>6, <1>7, <1>8, <1>9, <1>10, <1>11, <1>12, <1>14, ReserveBudgeted, Zenon DEF Next
<1> QED
  BY <1>13, <1>14

-----------------------------------------------------------------------------
(* Theorems                                                                *)

\* What runtimes, services and users do keeps every row and call well-formed,
\* and only a call within the transaction of its job holds the lock.
THEOREM TypeCorrect == Spec => []TypeOK
<1>1. IInv => TypeOK
  BY DEF IInv, Types, TypeOK
<1> QED
  BY <1>1, Invariant, PTL

\* An exact request is paid at most once: the row that reserves it is there
\* before the authorization is sent, and is never removed.
THEOREM PaidOnce == Spec => []NeverPaidTwice
<1>1. IInv => NeverPaidTwice
  BY DEF IInv
<1> QED
  BY <1>1, Invariant, PTL

\* No charge above every threshold the user may set is sent without the
\* approval of its request at its amount.
THEOREM ReviewedBeforePaid == Spec => []PaidAsReviewed
<1>1. IInv => PaidAsReviewed
  <2> SUFFICES ASSUME IInv, NEW x \in sent, \A cents \in Thresholds : Cents(x.amount) > cents
               PROVE  review[<<x.request, x.amount>>] = "APPROVED"
    BY DEF PaidAsReviewed
  <2>1. Passed(x.request, x.amount)
    BY DEF IInv, PassedIsSent
  <2>2. Cents(x.amount) \in Int /\ Thresholds \subseteq Int
    <3>1. x.amount \in Nat
      BY AmountsAssumption DEF IInv, Types, Authorizations
    <3> QED
      BY <3>1, AmountsAssumption, LimitsAssumption DEF Cents
  <2>3. ASSUME NEW cents \in Thresholds PROVE ~(Cents(x.amount) <= cents)
    BY <2>2
  <2> QED
    BY <2>1, <2>3 DEF Passed
<1> QED
  BY <1>1, Invariant, PTL

\* The ledger accounts for every transfer that services take, with those that
\* its runtime never heard of, whatever services say of them: the row is there
\* before the authorization is sent, and only the service's own word that the
\* transfer failed takes it out of the budget.
THEOREM TransfersAreRecorded == Spec => []LedgerAccounts
<1>1. IInv => LedgerAccounts
  <2> SUFFICES ASSUME IInv PROVE LedgerAccounts
    OBVIOUS
  <2>1. ASSUME NEW x \in taken
        PROVE  /\ ledger[x.request] # NULL /\ ledger[x.request].amount = x.amount
               /\ x.request \in Committed \/ x \in denied
    <3>1. x \in sent /\ x.request \in Requests
      BY DEF IInv, Types, Authorizations
    <3>2. /\ ledger[x.request] # NULL /\ ledger[x.request].amount = x.amount
          /\ ledger[x.request].status = "failed" => x \in denied
      BY <3>1 DEF IInv, SentIsRecorded
    <3>3. ledger[x.request] \in Rows
      BY <3>1, <3>2 DEF IInv, Types
    <3> QED
      BY <3>1, <3>2, <3>3 DEF Committed, Rows, Statuses
  <2> QED
    BY <2>1 DEF LedgerAccounts, IInv, SettledIsConfirmed
<1> QED
  BY <1>1, Invariant, PTL

\* Authorizations of requests whose rows count are within the budget.
LEMMA CountedFit ==
  ASSUME IInv, Budgeted, NEW Counted, Counted \subseteq sent,
         \A x \in Counted : x.request \in Committed
  PROVE  Atomic(Counted) <= MaxJobAtomic /\ Cardinality(Counted) <= MaxCallsPerJob
<1> DEFINE f == [x \in Counted |-> x.amount]
           g == [q \in Committed |-> ledger[q].amount]
           row == [x \in Counted |-> x.request]
<1>1. \A x \in Counted : x.request \in Committed /\ ledger[x.request].amount = x.amount
  BY DEF IInv, SentIsRecorded
<1>2. IsFiniteSet(Counted) /\ IsFiniteSet(Committed)
  BY FS_Subset DEF IInv, Types, Budgeted
<1>3. \A x, y \in Counted : x.request = y.request => x = y
  BY DEF IInv, NeverPaidTwice
<1>4. /\ DOMAIN f = Counted /\ DOMAIN g = Committed
      /\ row \in [Counted -> Committed]
      /\ \A x, y \in Counted : row[x] = row[y] => x = y
      /\ \A x \in Counted : f[x] = g[row[x]]
  BY <1>1, <1>3
<1>5. \A q \in Committed : g[q] \in Nat
  BY CommittedRow DEF IInv
<1>6. CommittedAtomic = SumFunction(g) /\ Atomic(Counted) = SumFunction(f)
  BY DEF CommittedAtomic, Atomic
<1> HIDE DEF f, g, row
<1>7. SumFunction(f) <= SumFunction(g)
  BY <1>2, <1>4, <1>5, FunctionSumInjection
<1>8. SumFunction(f) \in Nat /\ SumFunction(g) \in Nat
  <2>1. \A x \in Counted : f[x] \in Nat
    BY <1>4, <1>5
  <2> QED
    BY <1>2, <1>4, <1>5, <2>1, FunctionSumType
<1>9. Cardinality(Counted) <= Cardinality(Committed)
  <2>1. row \in Injection(Counted, Committed)
    BY <1>4 DEF Injection, IsInjective
  <2> QED
    BY <1>2, <2>1, FS_Injection
<1>10. Cardinality(Counted) \in Nat /\ Cardinality(Committed) \in Nat
  BY <1>2, FS_CardinalityType
<1> QED
  BY <1>6, <1>7, <1>8, <1>9, <1>10, LimitsAssumption DEF Budgeted

\* What a service has not denied counts.
LEMMA UndeniedCounts ==
  ASSUME IInv, NEW x \in sent, x \notin denied
  PROVE  x.request \in Committed
<1>1. x.request \in Requests
  BY DEF IInv, Types, Authorizations
<1>2. ledger[x.request] # NULL /\ ledger[x.request].status # "failed"
  BY DEF IInv, SentIsRecorded
<1>3. ledger[x.request] \in Rows
  BY <1>1, <1>2 DEF IInv, Types
<1> QED
  BY <1>1, <1>2, <1>3 DEF Committed, Rows, Statuses

LEMMA BudgetInvariant == Spec => [](IInv /\ Budgeted)
<1>1. Init => IInv /\ Budgeted
  BY InitIInv, InitBudgeted
<1>2. IInv /\ Budgeted /\ [Next]_vars => (IInv /\ Budgeted)'
  BY NextIInv, NextBudgeted
<1> QED
  BY <1>1, <1>2, PTL DEF Spec

\* Whatever the runtimes hear, and whatever services answer, the transfers that
\* services have taken and may still take from a job stay within its amount and
\* its number of calls, but for those that services themselves have denied: each
\* has a row of its own that counts, and the rows that count were let in one at
\* a time under the lock.
THEOREM JobStaysWithinBudget == Spec => []JobBudgetKept
<1>1. IInv /\ Budgeted => JobBudgetKept
  BY CountedFit, UndeniedCounts DEF JobBudgetKept
<1> QED
  BY <1>1, BudgetInvariant, PTL

\* If no service takes a transfer that it has denied, all that services take
\* from a job stays within its limits.
THEOREM HonestServicesKeepBudget == Spec /\ []Honest => []JobBudgetHolds
<1>1. IInv /\ Budgeted /\ Honest => JobBudgetHolds
  <2> SUFFICES ASSUME IInv, Budgeted, Honest PROVE JobBudgetHolds
    OBVIOUS
  <2>1. taken \subseteq sent /\ \A x \in taken : x \notin denied
    BY DEF IInv, Types, Honest
  <2> QED
    BY <2>1, CountedFit, UndeniedCounts DEF JobBudgetHolds
<1> QED
  BY <1>1, BudgetInvariant, PTL
=============================================================================
