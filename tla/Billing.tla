------------------------------- MODULE Billing -------------------------------
(***************************************************************************)
(* The service balance of one user and what it buys                        *)
(* (packages/billing/src/index.ts): top-ups confirmed from the chain,      *)
(* priced assets acquired, subscriptions cancelled and renewed by the      *)
(* scheduler, creators who change a price. Whether an asset is published   *)
(* and not quarantined only refuses requests: here any may be let through. *)
(*                                                                         *)
(* Every write is part of a transaction that the locks of its rows and of  *)
(* the billing account order; a process that dies undoes it. A transaction *)
(* is cut where it reads what another may change before it has the lock.   *)
(* Time is counted in days. A day, and with it a month, may end while a    *)
(* transaction is open; none is open for a whole day.                      *)
(***************************************************************************)
EXTENDS Naturals, Functions

CONSTANTS
    Requests,       \* API requests being served
    Schedulers,     \* scheduler replicas
    Workers,        \* assets sold by the month
    Workflows,      \* assets sold once
    Prices,         \* prices in cents, 0 for free
    Limits,         \* values of monthly_variable_limit_cents, 0 for none
    Payments,       \* top-up intents
    Hashes,         \* transaction hashes on chain
    Amounts,        \* amounts of an intent or a transfer
    DaysPerMonth,   \* days of a calendar month and of a paid period
    LastDay,        \* bound: the last day
    NULL

ASSUME NumbersAssumption == Prices \subseteq Nat /\ Limits \subseteq Nat /\ Amounts \subseteq Nat \ {0}
ASSUME DaysAssumption == DaysPerMonth \in Nat /\ DaysPerMonth > 1 /\ LastDay \in Nat
Entitlements == [status : {"active", "cancelled"}, expires : Nat \cup {NULL}]
Subscriptions ==
    [status : {"active", "past-due", "pending-cancel", "cancelled"}, price : Prices \ {0}, end : Nat]

ASSUME NullAssumption ==
    /\ NULL \notin Nat \cup Payments \cup Hashes \cup Requests \cup Schedulers
    /\ NULL \notin Entitlements /\ NULL \notin Subscriptions

Assets == Workers \cup Workflows
Actors == Requests \cup Schedulers

VARIABLES
    offer,          \* marketplace_offer by asset: its price, NULL without a row
    entitlement,    \* marketplace_entitlement by asset
    subscription,   \* billing_subscription by asset
    debits,         \* debit entries of billing_ledger_entry, by idempotency key
    revenue,        \* creator_revenue_entry, by idempotency key
    payment,        \* billing_service_payment
    chain,          \* what the transfer of a hash brought to the treasury; 0 before it is mined
    limit,          \* monthly_variable_limit_cents
    day,
    locked,         \* who holds the lock of billing_account
    proc            \* what each transaction is doing

access == <<entitlement, subscription>>
books  == <<debits, revenue>>
funds  == <<payment, chain>>
vars == <<offer, access, books, funds, limit, day, locked, proc>>

Idle == [stage |-> "IDLE"]
Total(entries) == SumFunction([e \in entries |-> e.amount])
Confirmed == {p \in Payments : payment[p].status = "confirmed"}
Credits == SumFunction([p \in Confirmed |-> payment[p].amount])

TypeOK ==
    /\ offer \in [Assets -> Prices \cup {NULL}]
    /\ \A a \in Assets :
         /\ entitlement[a] = NULL \/ entitlement[a] \in Entitlements
         /\ subscription[a] = NULL \/ subscription[a] \in Subscriptions
    /\ \A e \in debits \cup revenue : e.amount \in Prices \ {0} /\ e.occurred \in 0 .. LastDay
    /\ \A p \in Payments :
         payment[p] \in [status : {"none", "pending", "confirmed"}, amount : Amounts \cup {0},
                         hash : Hashes \cup {NULL}]
    /\ chain \in [Hashes -> Amounts \cup {0}]
    /\ limit \in Limits /\ day \in 0 .. LastDay /\ locked \in Actors \cup {NULL}

Init ==
    /\ offer = [a \in Assets |-> NULL]
    /\ entitlement = [a \in Assets |-> NULL] /\ subscription = [a \in Assets |-> NULL]
    /\ debits = {} /\ revenue = {}
    /\ payment = [p \in Payments |-> [status |-> "none", amount |-> 0, hash |-> NULL]]
    /\ chain = [h \in Hashes |-> 0]
    /\ limit \in Limits /\ day = 0 /\ locked = NULL
    /\ proc = [q \in Actors |-> Idle]

\* getServiceBalanceCents. The difference is never shown below zero.
Balance == IF Total(debits) > Credits THEN 0 ELSE Credits - Total(debits)

Month(d) == d \div DaysPerMonth
SpentIn(m) == Total({e \in debits : Month(e.occurred) = m})

\* ON CONFLICT (owner, idempotency_key) DO NOTHING
Add(entries, entry) ==
    IF \E e \in entries : e.key = entry.key THEN entries ELSE entries \cup {entry}

\* Slip: the account is read without its lock.
AccountFreeSlip(q) == TRUE

AccountFree(q) == locked = NULL

\* Slip: the monthly limit is compared with what was spent before.
AffordableSlip(price) ==
    price <= Balance /\ (price > 0 /\ limit > 0 => SpentIn(Month(day)) <= limit)

\* monthWindow tells the month once the account is locked.
Affordable(price) ==
    price <= Balance /\ (price > 0 /\ limit > 0 => SpentIn(Month(day)) + price <= limit)

-----------------------------------------------------------------------------
(* Top-ups                                                                 *)

createTestnetTopupIntent(p, amount) ==
    /\ payment[p].status = "none"
    /\ payment' = [payment EXCEPT ![p] = [status |-> "pending", amount |-> amount, hash |-> NULL]]
    /\ UNCHANGED <<offer, access, books, chain, limit, day, locked, proc>>

\* confirmTestnetTopup up to its update: the row of the payment is locked, no
\* other payment has the hash, and the receipt shows a transfer that is enough.
BeginConfirm(r, p, h) ==
    /\ proc[r] = Idle
    /\ payment[p].status = "pending"
    /\ \A q \in Requests : ~(proc[q].stage = "CONFIRM" /\ proc[q].payment = p)
    /\ \A other \in Payments \ {p} : payment[other].hash # h
    /\ chain[h] >= payment[p].amount
    /\ proc' = [proc EXCEPT ![r] = [stage |-> "CONFIRM", payment |-> p, hash |-> h]]
    /\ UNCHANGED <<offer, access, books, funds, limit, day, locked>>

\* Slip: without the unique index on transaction_hash.
HashFreeSlip(h) == TRUE

HashFree(h) == \A p \in Payments : payment[p].hash # h

confirmTestnetTopup(r) ==
    /\ proc[r].stage = "CONFIRM"
    /\ payment' = IF HashFree(proc[r].hash)
                  THEN [payment EXCEPT ![proc[r].payment].status = "confirmed",
                                       ![proc[r].payment].hash = proc[r].hash]
                  ELSE payment
    /\ proc' = [proc EXCEPT ![r] = Idle]
    /\ UNCHANGED <<offer, access, books, chain, limit, day, locked>>

updateSpendControls(value) ==
    /\ locked = NULL /\ limit # value
    /\ limit' = value
    /\ UNCHANGED <<offer, access, books, funds, day, locked, proc>>

-----------------------------------------------------------------------------
(* The creator                                                             *)

setMarketplaceOffer(a, price) ==
    /\ offer[a] # price
    /\ offer' = [offer EXCEPT ![a] = price]
    /\ UNCHANGED <<access, books, funds, limit, day, locked, proc>>

-----------------------------------------------------------------------------
(* Acquisition                                                             *)

Active(a) == entitlement[a] # NULL /\ entitlement[a].status = "active"

\* The first statements of acquireMarketplaceAsset: the asset, its offer, the
\* entitlement. A row that is there is locked, and one that is active ends the
\* request; where there is none another request may look, too. An asset without
\* an offer is free, but its entitlement has no offer to refer to and fails.
BeginAcquire(r, a) ==
    /\ proc[r] = Idle
    /\ offer[a] # NULL /\ ~Active(a)
    /\ entitlement[a] # NULL =>
         \A q \in Requests : ~(proc[q].stage \in {"FUNDS", "ACQUIRE"} /\ proc[q].asset = a)
    /\ proc' = [proc EXCEPT ![r] = [stage |-> "FUNDS", asset |-> a, price |-> offer[a],
                                    begun |-> day, window |-> NULL]]
    /\ UNCHANGED <<offer, access, books, funds, limit, day, locked>>

\* A transaction goes on with the month its spend was compared in.
Comparing(state, stage) == [state EXCEPT !.stage = stage, !.window = Month(day)]

AcquireFunds(r) ==
    /\ proc[r].stage = "FUNDS" /\ AccountFree(r)
    /\ IF Affordable(proc[r].price)
       THEN locked' = r /\ proc' = [proc EXCEPT ![r] = Comparing(@, "ACQUIRE")]
       ELSE proc' = [proc EXCEPT ![r] = Idle] /\ UNCHANGED locked
    /\ UNCHANGED <<offer, access, books, funds, limit, day>>

Monthly(a, price) == a \in Workers /\ price > 0

\* What is bought is charged under one key for each asset and offer. A debit has
\* occurred when its transaction began (DEFAULT now()); the paid period begins at
\* the write, where the clock is read for the entitlement and once more for the
\* subscription, as if once.
acquireMarketplaceAsset(r) ==
    LET a == proc[r].asset  price == proc[r].price
        monthly == Monthly(a, price)
        entry == [key |-> <<"acquire", a>>, amount |-> price, occurred |-> proc[r].begun]
    IN  /\ proc[r].stage = "ACQUIRE"
        /\ entitlement' = [entitlement EXCEPT ![a] =
             [status |-> "active", expires |-> IF monthly THEN day + DaysPerMonth ELSE NULL]]
        /\ subscription' = IF monthly
             THEN [subscription EXCEPT ![a] = [status |-> "active", price |-> price,
                                               end |-> day + DaysPerMonth]]
             ELSE subscription
        /\ debits' = IF price > 0 THEN Add(debits, entry) ELSE debits
        /\ revenue' = IF price > 0 THEN Add(revenue, entry) ELSE revenue
        /\ locked' = NULL
        /\ proc' = [proc EXCEPT ![r] = Idle]
        /\ UNCHANGED <<offer, funds, limit, day>>

-----------------------------------------------------------------------------
(* Subscriptions                                                           *)

Live(a) == subscription[a] # NULL /\ subscription[a].status \in {"active", "past-due", "pending-cancel"}

\* The row of a subscription is locked by the pass that renews it.
RowLocked(a) == \E s \in Schedulers : proc[s] # Idle /\ proc[s].asset = a

\* Slip: the status is changed without the lock of the row.
MayCancelSlip(a) == subscription[a] # NULL /\ subscription[a].status \in {"active", "past-due"}

MayCancel(a) ==
    /\ subscription[a] # NULL /\ subscription[a].status \in {"active", "past-due"}
    /\ ~RowLocked(a)

cancelSubscription(a) ==
    /\ MayCancel(a)
    /\ IF subscription[a].status = "past-due"
       THEN /\ subscription' = [subscription EXCEPT ![a].status = "cancelled"]
            /\ entitlement' = [entitlement EXCEPT ![a].status = "cancelled"]
       ELSE /\ subscription' = [subscription EXCEPT ![a].status = "pending-cancel"]
            /\ UNCHANGED entitlement
    /\ UNCHANGED <<offer, books, funds, limit, day, locked, proc>>

Due(a) == Live(a) /\ subscription[a].end <= day

\* Slip: a cancelled renewal is no business of the scheduler.
MayRenewSlip(a) == Due(a) /\ subscription[a].status # "pending-cancel" /\ ~RowLocked(a)

MayRenew(a) == Due(a) /\ ~RowLocked(a)

\* processBillingRenewals picks what is due and skips what is locked; a pass
\* holds one subscription here.
BeginRenewal(s, a) ==
    /\ proc[s] = Idle
    /\ MayRenew(a)
    /\ proc' = [proc EXCEPT ![s] = [stage |-> "DUE", asset |-> a, status |-> subscription[a].status,
                                    price |-> subscription[a].price, offer |-> offer[a],
                                    begun |-> day, window |-> NULL]]
    /\ UNCHANGED <<offer, access, books, funds, limit, day, locked>>

\* A renewal was cancelled, or the asset is not sold by the month any more.
Ends(s) == proc[s].status = "pending-cancel" \/ proc[s].offer = 0

EndSubscription(s) ==
    LET a == proc[s].asset IN
    /\ proc[s].stage = "DUE" /\ Ends(s)
    /\ subscription' = [subscription EXCEPT ![a].status = "cancelled"]
    /\ entitlement' = [entitlement EXCEPT ![a].status = "cancelled"]
    /\ proc' = [proc EXCEPT ![s] = Idle]
    /\ UNCHANGED <<offer, books, funds, limit, day, locked>>

RenewalFunds(s) ==
    LET a == proc[s].asset IN
    /\ proc[s].stage = "DUE" /\ ~Ends(s) /\ AccountFree(s)
    /\ IF Affordable(proc[s].price)
       THEN /\ locked' = s /\ proc' = [proc EXCEPT ![s] = Comparing(@, "RENEW")]
            /\ UNCHANGED subscription
       ELSE /\ subscription' = [subscription EXCEPT ![a].status = "past-due"]
            /\ proc' = [proc EXCEPT ![s] = Idle] /\ UNCHANGED locked
    /\ UNCHANGED <<offer, entitlement, books, funds, limit, day>>

\* Slip: a renewal is kept under the key of the acquisition.
RenewalKeySlip(a, end) == <<"acquire", a>>

RenewalKey(a, end) == <<"renew", a, end>>

PaidUntil(end) == end + DaysPerMonth

Renew(s) ==
    LET a == proc[s].asset
        end == subscription[a].end
        entry == [key |-> RenewalKey(a, end), amount |-> proc[s].price, occurred |-> proc[s].begun]
    IN  /\ proc[s].stage = "RENEW"
        /\ debits' = Add(debits, entry)
        /\ revenue' = Add(revenue, entry)
        /\ subscription' = [subscription EXCEPT ![a] = [status |-> "active", price |-> @.price,
                                                          end |-> end + DaysPerMonth]]
        /\ entitlement' = [entitlement EXCEPT ![a] = [status |-> "active", expires |-> PaidUntil(end)]]
        /\ locked' = NULL
        /\ proc' = [proc EXCEPT ![s] = Idle]
        /\ UNCHANGED <<offer, funds, limit, day>>

-----------------------------------------------------------------------------
(* The world                                                               *)

\* The user's wallet pays the treasury.
Transfer(h, amount) ==
    /\ chain[h] = 0
    /\ chain' = [chain EXCEPT ![h] = amount]
    /\ UNCHANGED <<offer, access, books, payment, limit, day, locked, proc>>

\* What is open was begun today: it may see this day end, and no other.
NextDay ==
    /\ day < LastDay
    /\ \A q \in Actors : proc[q].stage \in {"FUNDS", "ACQUIRE", "DUE", "RENEW"} => proc[q].begun = day
    /\ day' = day + 1
    /\ UNCHANGED <<offer, access, books, funds, limit, locked, proc>>

Request(r) ==
    \/ \E a \in Assets : BeginAcquire(r, a)
    \/ AcquireFunds(r) \/ acquireMarketplaceAsset(r)
    \/ \E p \in Payments, h \in Hashes : BeginConfirm(r, p, h)
    \/ confirmTestnetTopup(r)

Scheduler(s) ==
    \/ \E a \in Workers : BeginRenewal(s, a)
    \/ EndSubscription(s) \/ RenewalFunds(s) \/ Renew(s)

Next ==
    \/ \E r \in Requests : Request(r)
    \/ \E s \in Schedulers : Scheduler(s)
    \/ \E a \in Workers : cancelSubscription(a)
    \/ \E a \in Assets, price \in Prices : setMarketplaceOffer(a, price)
    \/ \E value \in Limits : updateSpendControls(value)
    \/ \E p \in Payments, amount \in Amounts : createTestnetTopupIntent(p, amount)
    \/ \E h \in Hashes, amount \in Amounts : Transfer(h, amount)
    \/ NextDay

Spec == Init /\ [][Next]_vars

\* A transaction once begun ends, and the scheduler keeps passing.
Fairness ==
    /\ \A s \in Schedulers : WF_vars(Scheduler(s))
    /\ \A r \in Requests :
         WF_vars(AcquireFunds(r) \/ acquireMarketplaceAsset(r) \/ confirmTestnetTopup(r))

FairSpec == Spec /\ Fairness

-----------------------------------------------------------------------------
(* Properties                                                              *)

\* The service balance is never overdrawn: what two acquisitions and a renewal
\* read before they pay is not paid twice. The balance is clamped where it is
\* read, so that an overdraft would go unnoticed (billing/src/index.ts:70).
NeverOverdrawn == Total(debits) <= Credits

\* A transaction on chain is credited once, and for no more than it brought
\* (MILESTONE-13-TESTING.md:5, "one transaction hash must never be reusable").
TopupIsBacked ==
    \A h \in Hashes :
      SumFunction([p \in {q \in Confirmed : payment[q].hash = h} |-> payment[p].amount]) <= chain[h]

Months == {Month(d) : d \in 0 .. LastDay}

\* A charge that was compared with another month than the one it is booked in: a
\* month ended while its transaction waited for the account.
Straddling ==
    \E q \in Actors : /\ proc[q].stage \in {"ACQUIRE", "RENEW"} /\ proc'[q] = Idle
                      /\ proc[q].window # Month(proc[q].begun)

\* However acquisitions and renewals meet at the end of what a month allows, and
\* whenever the month ends, no debit takes the spend of a month over the limit in
\* force, unless its transaction began before a month's end and was compared
\* after it.
MonthlyLimitKept ==
    [][\A m \in Months :
         limit > 0 /\ SpentIn(m)' > SpentIn(m) => SpentIn(m)' <= limit \/ Straddling]_vars

\* The same without exception (MILESTONE-13-TESTING.md:10).
MonthlyLimitHolds ==
    [][\A m \in Months : limit > 0 /\ SpentIn(m)' > SpentIn(m) => SpentIn(m)' <= limit]_vars

\* A subscription goes on for another period only for the price agreed at its
\* acquisition, paid once, by however many replicas it is due at
\* ("at the user-accepted price snapshot", MILESTONE-13.md:8).
RenewalIsPaid ==
    [][\A a \in Workers :
         (subscription[a] # NULL /\ subscription'[a].end >= subscription[a].end + DaysPerMonth
            /\ subscription[a].status # "cancelled")
           => Total(debits') = Total(debits) + subscription[a].price]_vars

Renewals(a) == {e \in debits : e.key[1] = "renew" /\ e.key[2] = a}

\* A subscription whose renewal was cancelled is not charged again, whatever a
\* pass of the scheduler had read of it: the paid period runs out
\* (MILESTONE-13-TESTING.md:10).
CancelledIsNotRenewed ==
    [][\A a \in Workers :
         (subscription[a] # NULL /\ subscription[a].status \in {"pending-cancel", "cancelled"})
           => Renewals(a)' = Renewals(a)]_vars

\* As long as a subscription lives, what it pays for is accessible, and not for
\* less than the period that was paid.
SubscriberHasAccess ==
    \A a \in Workers :
      Live(a) => Active(a) /\ entitlement[a].expires \in {NULL, subscription[a].end}

\* What is due is renewed, found past due or ended.
DueIsSettled ==
    \A a \in Workers :
      (Due(a) /\ subscription[a].status # "past-due") ~> (~Due(a) \/ subscription[a].status = "past-due")

\* Every acquisition of a priced asset is paid from the service balance
\* ("Acquire the paid Worker: quote, balance debit, entitlement",
\* MILESTONE-13-TESTING.md:6).
AcquisitionIsPaid ==
    [][\A a \in Assets :
         (~Active(a) /\ Active(a)' /\ \E r \in Requests : proc[r].stage = "ACQUIRE" /\ proc[r].asset = a
                                         /\ proc[r].price > 0 /\ proc'[r] = Idle)
           => Total(debits') > Total(debits)]_vars
=============================================================================
