---------------------------- MODULE BillingProofs -----------------------------
(* Proofs about Billing, for any number of requests, replicas, assets,       *)
(* prices, payments and days.                                                *)
EXTENDS Billing, SumLemmas, TLAPS

-----------------------------------------------------------------------------
(* Types                                                                   *)

Confirming == [stage : {"CONFIRM"}, payment : Payments, hash : Hashes]
Acquiring == [stage : {"FUNDS", "ACQUIRE"}, asset : Assets, price : Prices,
              begun : 0 .. LastDay, window : Months \cup {NULL}]
Renewing ==
    [stage : {"DUE", "RENEW"}, asset : Workers,
     status : {"active", "past-due", "pending-cancel", "cancelled"}, price : Prices \ {0},
     offer : Prices \cup {NULL}, begun : 0 .. LastDay, window : Months \cup {NULL}]
ProcStates == {Idle} \cup Confirming \cup Acquiring \cup Renewing

PaymentRows == [status : {"none", "pending", "confirmed"}, amount : Amounts \cup {0},
                hash : Hashes \cup {NULL}]

RowTypes ==
    /\ offer \in [Assets -> Prices \cup {NULL}]
    /\ entitlement \in [Assets -> Entitlements \cup {NULL}]
    /\ subscription \in [Assets -> Subscriptions \cup {NULL}]

BookTypes ==
    \A e \in debits \cup revenue : e.amount \in Prices \ {0} /\ e.occurred \in 0 .. LastDay

FundTypes ==
    /\ payment \in [Payments -> PaymentRows]
    /\ chain \in [Hashes -> Amounts \cup {0}]
    /\ limit \in Limits

ProcTypes ==
    /\ proc \in [Actors -> ProcStates]
    /\ day \in 0 .. LastDay
    /\ locked \in Actors \cup {NULL}

-----------------------------------------------------------------------------
(* The invariant                                                           *)

\* A pass holds one due subscription as it read it, and no other pass holds it.
Held ==
    /\ \A s \in Actors : proc[s].stage \in {"DUE", "RENEW"} =>
         /\ s \in Schedulers /\ Due(proc[s].asset)
         /\ subscription[proc[s].asset].status = proc[s].status
         /\ subscription[proc[s].asset].price = proc[s].price
         /\ proc[s].stage = "RENEW" => proc[s].status # "pending-cancel"
    /\ \A s, q \in Actors :
         /\ proc[s].stage \in {"DUE", "RENEW"} /\ proc[q].stage \in {"DUE", "RENEW"}
         /\ proc[s].asset = proc[q].asset
         => s = q

\* What is open was begun today or yesterday.
Recent ==
    \A q \in Actors : proc[q].stage \in {"FUNDS", "ACQUIRE", "DUE", "RENEW"} =>
      proc[q].begun \in 0 .. LastDay /\ proc[q].begun <= day /\ day <= proc[q].begun + 1

\* What a request is about to buy lives only since another one bought it.
Bought ==
    \A r \in Actors : proc[r].stage \in {"FUNDS", "ACQUIRE"} /\ Live(proc[r].asset) =>
      subscription[proc[r].asset].end >= proc[r].begun + DaysPerMonth

\* Only workers are subscribed to.
OnlyWorkers == \A a \in Assets \ Workers : subscription[a] = NULL

BInv ==
    /\ RowTypes /\ BookTypes /\ FundTypes /\ ProcTypes
    /\ Held /\ Recent /\ Bought /\ OnlyWorkers /\ SubscriberHasAccess

LEMMA InitBInv == Init => BInv
<1> SUFFICES ASSUME Init PROVE BInv
  OBVIOUS
<1> USE DEF Init
<1>1. RowTypes
  BY DEF RowTypes
<1>2. BookTypes
  BY DEF BookTypes
<1>3. FundTypes
  BY DEF FundTypes, PaymentRows
<1>4. ProcTypes
  BY DaysAssumption DEF ProcTypes, ProcStates
<1>5. Held /\ Recent /\ Bought /\ OnlyWorkers
  BY DEF Held, Recent, Bought, OnlyWorkers, Idle
<1>6. SubscriberHasAccess
  BY DEF SubscriberHasAccess, Live, Assets
<1> QED
  BY <1>1, <1>2, <1>3, <1>4, <1>5, <1>6 DEF BInv

\* The stage tells what a transaction holds.
LEMMA ProcAt ==
  ASSUME ProcTypes, NEW q \in Actors
  PROVE  /\ proc[q].stage = "CONFIRM" => proc[q] \in Confirming
         /\ proc[q].stage \in {"FUNDS", "ACQUIRE"} => proc[q] \in Acquiring
         /\ proc[q].stage \in {"DUE", "RENEW"} => proc[q] \in Renewing
         /\ proc[q] # Idle => proc[q].stage \in {"CONFIRM", "FUNDS", "ACQUIRE", "DUE", "RENEW"}
<1>1. proc[q] \in ProcStates
  BY DEF ProcTypes
<1> QED
  BY <1>1 DEF ProcStates, Confirming, Acquiring, Renewing, Idle

AccessKept == Held' /\ Recent' /\ Bought' /\ OnlyWorkers' /\ SubscriberHasAccess'

\* A transaction that takes no asset into its hands, beside subscriptions and
\* entitlements that stay.
LEMMA Aside ==
  ASSUME BInv, NEW q \in Actors, NEW state \in {Idle} \cup Confirming,
         proc' = [proc EXCEPT ![q] = state], UNCHANGED <<access, day>>
  PROVE  AccessKept
<1>1. \A p \in Actors : proc'[p] = proc[p] \/ proc'[p].stage \in {"IDLE", "CONFIRM"}
  BY DEF BInv, ProcTypes, Idle, Confirming
<1>2. \A a : Due(a)' <=> Due(a)
  BY DEF Due, Live, access
<1>3. Held'
  BY <1>1, <1>2 DEF BInv, Held, access
<1>4. Recent' /\ Bought'
  BY <1>1 DEF BInv, Recent, Bought, Live, access
<1>5. OnlyWorkers' /\ SubscriberHasAccess'
  BY DEF BInv, OnlyWorkers, SubscriberHasAccess, Live, Active, access
<1> QED
  BY <1>3, <1>4, <1>5 DEF AccessKept

LEMMA NoProc ==
  ASSUME BInv, UNCHANGED <<access, day, proc>>
  PROVE  AccessKept
<1>1. \A a : Due(a)' <=> Due(a)
  BY DEF Due, Live, access
<1>2. Held' /\ Recent' /\ Bought'
  BY <1>1 DEF BInv, Held, Recent, Bought, Live, access
<1>3. OnlyWorkers' /\ SubscriberHasAccess'
  BY DEF BInv, OnlyWorkers, SubscriberHasAccess, Live, Active, access
<1> QED
  BY <1>2, <1>3 DEF AccessKept

\* A transaction that goes on keeps its age, and one that begins has none.
LEMMA AgeKept ==
  ASSUME BInv, NEW q \in Actors, NEW state, proc' = [proc EXCEPT ![q] = state], UNCHANGED day,
         \/ state.stage = "IDLE"
         \/ state.begun = day
         \/ proc[q].stage \in {"FUNDS", "ACQUIRE", "DUE", "RENEW"} /\ state.begun = proc[q].begun
  PROVE  Recent'
<1>1. proc'[q] = state /\ \A p \in Actors : p # q => proc'[p] = proc[p]
  BY DEF BInv, ProcTypes
<1>2. day \in 0 .. LastDay /\ day <= day + 1
  BY DaysAssumption DEF BInv, ProcTypes
<1> QED
  BY <1>1, <1>2 DEF BInv, Recent

\* What a request is about to buy is not due.
LEMMA NotDue ==
  ASSUME BInv, NEW r \in Actors, proc[r].stage \in {"FUNDS", "ACQUIRE"}
  PROVE  ~Due(proc[r].asset)
<1>1. proc[r].asset \in Assets
  BY ProcAt DEF BInv, Acquiring
<1>2. SUFFICES ASSUME Live(proc[r].asset), subscription[proc[r].asset].end <= day PROVE FALSE
  BY DEF Due
<1>3. subscription[proc[r].asset] \in Subscriptions
  BY <1>1, <1>2 DEF Live, BInv, RowTypes
<1>4. subscription[proc[r].asset].end \in Nat
  BY <1>3 DEF Subscriptions
<1>5. subscription[proc[r].asset].end >= proc[r].begun + DaysPerMonth
  BY <1>2 DEF BInv, Bought
<1>6. proc[r].begun \in 0 .. LastDay /\ day <= proc[r].begun + 1 /\ day \in 0 .. LastDay
  BY DEF BInv, Recent, ProcTypes
<1> QED
  BY <1>2, <1>4, <1>5, <1>6, DaysAssumption

-----------------------------------------------------------------------------
(* The actions                                                             *)

LEMMA FundsInv ==
  ASSUME BInv,
         \/ \E p \in Payments, amount \in Amounts : createTestnetTopupIntent(p, amount)
         \/ \E h \in Hashes, amount \in Amounts : Transfer(h, amount)
         \/ \E value \in Limits : updateSpendControls(value)
         \/ \E a \in Assets, price \in Prices : setMarketplaceOffer(a, price)
  PROVE  BInv'
<1> USE DEF createTestnetTopupIntent, Transfer, updateSpendControls, setMarketplaceOffer
<1>1. UNCHANGED <<access, books, day, locked, proc>>
  OBVIOUS
<1>2. AccessKept
  BY <1>1, NoProc DEF AccessKept
<1>3. RowTypes'
  BY DEF BInv, RowTypes, access
<1>4. BookTypes' /\ ProcTypes'
  BY <1>1 DEF BInv, BookTypes, ProcTypes, books
<1>5. FundTypes'
  BY DEF BInv, FundTypes, PaymentRows, funds
<1> QED
  BY <1>2, <1>3, <1>4, <1>5 DEF BInv, AccessKept

LEMMA TopupInv ==
  ASSUME BInv, NEW r \in Requests,
         (\E p \in Payments, h \in Hashes : BeginConfirm(r, p, h)) \/ confirmTestnetTopup(r)
  PROVE  BInv'
<1>0. r \in Actors
  BY DEF Actors
<1>1. \E state \in {Idle} \cup Confirming : proc' = [proc EXCEPT ![r] = state]
  BY DEF BeginConfirm, confirmTestnetTopup, Confirming
<1>2. UNCHANGED <<offer, access, books, chain, limit, day, locked>>
  BY DEF BeginConfirm, confirmTestnetTopup, funds
<1>3. AccessKept
  BY <1>0, <1>1, <1>2, Aside DEF AccessKept
<1>4. RowTypes' /\ BookTypes'
  BY <1>2 DEF BInv, RowTypes, BookTypes, access, books
<1>5. FundTypes'
  <2>1. CASE UNCHANGED payment
    BY <1>2, <2>1 DEF BInv, FundTypes
  <2>2. CASE confirmTestnetTopup(r)
    <3>1. proc[r] \in Confirming
      BY <1>0, <2>2, ProcAt DEF confirmTestnetTopup, BInv
    <3>2. proc[r].payment \in Payments /\ proc[r].hash \in Hashes
      BY <3>1 DEF Confirming
    <3> QED
      BY <1>2, <2>2, <3>2 DEF confirmTestnetTopup, BInv, FundTypes, PaymentRows
  <2> QED
    BY <2>1, <2>2 DEF BeginConfirm, funds
<1>6. ProcTypes'
  BY <1>1, <1>2 DEF BInv, ProcTypes, ProcStates
<1> QED
  BY <1>3, <1>4, <1>5, <1>6 DEF BInv, AccessKept

LEMMA DayInv ==
  ASSUME BInv, NextDay
  PROVE  BInv'
<1>1. UNCHANGED <<offer, access, books, funds, limit, locked, proc>>
  BY DEF NextDay
<1>2. day \in 0 .. LastDay /\ day' = day + 1 /\ day' \in 0 .. LastDay
  BY DaysAssumption DEF NextDay, BInv, ProcTypes
<1>3. Held'
  <2>1. ASSUME NEW s \in Actors, proc[s].stage \in {"DUE", "RENEW"}
        PROVE  Due(proc[s].asset)'
    <3>1. Due(proc[s].asset) /\ proc[s].asset \in Assets
      BY <2>1, ProcAt DEF BInv, Held, Renewing, Assets
    <3>2. subscription[proc[s].asset] \in Subscriptions
      BY <3>1 DEF Due, Live, BInv, RowTypes
    <3>3. subscription[proc[s].asset].end \in Nat
      BY <3>2 DEF Subscriptions
    <3> QED
      BY <1>1, <1>2, <3>1, <3>3 DEF Due, Live, access
  <2> QED
    BY <1>1, <2>1 DEF BInv, Held, access
<1>4. Recent'
  BY <1>1, <1>2 DEF NextDay, BInv, Recent
<1>5. Bought' /\ OnlyWorkers' /\ SubscriberHasAccess'
  BY <1>1 DEF BInv, Bought, OnlyWorkers, SubscriberHasAccess, Live, Active, access
<1>6. RowTypes' /\ BookTypes' /\ FundTypes'
  BY <1>1 DEF BInv, RowTypes, BookTypes, FundTypes, access, books, funds
<1>7. ProcTypes'
  BY <1>1, <1>2 DEF BInv, ProcTypes
<1> QED
  BY <1>3, <1>4, <1>5, <1>6, <1>7 DEF BInv

LEMMA CancelInv ==
  ASSUME BInv, NEW a \in Workers, cancelSubscription(a)
  PROVE  BInv'
<1>1. UNCHANGED <<offer, books, funds, limit, day, locked, proc>> /\ a \in Assets
  BY DEF cancelSubscription, Assets
<1>2. subscription[a] \in Subscriptions /\ ~RowLocked(a) /\ subscription[a].status \in {"active", "past-due"}
  BY <1>1 DEF cancelSubscription, MayCancel, BInv, RowTypes
<1>3. PICK status \in {"cancelled", "pending-cancel"} :
        /\ subscription' = [subscription EXCEPT ![a] = [@ EXCEPT !.status = status]]
        /\ \/ status = "pending-cancel" /\ UNCHANGED entitlement
           \/ status = "cancelled" /\ entitlement' = [entitlement EXCEPT ![a] = [@ EXCEPT !.status = "cancelled"]]
  BY DEF cancelSubscription
<1>4. [subscription[a] EXCEPT !.status = status] \in Subscriptions
  BY <1>2 DEF Subscriptions
<1>5. Live(a) /\ Active(a) /\ entitlement[a] \in Entitlements
  BY <1>1, <1>2, NullAssumption DEF Live, Active, BInv, SubscriberHasAccess, RowTypes
<1>6. RowTypes'
  <2>1. [entitlement[a] EXCEPT !.status = "cancelled"] \in Entitlements
    BY <1>5 DEF Entitlements
  <2> QED
    BY <1>1, <1>3, <1>4, <2>1 DEF BInv, RowTypes
<1>7. \A b \in Assets : b # a => subscription'[b] = subscription[b] /\ entitlement'[b] = entitlement[b]
  BY <1>3 DEF BInv, RowTypes
<1>8. subscription'[a] = [subscription[a] EXCEPT !.status = status]
  BY <1>1, <1>3 DEF BInv, RowTypes
<1>9. \A s \in Actors : proc[s].stage \in {"DUE", "RENEW"} => proc[s].asset # a /\ proc[s].asset \in Assets
  <2> SUFFICES ASSUME NEW s \in Actors, proc[s].stage \in {"DUE", "RENEW"}
               PROVE  proc[s].asset # a /\ proc[s].asset \in Assets
    OBVIOUS
  <2>1. proc[s] \in Renewing /\ s \in Schedulers
    BY ProcAt DEF BInv, Held
  <2> QED
    BY <1>2, <2>1 DEF RowLocked, Renewing, Idle, Assets
<1>10. \A b \in Assets : b # a => (Due(b)' <=> Due(b))
  BY <1>1, <1>7 DEF Due, Live
<1>11. Live(a) /\ subscription'[a].end = subscription[a].end
  BY <1>2, <1>5, <1>8 DEF Subscriptions
<1>12. Held'
  BY <1>1, <1>7, <1>9, <1>10 DEF BInv, Held
<1>13. Recent' /\ Bought'
  <2>1. \A r \in Actors : proc[r].stage \in {"FUNDS", "ACQUIRE"} => proc[r].asset \in Assets
    BY ProcAt DEF BInv, Acquiring
  <2>2. \A b \in Assets : Live(b)' => Live(b) /\ subscription'[b].end = subscription[b].end
    BY <1>7, <1>11 DEF Live
  <2>3. Bought'
    BY <1>1, <2>1, <2>2 DEF BInv, Bought
  <2> QED
    BY <1>1, <2>3 DEF BInv, Recent
<1>14. OnlyWorkers'
  BY <1>7 DEF BInv, OnlyWorkers
<1>15. SubscriberHasAccess'
  <2>1. ASSUME NEW b \in Workers, Live(b)'
        PROVE  (Active(b) /\ entitlement[b].expires \in {NULL, subscription[b].end})'
    <3>1. CASE b # a
      <4>1. b \in Assets
        BY DEF Assets
      <4> QED
        BY <1>7, <2>1, <3>1, <4>1 DEF BInv, SubscriberHasAccess, Live, Active
    <3>2. CASE b = a
      <4>1. status = "pending-cancel"
        BY <1>2, <1>8, <2>1, <3>2 DEF Live, Subscriptions
      <4>2. UNCHANGED entitlement /\ subscription'[a].end = subscription[a].end
        BY <1>2, <1>3, <1>8, <4>1 DEF Subscriptions
      <4> QED
        BY <1>5, <3>2, <4>2 DEF BInv, SubscriberHasAccess, Active
    <3> QED
      BY <3>1, <3>2
  <2> QED
    BY <2>1 DEF SubscriberHasAccess
<1>16. BookTypes' /\ FundTypes' /\ ProcTypes'
  BY <1>1 DEF BInv, BookTypes, FundTypes, ProcTypes, books, funds
<1> QED
  BY <1>6, <1>12, <1>13, <1>14, <1>15, <1>16 DEF BInv

-----------------------------------------------------------------------------
(* Acquisition                                                             *)

LEMMA BeginAcquireInv ==
  ASSUME BInv, NEW r \in Requests, NEW a \in Assets, BeginAcquire(r, a)
  PROVE  BInv'
<1>1. UNCHANGED <<offer, access, books, funds, limit, day, locked>> /\ r \in Actors
  BY DEF BeginAcquire, Actors
<1>2. ~Live(a)
  BY DEF BeginAcquire, Live, BInv, OnlyWorkers, SubscriberHasAccess
<1> DEFINE state == [stage |-> "FUNDS", asset |-> a, price |-> offer[a],
                     begun |-> day, window |-> NULL]
<1>3. proc' = [proc EXCEPT ![r] = state]
  BY DEF BeginAcquire
<1>4. proc'[r] = state /\ \A q \in Actors : q # r => proc'[q] = proc[q]
  BY <1>1, <1>3 DEF BInv, ProcTypes
<1>5. offer[a] \in Prices /\ day \in 0 .. LastDay
  BY DEF BeginAcquire, BInv, RowTypes, ProcTypes
<1>6. state \in Acquiring
  BY <1>5 DEF Acquiring
<1>12. ProcTypes'
  BY <1>1, <1>3, <1>6 DEF BInv, ProcTypes, ProcStates
<1>7. \A b : Due(b)' <=> Due(b)
  BY <1>1 DEF Due, Live, access
<1>8. Held'
  BY <1>1, <1>4, <1>7 DEF BInv, Held, access
<1>9. Recent' /\ Bought'
  <2>1. Recent'
    BY <1>1, <1>3, AgeKept
  <2>2. Bought'
    BY <1>1, <1>2, <1>4 DEF BInv, Bought, Live, access
  <2> QED
    BY <2>1, <2>2
<1>10. OnlyWorkers' /\ SubscriberHasAccess'
  BY <1>1 DEF BInv, OnlyWorkers, SubscriberHasAccess, Live, Active, access
<1>11. RowTypes' /\ BookTypes' /\ FundTypes'
  BY <1>1 DEF BInv, RowTypes, BookTypes, FundTypes, access, books, funds
<1> QED
  BY <1>8, <1>9, <1>10, <1>11, <1>12 DEF BInv

LEMMA AcquireFundsInv ==
  ASSUME BInv, NEW r \in Requests, AcquireFunds(r)
  PROVE  BInv'
<1>1. UNCHANGED <<offer, access, books, funds, limit, day>> /\ r \in Actors
  BY DEF AcquireFunds, Actors
<1>2. proc[r] \in Acquiring
  BY <1>1, ProcAt DEF AcquireFunds, BInv
<1>3. RowTypes' /\ BookTypes' /\ FundTypes'
  BY <1>1 DEF BInv, RowTypes, BookTypes, FundTypes, access, books, funds
<1>4. CASE Affordable(proc[r].price)
  <2>1. locked' = r /\ proc' = [proc EXCEPT ![r] = Comparing(@, "ACQUIRE")]
    BY <1>4 DEF AcquireFunds
  <2>2. /\ proc'[r] = Comparing(proc[r], "ACQUIRE")
        /\ \A q \in Actors : q # r => proc'[q] = proc[q]
    BY <1>1, <2>1 DEF BInv, ProcTypes
  <2>8. Month(day) \in Months
    BY DEF Months, BInv, ProcTypes
  <2>9. /\ proc'[r] \in Acquiring /\ proc'[r].stage = "ACQUIRE"
        /\ proc'[r].asset = proc[r].asset /\ proc'[r].begun = proc[r].begun
    BY <1>2, <2>2, <2>8 DEF Comparing, Acquiring
  <2>3. ProcTypes'
    BY <1>1, <2>1, <2>2, <2>9 DEF BInv, ProcTypes, ProcStates
  <2>4. \A b : Due(b)' <=> Due(b)
    BY <1>1 DEF Due, Live, access
  <2>5. Held'
    BY <1>1, <2>2, <2>4, <2>9 DEF BInv, Held, access
  <2>6. Recent' /\ Bought'
    <3>1. Bought'
      BY <1>1, <2>2, <2>9 DEF BInv, Bought, AcquireFunds, Live, access
    <3>2. Recent'
      BY <1>1, <2>2, <2>9 DEF BInv, Recent, AcquireFunds
    <3> QED
      BY <3>1, <3>2
  <2>7. OnlyWorkers' /\ SubscriberHasAccess'
    BY <1>1 DEF BInv, OnlyWorkers, SubscriberHasAccess, Live, Active, access
  <2> QED
    BY <1>3, <2>3, <2>5, <2>6, <2>7 DEF BInv
<1>5. CASE ~Affordable(proc[r].price)
  <2>1. proc' = [proc EXCEPT ![r] = Idle] /\ UNCHANGED locked
    BY <1>5 DEF AcquireFunds
  <2>2. AccessKept
    BY <1>1, <2>1, Aside DEF AccessKept
  <2>3. ProcTypes'
    BY <1>1, <2>1 DEF BInv, ProcTypes, ProcStates
  <2> QED
    BY <1>3, <2>2, <2>3 DEF BInv, AccessKept
<1> QED
  BY <1>4, <1>5

\* An entry is added as it is or not at all.
LEMMA AddTyped ==
  ASSUME NEW entries, NEW entry, NEW e \in Add(entries, entry)
  PROVE  e \in entries \/ e = entry
  BY DEF Add

LEMMA AcquireInv ==
  ASSUME BInv, NEW r \in Requests, acquireMarketplaceAsset(r)
  PROVE  BInv'
<1>1. UNCHANGED <<offer, funds, limit, day>> /\ r \in Actors /\ proc[r].stage = "ACQUIRE"
  BY DEF acquireMarketplaceAsset, Actors
<1>0. PICK a \in Assets, price \in Prices : a = proc[r].asset /\ price = proc[r].price
  BY <1>1, ProcAt DEF BInv, Acquiring
<1>2. day \in Nat /\ DaysPerMonth \in Nat /\ DaysPerMonth > 0 /\ day + DaysPerMonth \in Nat
      /\ day + DaysPerMonth > day
  BY DaysAssumption DEF BInv, ProcTypes
<1>19. proc[r].begun \in 0 .. LastDay
  BY <1>1 DEF BInv, Recent
<1> DEFINE entry == [key |-> <<"acquire", a>>, amount |-> price, occurred |-> proc[r].begun]
<1>3. BookTypes'
  <2>1. debits' \cup revenue' \subseteq debits \cup revenue \cup (IF price > 0 THEN {entry} ELSE {})
    BY <1>0, AddTyped DEF acquireMarketplaceAsset
  <2>2. entry.amount = price /\ entry.occurred = proc[r].begun
    OBVIOUS
  <2>3. price > 0 => price \in Prices \ {0}
    BY <1>2
  <2> HIDE DEF entry
  <2> QED
    BY <1>19, <2>1, <2>2, <2>3 DEF BInv, BookTypes
<1>4. PICK ent \in Entitlements :
        /\ entitlement' = [entitlement EXCEPT ![a] = ent]
        /\ ent.status = "active" /\ ent.expires = IF Monthly(a, price) THEN day + DaysPerMonth ELSE NULL
  <2>1. [status |-> "active", expires |-> IF Monthly(a, price) THEN day + DaysPerMonth ELSE NULL] \in Entitlements
    BY <1>2 DEF Entitlements
  <2> QED
    BY <1>0, <2>1 DEF acquireMarketplaceAsset
<1>5. \/ ~Monthly(a, price) /\ UNCHANGED subscription
      \/ /\ Monthly(a, price)
         /\ \E sub \in Subscriptions :
              /\ subscription' = [subscription EXCEPT ![a] = sub]
              /\ sub.status = "active" /\ sub.end = day + DaysPerMonth
  <2>1. Monthly(a, price) => [status |-> "active", price |-> price, end |-> day + DaysPerMonth] \in Subscriptions
    BY <1>2, NumbersAssumption DEF Monthly, Subscriptions
  <2> QED
    BY <1>0, <2>1 DEF acquireMarketplaceAsset
<1>6. RowTypes'
  BY <1>1, <1>4, <1>5 DEF BInv, RowTypes
<1>7. /\ \A b \in Assets : b # a => subscription'[b] = subscription[b] /\ entitlement'[b] = entitlement[b]
      /\ entitlement'[a] = ent
  BY <1>2, <1>4, <1>5 DEF BInv, RowTypes
<1>8. Live(a)' => \A q \in Actors : proc[q].stage \in {"FUNDS", "ACQUIRE"} /\ proc[q].asset = a =>
        subscription'[a].end >= proc[q].begun + DaysPerMonth
  <2> SUFFICES ASSUME Live(a)', NEW q \in Actors, proc[q].stage \in {"FUNDS", "ACQUIRE"},
                      proc[q].asset = a
               PROVE  subscription'[a].end >= proc[q].begun + DaysPerMonth
    OBVIOUS
  <2>1. proc[q].begun \in Nat /\ proc[q].begun <= day
    BY DEF BInv, Recent
  <2>2. CASE UNCHANGED subscription
    BY <2>2 DEF Live, BInv, Bought
  <2>3. CASE \E sub \in Subscriptions :
              /\ subscription' = [subscription EXCEPT ![a] = sub]
              /\ sub.status = "active" /\ sub.end = day + DaysPerMonth
    <3>1. subscription'[a].end = day + DaysPerMonth
      BY <2>3 DEF BInv, RowTypes
    <3> QED
      BY <1>2, <2>1, <3>1
  <2> QED
    BY <1>5, <2>2, <2>3
<1>9. \A b \in Assets : b # a => (Due(b)' <=> Due(b))
  BY <1>1, <1>7 DEF Due, Live
<1>10. proc' = [proc EXCEPT ![r] = Idle] /\ locked' = NULL
  BY DEF acquireMarketplaceAsset
<1>11. proc'[r].stage = "IDLE" /\ \A q \in Actors : q # r => proc'[q] = proc[q]
  BY <1>1, <1>10 DEF BInv, ProcTypes, Idle
<1>12. ProcTypes'
  BY <1>1, <1>10 DEF BInv, ProcTypes, ProcStates
<1>13. \A s \in Actors : proc[s].stage \in {"DUE", "RENEW"} => proc[s].asset # a /\ proc[s].asset \in Assets
  <2> SUFFICES ASSUME NEW s \in Actors, proc[s].stage \in {"DUE", "RENEW"}
               PROVE  proc[s].asset # a /\ proc[s].asset \in Assets
    OBVIOUS
  <2>1. proc[s] \in Renewing /\ Due(proc[s].asset)
    BY ProcAt DEF BInv, Held
  <2>2. ~Due(a)
    BY <1>0, <1>1, NotDue
  <2> QED
    BY <2>1, <2>2 DEF Renewing, Assets
<1>14. Held'
  BY <1>7, <1>9, <1>11, <1>13 DEF BInv, Held
<1>15. Recent' /\ Bought'
  <2>1. \A q \in Actors : proc[q].stage \in {"FUNDS", "ACQUIRE"} => proc[q].asset \in Assets
    BY ProcAt DEF BInv, Acquiring
  <2>2. Bought'
    BY <1>7, <1>8, <1>11, <2>1 DEF BInv, Bought, Live
  <2>3. Recent'
    BY <1>1, <1>10, AgeKept DEF Idle
  <2> QED
    BY <2>2, <2>3
<1>16. OnlyWorkers'
  BY <1>5, <1>7 DEF BInv, OnlyWorkers, Monthly
<1>17. SubscriberHasAccess'
  <2> SUFFICES ASSUME NEW b \in Workers, Live(b)'
               PROVE  (Active(b) /\ entitlement[b].expires \in {NULL, subscription[b].end})'
    BY DEF SubscriberHasAccess
  <2>1. b \in Assets
    BY DEF Assets
  <2>2. CASE b # a
    BY <1>7, <2>1, <2>2 DEF BInv, SubscriberHasAccess, Live, Active
  <2>3. CASE b = a
    <3>1. ent # NULL
      BY NullAssumption
    <3>2. Active(b)'
      BY <1>4, <1>7, <2>3, <3>1 DEF Active
    <3>3. entitlement'[a].expires \in {NULL, subscription'[a].end}
      <4>1. CASE ~Monthly(a, price)
        BY <1>4, <1>7, <4>1
      <4>2. CASE Monthly(a, price)
        BY <1>2, <1>4, <1>5, <1>7, <4>2 DEF BInv, RowTypes
      <4> QED
        BY <4>1, <4>2
    <3> QED
      BY <2>3, <3>2, <3>3
  <2> QED
    BY <2>2, <2>3
<1>18. FundTypes'
  BY <1>1 DEF BInv, FundTypes, funds
<1> QED
  BY <1>3, <1>6, <1>12, <1>14, <1>15, <1>16, <1>17, <1>18 DEF BInv

-----------------------------------------------------------------------------
(* Renewal                                                                 *)

\* The end of a pass over the subscription it holds.
LEMMA PassEnds ==
  ASSUME BInv, NEW s \in Actors, NEW a \in Workers,
         proc[s].stage \in {"DUE", "RENEW"}, a = proc[s].asset,
         proc' = [proc EXCEPT ![s] = Idle], UNCHANGED <<offer, day>>,
         NEW sub \in Subscriptions, subscription' = [subscription EXCEPT ![a] = sub],
         NEW ent \in Entitlements, entitlement' = [entitlement EXCEPT ![a] = ent],
         sub.status # "cancelled" => ent.status = "active" /\ ent.expires \in {NULL, sub.end}
  PROVE  RowTypes' /\ AccessKept
<1>0. a \in Assets
  BY DEF Assets
<1>1. RowTypes'
  BY DEF BInv, RowTypes
<1>2. /\ \A b \in Assets : b # a => subscription'[b] = subscription[b] /\ entitlement'[b] = entitlement[b]
      /\ subscription'[a] = sub /\ entitlement'[a] = ent
  BY <1>0 DEF BInv, RowTypes
<1>3. proc'[s].stage = "IDLE" /\ \A q \in Actors : q # s => proc'[q] = proc[q]
  BY DEF BInv, ProcTypes, Idle
<1>4. \A b \in Assets : b # a => (Due(b)' <=> Due(b))
  BY <1>2 DEF Due, Live
<1>5. \A q \in Actors : q # s /\ proc[q].stage \in {"DUE", "RENEW"} =>
        proc[q].asset # a /\ proc[q].asset \in Assets
  <2> SUFFICES ASSUME NEW q \in Actors, q # s, proc[q].stage \in {"DUE", "RENEW"}
               PROVE  proc[q].asset # a /\ proc[q].asset \in Assets
    OBVIOUS
  <2>1. proc[q] \in Renewing
    BY ProcAt DEF BInv
  <2> QED
    BY <2>1 DEF BInv, Held, Renewing, Assets
<1>6. \A q \in Actors : proc[q].stage \in {"FUNDS", "ACQUIRE"} => proc[q].asset # a /\ proc[q].asset \in Assets
  <2> SUFFICES ASSUME NEW q \in Actors, proc[q].stage \in {"FUNDS", "ACQUIRE"}
               PROVE  proc[q].asset # a /\ proc[q].asset \in Assets
    OBVIOUS
  <2>1. proc[q] \in Acquiring /\ ~Due(proc[q].asset)
    BY ProcAt, NotDue DEF BInv
  <2>2. Due(a)
    BY DEF BInv, Held
  <2> QED
    BY <2>1, <2>2 DEF Acquiring
<1>7. Held'
  BY <1>2, <1>3, <1>4, <1>5 DEF BInv, Held
<1>8. Recent' /\ Bought'
  <2>1. Bought'
    BY <1>2, <1>3, <1>6 DEF BInv, Bought, Live
  <2>2. Recent'
    BY AgeKept DEF Idle
  <2> QED
    BY <2>1, <2>2
<1>9. OnlyWorkers'
  BY <1>2 DEF BInv, OnlyWorkers
<1>10. SubscriberHasAccess'
  <2> SUFFICES ASSUME NEW b \in Workers, Live(b)'
               PROVE  (Active(b) /\ entitlement[b].expires \in {NULL, subscription[b].end})'
    BY DEF SubscriberHasAccess
  <2>1. CASE b # a
    <3>1. b \in Assets
      BY DEF Assets
    <3> QED
      BY <1>2, <2>1, <3>1 DEF BInv, SubscriberHasAccess, Live, Active
  <2>2. CASE b = a
    BY <1>2, <2>2, NullAssumption DEF Live, Active
  <2> QED
    BY <2>1, <2>2
<1> QED
  BY <1>1, <1>7, <1>8, <1>9, <1>10 DEF AccessKept

LEMMA BeginRenewalInv ==
  ASSUME BInv, NEW s \in Schedulers, NEW a \in Workers, BeginRenewal(s, a)
  PROVE  BInv'
<1>1. UNCHANGED <<offer, access, books, funds, limit, day, locked>> /\ s \in Actors /\ a \in Assets
  BY DEF BeginRenewal, Actors, Assets
<1>2. subscription[a] \in Subscriptions /\ Due(a) /\ ~RowLocked(a)
  BY <1>1 DEF BeginRenewal, MayRenew, Due, Live, BInv, RowTypes
<1> DEFINE state == [stage |-> "DUE", asset |-> a, status |-> subscription[a].status,
                     price |-> subscription[a].price, offer |-> offer[a],
                     begun |-> day, window |-> NULL]
<1>3. proc' = [proc EXCEPT ![s] = state]
  BY DEF BeginRenewal
<1>4. state \in Renewing
  BY <1>1, <1>2 DEF BInv, RowTypes, ProcTypes, Renewing, Subscriptions
<1>5. proc'[s] = state /\ \A q \in Actors : q # s => proc'[q] = proc[q]
  BY <1>1, <1>3 DEF BInv, ProcTypes
<1>6. ProcTypes'
  BY <1>1, <1>3, <1>4 DEF BInv, ProcTypes, ProcStates
<1>7. \A b : Due(b)' <=> Due(b)
  BY <1>1 DEF Due, Live, access
<1>8. \A q \in Actors : proc[q].stage \in {"DUE", "RENEW"} => proc[q].asset # a
  <2> SUFFICES ASSUME NEW q \in Actors, proc[q].stage \in {"DUE", "RENEW"}
               PROVE  proc[q].asset # a
    OBVIOUS
  <2> QED
    BY <1>2 DEF BInv, Held, RowLocked, Idle
<1>9. Held'
  BY <1>1, <1>2, <1>5, <1>7, <1>8 DEF BInv, Held, access
<1>10. Recent' /\ Bought'
  <2>1. Recent'
    BY <1>1, <1>3, AgeKept
  <2>2. Bought'
    BY <1>1, <1>5 DEF BInv, Bought, Live, access
  <2> QED
    BY <2>1, <2>2
<1>11. OnlyWorkers' /\ SubscriberHasAccess'
  BY <1>1 DEF BInv, OnlyWorkers, SubscriberHasAccess, Live, Active, access
<1>12. RowTypes' /\ BookTypes' /\ FundTypes'
  BY <1>1 DEF BInv, RowTypes, BookTypes, FundTypes, access, books, funds
<1> QED
  BY <1>6, <1>9, <1>10, <1>11, <1>12 DEF BInv

\* What a pass holds.
LEMMA PassHolds ==
  ASSUME BInv, NEW s \in Schedulers, proc[s].stage \in {"DUE", "RENEW"}
  PROVE  /\ s \in Actors /\ proc[s] \in Renewing /\ proc[s].asset \in Workers
         /\ subscription[proc[s].asset] \in Subscriptions
         /\ entitlement[proc[s].asset] \in Entitlements
         /\ entitlement[proc[s].asset].status = "active"
         /\ entitlement[proc[s].asset].expires \in {NULL, subscription[proc[s].asset].end}
<1>1. s \in Actors
  BY DEF Actors
<1>2. proc[s] \in Renewing /\ Live(proc[s].asset)
  BY <1>1, ProcAt DEF BInv, Held, Due
<1>3. proc[s].asset \in Workers /\ proc[s].asset \in Assets
  BY <1>2 DEF Renewing, Assets
<1> QED
  BY <1>1, <1>2, <1>3 DEF BInv, RowTypes, SubscriberHasAccess, Live, Active

LEMMA EndInv ==
  ASSUME BInv, NEW s \in Schedulers, EndSubscription(s)
  PROVE  BInv'
<1>1. UNCHANGED <<offer, books, funds, limit, day, locked>> /\ proc[s].stage \in {"DUE", "RENEW"}
  BY DEF EndSubscription
<1>2. PICK a \in Workers : a = proc[s].asset
  BY <1>1, PassHolds
<1>3. PICK sub \in Subscriptions, ent \in Entitlements :
        /\ sub.status = "cancelled"
        /\ subscription' = [subscription EXCEPT ![a] = sub]
        /\ entitlement' = [entitlement EXCEPT ![a] = ent]
  <2>1. /\ [subscription[a] EXCEPT !.status = "cancelled"] \in Subscriptions
        /\ [subscription[a] EXCEPT !.status = "cancelled"].status = "cancelled"
        /\ [entitlement[a] EXCEPT !.status = "cancelled"] \in Entitlements
    BY <1>1, <1>2, PassHolds DEF Subscriptions, Entitlements
  <2> QED
    BY <1>2, <2>1 DEF EndSubscription
<1>4. proc' = [proc EXCEPT ![s] = Idle] /\ s \in Actors
  BY DEF EndSubscription, Actors
<1>5. RowTypes' /\ AccessKept
  BY <1>1, <1>2, <1>3, <1>4, PassEnds
<1>6. BookTypes' /\ FundTypes' /\ ProcTypes'
  BY <1>1, <1>4 DEF BInv, BookTypes, FundTypes, ProcTypes, ProcStates, books, funds
<1> QED
  BY <1>5, <1>6 DEF BInv, AccessKept

LEMMA RenewalFundsInv ==
  ASSUME BInv, NEW s \in Schedulers, RenewalFunds(s)
  PROVE  BInv'
<1>1. UNCHANGED <<offer, entitlement, books, funds, limit, day>> /\ proc[s].stage = "DUE" /\ s \in Actors
  BY DEF RenewalFunds, Actors
<1>2. proc[s] \in Renewing
  BY <1>1, PassHolds
<1>3. BookTypes' /\ FundTypes'
  BY <1>1 DEF BInv, BookTypes, FundTypes, books, funds
<1>4. CASE Affordable(proc[s].price)
  <2>1. locked' = s /\ proc' = [proc EXCEPT ![s] = Comparing(@, "RENEW")] /\ UNCHANGED subscription
    BY <1>4 DEF RenewalFunds
  <2>2. /\ proc'[s] = Comparing(proc[s], "RENEW")
        /\ \A q \in Actors : q # s => proc'[q] = proc[q]
    BY <1>1, <2>1 DEF BInv, ProcTypes
  <2>9. Month(day) \in Months
    BY DEF Months, BInv, ProcTypes
  <2>3. /\ proc'[s] \in Renewing /\ proc'[s].stage = "RENEW"
        /\ proc'[s].asset = proc[s].asset /\ proc'[s].status = proc[s].status
        /\ proc'[s].price = proc[s].price /\ proc'[s].begun = proc[s].begun
    BY <1>2, <2>2, <2>9 DEF Comparing, Renewing
  <2>4. ProcTypes'
    BY <1>1, <2>1, <2>3 DEF BInv, ProcTypes, ProcStates
  <2>5. \A b : Due(b)' <=> Due(b)
    BY <1>1, <2>1 DEF Due, Live
  <2>6. Held'
    <3>1. proc[s].status # "pending-cancel"
      BY DEF RenewalFunds, Ends
    <3> QED
      BY <1>1, <2>1, <2>2, <2>3, <2>5, <3>1 DEF BInv, Held
  <2>7. Recent' /\ Bought'
    <3>1. Recent'
      BY <1>1, <2>2, <2>3 DEF BInv, Recent
    <3>2. Bought'
      BY <1>1, <2>1, <2>2, <2>3 DEF BInv, Bought, Live
    <3> QED
      BY <3>1, <3>2
  <2>8. RowTypes' /\ OnlyWorkers' /\ SubscriberHasAccess'
    BY <1>1, <2>1 DEF BInv, RowTypes, OnlyWorkers, SubscriberHasAccess, Live, Active
  <2> QED
    BY <1>3, <2>4, <2>6, <2>7, <2>8 DEF BInv
<1>5. CASE ~Affordable(proc[s].price)
  <2>1. PICK a \in Workers : a = proc[s].asset
    BY <1>1, PassHolds
  <2>2. proc' = [proc EXCEPT ![s] = Idle] /\ UNCHANGED locked
        /\ subscription' = [subscription EXCEPT ![a] = [@ EXCEPT !.status = "past-due"]]
    BY <1>5, <2>1 DEF RenewalFunds
  <2>3. PICK sub \in Subscriptions : /\ sub.end = subscription[a].end
                                     /\ subscription' = [subscription EXCEPT ![a] = sub]
    <3>1. /\ [subscription[a] EXCEPT !.status = "past-due"] \in Subscriptions
          /\ [subscription[a] EXCEPT !.status = "past-due"].end = subscription[a].end
      BY <1>1, <2>1, PassHolds DEF Subscriptions
    <3> QED
      BY <2>2, <3>1
  <2>4. PICK ent \in Entitlements :
          /\ entitlement' = [entitlement EXCEPT ![a] = ent]
          /\ ent.status = "active" /\ ent.expires \in {NULL, sub.end}
    <3>1. entitlement' = [entitlement EXCEPT ![a] = entitlement[a]]
      BY <1>1 DEF BInv, RowTypes
    <3> QED
      BY <1>1, <2>1, <2>3, <3>1, PassHolds
  <2>5. RowTypes' /\ AccessKept
    <3>1. proc[s].stage \in {"DUE", "RENEW"} /\ UNCHANGED <<offer, day>>
      BY <1>1
    <3>2. proc' = [proc EXCEPT ![s] = Idle]
      BY <2>2
    <3>3. sub.status # "cancelled" => ent.status = "active" /\ ent.expires \in {NULL, sub.end}
      BY <2>4
    <3>4. s \in Actors
      BY <1>1
    <3> QED
      BY <2>1, <2>3, <2>4, <3>1, <3>2, <3>3, <3>4, PassEnds
  <2>6. ProcTypes'
    BY <1>1, <2>2 DEF BInv, ProcTypes, ProcStates
  <2> QED
    BY <1>3, <2>5, <2>6 DEF BInv, AccessKept
<1> QED
  BY <1>4, <1>5

LEMMA RenewInv ==
  ASSUME BInv, NEW s \in Schedulers, Renew(s)
  PROVE  BInv'
<1>1. UNCHANGED <<offer, funds, limit, day>> /\ proc[s].stage = "RENEW" /\ s \in Actors
  BY DEF Renew, Actors
<1>2. PICK a \in Workers, end \in Nat, price \in Prices \ {0} :
        a = proc[s].asset /\ end = subscription[a].end /\ price = proc[s].price
  BY <1>1, PassHolds DEF Subscriptions, Renewing
<1>3. PICK sub \in Subscriptions : /\ sub.end = end + DaysPerMonth
                                   /\ subscription' = [subscription EXCEPT ![a] = sub]
  <2>1. PICK row \in Subscriptions : row = subscription[a]
    BY <1>1, <1>2, PassHolds
  <2>2. [status |-> "active", price |-> row.price, end |-> end + DaysPerMonth] \in Subscriptions
    BY DaysAssumption DEF Subscriptions
  <2>3. subscription' = [subscription EXCEPT ![a] =
                           [status |-> "active", price |-> row.price, end |-> end + DaysPerMonth]]
    BY <1>2, <2>1 DEF Renew
  <2> QED
    BY <2>2, <2>3
<1>4. PICK ent \in Entitlements :
        /\ entitlement' = [entitlement EXCEPT ![a] = ent]
        /\ ent.status = "active" /\ ent.expires = end + DaysPerMonth
  <2>1. [status |-> "active", expires |-> end + DaysPerMonth] \in Entitlements
    BY DaysAssumption DEF Entitlements
  <2>2. entitlement' = [entitlement EXCEPT ![a] = [status |-> "active", expires |-> end + DaysPerMonth]]
    BY <1>2 DEF Renew, PaidUntil
  <2> QED
    BY <2>1, <2>2
<1>5. proc' = [proc EXCEPT ![s] = Idle] /\ locked' = NULL
  BY DEF Renew
<1>6. RowTypes' /\ AccessKept
  BY <1>1, <1>2, <1>3, <1>4, <1>5, PassEnds
<1>9. proc[s].begun \in 0 .. LastDay
  BY <1>1 DEF BInv, Recent
<1>7. BookTypes'
  <2> DEFINE entry == [key |-> RenewalKey(a, end), amount |-> price, occurred |-> proc[s].begun]
  <2>1. debits' \cup revenue' \subseteq debits \cup revenue \cup {entry}
    BY <1>2, AddTyped DEF Renew
  <2>2. entry.amount = price /\ entry.occurred = proc[s].begun
    OBVIOUS
  <2> HIDE DEF entry
  <2> QED
    BY <1>9, <2>1, <2>2 DEF BInv, BookTypes
<1>8. FundTypes' /\ ProcTypes'
  BY <1>1, <1>5 DEF BInv, FundTypes, ProcTypes, ProcStates, funds
<1> QED
  BY <1>6, <1>7, <1>8 DEF BInv, AccessKept

-----------------------------------------------------------------------------
(* The theorems                                                            *)

LEMMA NextInv == BInv /\ [Next]_vars => BInv'
<1> SUFFICES ASSUME BInv, [Next]_vars PROVE BInv'
  OBVIOUS
<1>1. CASE UNCHANGED vars
  <2>1. UNCHANGED <<offer, access, books, funds, limit, day, locked, proc>>
    BY <1>1 DEF vars
  <2>2. AccessKept
    BY <2>1, NoProc DEF AccessKept
  <2>3. RowTypes' /\ BookTypes' /\ FundTypes' /\ ProcTypes'
    BY <2>1 DEF BInv, RowTypes, BookTypes, FundTypes, ProcTypes, access, books, funds
  <2> QED
    BY <2>2, <2>3 DEF BInv, AccessKept
<1>2. ASSUME NEW r \in Requests, Request(r)
      PROVE  BInv'
  <2>1. CASE \E a \in Assets : BeginAcquire(r, a)
    BY <2>1, BeginAcquireInv
  <2>2. CASE AcquireFunds(r)
    BY <2>2, AcquireFundsInv
  <2>3. CASE acquireMarketplaceAsset(r)
    BY <2>3, AcquireInv
  <2>4. CASE (\E p \in Payments, h \in Hashes : BeginConfirm(r, p, h)) \/ confirmTestnetTopup(r)
    BY <2>4, TopupInv
  <2> QED
    BY <1>2, <2>1, <2>2, <2>3, <2>4 DEF Request
<1>3. ASSUME NEW s \in Schedulers, Scheduler(s)
      PROVE  BInv'
  <2>1. CASE \E a \in Workers : BeginRenewal(s, a)
    BY <2>1, BeginRenewalInv
  <2>2. CASE EndSubscription(s)
    BY <2>2, EndInv
  <2>3. CASE RenewalFunds(s)
    BY <2>3, RenewalFundsInv
  <2>4. CASE Renew(s)
    BY <2>4, RenewInv
  <2> QED
    BY <1>3, <2>1, <2>2, <2>3, <2>4 DEF Scheduler
<1>4. CASE \E a \in Workers : cancelSubscription(a)
  BY <1>4, CancelInv
<1>5. CASE \/ \E p \in Payments, amount \in Amounts : createTestnetTopupIntent(p, amount)
           \/ \E h \in Hashes, amount \in Amounts : Transfer(h, amount)
           \/ \E value \in Limits : updateSpendControls(value)
           \/ \E a \in Assets, price \in Prices : setMarketplaceOffer(a, price)
  BY <1>5, FundsInv
<1>6. CASE NextDay
  BY <1>6, DayInv
<1> QED
  BY <1>1, <1>2, <1>3, <1>4, <1>5, <1>6 DEF Next

LEMMA Invariant == Spec => []BInv
  BY InitBInv, NextInv, PTL DEF Spec

\* The rows of the balance, of what was acquired and of its subscriptions keep
\* their types, in every interleaving of requests and scheduler replicas.
THEOREM TypeCorrect == Spec => []TypeOK
<1>1. BInv => TypeOK
  BY DEF BInv, TypeOK, RowTypes, BookTypes, FundTypes, PaymentRows, ProcTypes
<1> QED
  BY <1>1, Invariant, PTL

\* As long as a subscription lives the asset is accessible, and not for less
\* than the period that was paid (billing/src/index.ts: renewals move both
\* rows, whoever acquires or cancels meanwhile).
THEOREM SubscribersHaveAccess == Spec => []SubscriberHasAccess
  BY Invariant, PTL DEF BInv

\* No step charges a renewal to a subscription that was cancelled.
LEMMA CancelledStep ==
  ASSUME BInv, [Next]_vars, NEW a \in Workers,
         subscription[a] # NULL, subscription[a].status \in {"pending-cancel", "cancelled"}
  PROVE  Renewals(a)' = Renewals(a)
<1>1. CASE UNCHANGED debits
  BY <1>1 DEF Renewals
<1>2. ASSUME NEW r \in Requests, acquireMarketplaceAsset(r)
      PROVE  Renewals(a)' = Renewals(a)
  <2>1. PICK entry : entry.key[1] = "acquire" /\ debits' \in {debits, debits \cup {entry}}
    <3> DEFINE entry == [key |-> <<"acquire", proc[r].asset>>, amount |-> proc[r].price, occurred |-> proc[r].begun]
    <3>1. debits' \in {debits, debits \cup {entry}}
      BY <1>2 DEF acquireMarketplaceAsset, Add
    <3>2. entry.key[1] = "acquire"
      OBVIOUS
    <3> HIDE DEF entry
    <3> QED
      BY <3>1, <3>2
  <2> QED
    BY <2>1 DEF Renewals
<1>3. ASSUME NEW s \in Schedulers, Renew(s)
      PROVE  Renewals(a)' = Renewals(a)
  <2>1. PICK held \in Workers : held = proc[s].asset /\ proc[s].stage = "RENEW"
    BY <1>3, PassHolds DEF Renew
  <2>2. held # a
    <3>1. Due(held) /\ subscription[held].status # "pending-cancel"
      BY <2>1 DEF BInv, Held, Actors
    <3> QED
      BY <3>1 DEF Due, Live
  <2>3. PICK entry : entry.key[2] = held /\ debits' \in {debits, debits \cup {entry}}
    <3> DEFINE entry == [key |-> RenewalKey(held, subscription[held].end), amount |-> proc[s].price,
                         occurred |-> proc[s].begun]
    <3>1. debits' \in {debits, debits \cup {entry}}
      BY <1>3, <2>1 DEF Renew, Add
    <3>2. entry.key[2] = held
      BY DEF RenewalKey
    <3> HIDE DEF entry
    <3> QED
      BY <3>1, <3>2
  <2> QED
    BY <2>2, <2>3 DEF Renewals
<1>4. \/ UNCHANGED debits
      \/ \E r \in Requests : acquireMarketplaceAsset(r)
      \/ \E s \in Schedulers : Renew(s)
  BY DEF Next, vars, books, Request, Scheduler, BeginAcquire, AcquireFunds, BeginConfirm,
         confirmTestnetTopup, BeginRenewal, EndSubscription, RenewalFunds, cancelSubscription,
         setMarketplaceOffer, updateSpendControls, createTestnetTopupIntent, Transfer, NextDay
<1> QED
  BY <1>1, <1>2, <1>3, <1>4

\* A subscription whose renewal was cancelled is not charged again, whatever a
\* pass of the scheduler had read of it: the row lock keeps what it read.
THEOREM CancelledSubscriptionsRunOut == Spec => CancelledIsNotRenewed
<1> DEFINE Step ==
      \A a \in Workers :
        (subscription[a] # NULL /\ subscription[a].status \in {"pending-cancel", "cancelled"})
          => Renewals(a)' = Renewals(a)
<1>1. BInv /\ [Next]_vars => Step
  BY CancelledStep
<1> QED
  BY <1>1, Invariant, PTL DEF Spec, CancelledIsNotRenewed

-----------------------------------------------------------------------------
(* Sums over the books                                                     *)

LEMMA Numbers ==
  /\ \A n \in Prices : n \in Nat
  /\ \A n \in Prices \ {0} : n \in Nat /\ n > 0
  /\ \A n \in Amounts \cup {0} : n \in Nat
  BY NumbersAssumption

Charging(q) == proc[q].stage \in {"ACQUIRE", "RENEW"}

FiniteBooks == IsFiniteSet(debits) /\ IsFiniteSet(Confirmed)

\* What is about to be paid is covered: by the balance, and in the month it was
\* compared with.
Covered(state) ==
    /\ state.price <= Balance
    /\ state.price > 0 /\ limit > 0 => SpentIn(state.window) + state.price <= limit

\* Whoever is about to pay holds the account, and it is still covered.
Funded == \A q \in Actors : Charging(q) => locked = q /\ Covered(proc[q])

BooksInv == FiniteBooks /\ NeverOverdrawn /\ Funded

Amounted(entries) == IsFiniteSet(entries) /\ \A e \in entries : e.amount \in Nat

LEMMA TotalType ==
  ASSUME NEW entries, Amounted(entries)
  PROVE  Total(entries) \in Nat
<1> DEFINE f == [e \in entries |-> e.amount]
<1>1. IsFiniteSet(DOMAIN f) /\ \A e \in DOMAIN f : f[e] \in Nat
  BY DEF Amounted
<1> HIDE DEF f
<1>2. SumFunction(f) \in Nat
  BY <1>1, FunctionSumType
<1> QED
  BY <1>2 DEF Total, f

LEMMA TotalAdd ==
  ASSUME NEW entries, Amounted(entries), NEW e, e \notin entries, e.amount \in Nat
  PROVE  Total(entries \cup {e}) = Total(entries) + e.amount
<1> DEFINE f == [x \in entries |-> x.amount]
           g == [x \in entries \cup {e} |-> x.amount]
<1>1. /\ IsFiniteSet(DOMAIN f) /\ e \notin DOMAIN f /\ DOMAIN g = (DOMAIN f) \cup {e}
      /\ \A x \in DOMAIN f : g[x] = f[x]
      /\ \A x \in DOMAIN g : g[x] \in Nat
      /\ g[e] = e.amount
  BY DEF Amounted
<1> HIDE DEF f, g
<1>2. SumFunction(g) = SumFunction(f) + g[e]
  BY <1>1, FunctionSumAdd
<1> QED
  BY <1>1, <1>2 DEF Total, f, g

LEMMA BooksAmounted ==
  ASSUME BInv, BooksInv
  PROVE  /\ Amounted(debits)
         /\ \A m : Amounted({e \in debits : Month(e.occurred) = m})
<1>1. Amounted(debits)
  BY NumbersAssumption DEF BInv, BookTypes, BooksInv, FiniteBooks, Amounted
<1>2. \A m : IsFiniteSet({e \in debits : Month(e.occurred) = m})
  BY <1>1, FS_Subset DEF Amounted
<1> QED
  BY <1>1, <1>2 DEF Amounted

LEMMA CreditsType ==
  ASSUME FundTypes, IsFiniteSet(Confirmed)
  PROVE  Credits \in Nat
<1> DEFINE f == [p \in Confirmed |-> payment[p].amount]
<1>0. \A p \in Confirmed : payment[p].amount \in Nat
  <2>1. \A p \in Confirmed : payment[p].amount \in Amounts \cup {0}
    BY DEF FundTypes, PaymentRows, Confirmed
  <2> QED
    BY <2>1, Numbers
<1>1. IsFiniteSet(DOMAIN f) /\ \A p \in DOMAIN f : f[p] \in Nat
  BY <1>0
<1> HIDE DEF f
<1>2. SumFunction(f) \in Nat
  BY <1>1, FunctionSumType
<1> QED
  BY <1>2 DEF Credits, f

\* What the account shows of itself.
LEMMA Account ==
  ASSUME BInv, BooksInv
  PROVE  /\ Total(debits) \in Nat /\ Credits \in Nat
         /\ \A m : SpentIn(m) \in Nat
         /\ Balance = Credits - Total(debits)
<1>1. Total(debits) \in Nat /\ \A m : SpentIn(m) \in Nat
  BY BooksAmounted, TotalType DEF SpentIn
<1>2. Credits \in Nat
  BY CreditsType DEF BInv, BooksInv, FiniteBooks
<1> QED
  BY <1>1, <1>2 DEF BooksInv, NeverOverdrawn, Balance

\* Two transactions never pay at once.
LEMMA OnePays ==
  ASSUME BooksInv, NEW q \in Actors, Charging(q), NEW p \in Actors, Charging(p)
  PROVE  p = q
  BY DEF BooksInv, Funded

-----------------------------------------------------------------------------
(* What a step does to the books                                           *)

\* Nothing is paid, and nobody comes to pay: the limit moves only while nobody
\* does, and payments are only confirmed. Days may pass.
Quiet ==
    /\ UNCHANGED <<debits, locked>>
    /\ \A q \in Actors : Charging(q)' => proc'[q] = proc[q]
    /\ UNCHANGED limit \/ \A q \in Actors : ~Charging(q)'

Clears(q) ==
    /\ UNCHANGED <<debits, payment, limit>>
    /\ locked = NULL /\ locked' = q
    /\ Affordable(proc[q].price)
    /\ proc'[q].price = proc[q].price /\ proc'[q].window = Month(day)
    /\ \A p \in Actors \ {q} : proc'[p] = proc[p]

Charges(q) ==
    /\ Charging(q) /\ proc[q].price \in Nat
    /\ UNCHANGED <<payment, limit>>
    /\ proc' = [proc EXCEPT ![q] = Idle]
    /\ \/ UNCHANGED debits
       \/ \E e : /\ e \notin debits /\ debits' = debits \cup {e}
                /\ e.amount = proc[q].price /\ e.occurred = proc[q].begun /\ proc[q].price > 0

LEMMA NobodyPays ==
  ASSUME BooksInv, locked = NULL
  PROVE  \A q \in Actors : ~Charging(q)
  BY NullAssumption DEF BooksInv, Funded, Actors

\* An entry of a new key is an entry more.
LEMMA AddsOne ==
  ASSUME NEW entries, NEW e
  PROVE  \/ Add(entries, e) = entries
         \/ e \notin entries /\ Add(entries, e) = entries \cup {e}
  BY DEF Add

\* Every other step keeps who is about to pay.
LEMMA NotCharging ==
  ASSUME ProcTypes, NEW q \in Actors, NEW state, proc' = [proc EXCEPT ![q] = state],
         state.stage \notin {"ACQUIRE", "RENEW"}
  PROVE  \A p \in Actors : Charging(p)' => proc'[p] = proc[p]
<1>1. proc'[q] = state /\ \A p \in Actors : p # q => proc'[p] = proc[p]
  BY DEF ProcTypes
<1> QED
  BY <1>1 DEF Charging

LEMMA RequestBooks ==
  ASSUME BInv, BooksInv, NEW r \in Requests, Request(r)
  PROVE  Quiet \/ Clears(r) \/ Charges(r)
<1>0. r \in Actors /\ ProcTypes
  BY DEF Actors, BInv
<1>1. ASSUME NEW state, proc' = [proc EXCEPT ![r] = state], state.stage \notin {"ACQUIRE", "RENEW"},
             UNCHANGED <<books, limit, locked>>
      PROVE  Quiet
  BY <1>0, <1>1, NotCharging DEF Quiet, books
<1>2. ASSUME NEW a \in Assets, BeginAcquire(r, a)
      PROVE  Quiet
  BY <1>1, <1>2 DEF BeginAcquire
<1>3. CASE AcquireFunds(r)
  <2>1. CASE Affordable(proc[r].price)
    <3>1. proc' = [proc EXCEPT ![r] = Comparing(@, "ACQUIRE")] /\ locked' = r /\ locked = NULL
      BY <1>3, <2>1 DEF AcquireFunds, AccountFree
    <3>2. proc[r] \in Acquiring
      BY <1>0, <1>3, ProcAt DEF AcquireFunds
    <3>3. /\ proc'[r].price = proc[r].price /\ proc'[r].window = Month(day)
          /\ \A p \in Actors \ {r} : proc'[p] = proc[p]
      BY <1>0, <3>1, <3>2 DEF ProcTypes, Acquiring, Comparing
    <3> QED
      BY <1>3, <2>1, <3>1, <3>3 DEF AcquireFunds, Clears, books, funds
  <2>2. CASE ~Affordable(proc[r].price)
    <3>1. proc' = [proc EXCEPT ![r] = Idle] /\ UNCHANGED <<books, limit, locked>>
      BY <1>3, <2>2 DEF AcquireFunds
    <3> QED
      BY <1>1, <3>1 DEF Idle
  <2> QED
    BY <2>1, <2>2
<1>4. CASE acquireMarketplaceAsset(r)
  <2>1. proc[r] \in Acquiring /\ Charging(r)
    BY <1>0, <1>4, ProcAt DEF acquireMarketplaceAsset, Charging
  <2>2. proc[r].price \in Nat
    BY <2>1, NumbersAssumption DEF Acquiring
  <2> DEFINE e == [key |-> <<"acquire", proc[r].asset>>, amount |-> proc[r].price, occurred |-> proc[r].begun]
  <2>3. e.amount = proc[r].price /\ e.occurred = proc[r].begun
    OBVIOUS
  <2>4. debits' = debits \/ (proc[r].price > 0 /\ debits' = Add(debits, e))
    BY <1>4 DEF acquireMarketplaceAsset
  <2> HIDE DEF e
  <2>5. \/ UNCHANGED debits
        \/ proc[r].price > 0 /\ e \notin debits /\ debits' = debits \cup {e}
    BY <2>4, AddsOne
  <2>6. UNCHANGED <<payment, limit>> /\ proc' = [proc EXCEPT ![r] = Idle]
    BY <1>4 DEF acquireMarketplaceAsset, funds
  <2> QED
    BY <2>1, <2>2, <2>3, <2>5, <2>6 DEF Charges
<1>5. CASE (\E p \in Payments, h \in Hashes : BeginConfirm(r, p, h)) \/ confirmTestnetTopup(r)
  <2>1. PICK state : proc' = [proc EXCEPT ![r] = state] /\ state.stage \notin {"ACQUIRE", "RENEW"}
    BY <1>5 DEF BeginConfirm, confirmTestnetTopup, Idle
  <2>2. UNCHANGED <<books, limit, locked>>
    BY <1>5 DEF BeginConfirm, confirmTestnetTopup
  <2> QED
    BY <1>1, <2>1, <2>2
<1> QED
  BY <1>2, <1>3, <1>4, <1>5 DEF Request

LEMMA SchedulerBooks ==
  ASSUME BInv, BooksInv, NEW s \in Schedulers, Scheduler(s)
  PROVE  Quiet \/ Clears(s) \/ Charges(s)
<1>0. s \in Actors /\ ProcTypes
  BY DEF Actors, BInv
<1>1. ASSUME NEW state, proc' = [proc EXCEPT ![s] = state], state.stage \notin {"ACQUIRE", "RENEW"},
             UNCHANGED <<books, limit, locked>>
      PROVE  Quiet
  BY <1>0, <1>1, NotCharging DEF Quiet, books
<1>2. ASSUME NEW a \in Workers, BeginRenewal(s, a)
      PROVE  Quiet
  BY <1>1, <1>2 DEF BeginRenewal
<1>3. CASE EndSubscription(s)
  BY <1>1, <1>3 DEF EndSubscription, Idle
<1>4. CASE RenewalFunds(s)
  <2>1. CASE Affordable(proc[s].price)
    <3>1. proc' = [proc EXCEPT ![s] = Comparing(@, "RENEW")] /\ locked' = s /\ locked = NULL
      BY <1>4, <2>1 DEF RenewalFunds, AccountFree
    <3>2. proc[s] \in Renewing
      BY <1>0, <1>4, ProcAt DEF RenewalFunds
    <3>3. /\ proc'[s].price = proc[s].price /\ proc'[s].window = Month(day)
          /\ \A p \in Actors \ {s} : proc'[p] = proc[p]
      BY <1>0, <3>1, <3>2 DEF ProcTypes, Renewing, Comparing
    <3> QED
      BY <1>4, <2>1, <3>1, <3>3 DEF RenewalFunds, Clears, books, funds
  <2>2. CASE ~Affordable(proc[s].price)
    <3>1. proc' = [proc EXCEPT ![s] = Idle] /\ UNCHANGED <<books, limit, locked>>
      BY <1>4, <2>2 DEF RenewalFunds
    <3> QED
      BY <1>1, <3>1 DEF Idle
  <2> QED
    BY <2>1, <2>2
<1>5. CASE Renew(s)
  <2>1. proc[s] \in Renewing /\ Charging(s)
    BY <1>0, <1>5, ProcAt DEF Renew, Charging
  <2>2. proc[s].price \in Nat /\ proc[s].price > 0
    <3>1. proc[s].price \in Prices \ {0}
      BY <2>1 DEF Renewing
    <3> QED
      BY <3>1, Numbers
  <2>3. PICK e : e.amount = proc[s].price /\ e.occurred = proc[s].begun /\ debits' = Add(debits, e)
    <3> DEFINE e == [key |-> RenewalKey(proc[s].asset, subscription[proc[s].asset].end),
                     amount |-> proc[s].price, occurred |-> proc[s].begun]
    <3>1. e.amount = proc[s].price /\ e.occurred = proc[s].begun
      OBVIOUS
    <3>2. debits' = Add(debits, e)
      BY <1>5 DEF Renew
    <3> HIDE DEF e
    <3> QED
      BY <3>1, <3>2
  <2>4. UNCHANGED debits \/ (e \notin debits /\ debits' = debits \cup {e})
    BY <2>3, AddsOne
  <2>5. UNCHANGED <<payment, limit>> /\ proc' = [proc EXCEPT ![s] = Idle]
    BY <1>5 DEF Renew, funds
  <2> QED
    BY <2>1, <2>2, <2>3, <2>4, <2>5 DEF Charges
<1> QED
  BY <1>2, <1>3, <1>4, <1>5 DEF Scheduler

LEMMA BooksStep ==
  ASSUME BInv, BooksInv, [Next]_vars
  PROVE  Quiet \/ \E q \in Actors : Clears(q) \/ Charges(q)
<1>1. CASE \E r \in Requests : Request(r)
  BY <1>1, RequestBooks DEF Actors
<1>2. CASE \E s \in Schedulers : Scheduler(s)
  BY <1>2, SchedulerBooks DEF Actors
<1>3. CASE NextDay
  BY <1>3 DEF NextDay, Quiet, books, Charging, Idle
<1>4. CASE \E value \in Limits : updateSpendControls(value)
  <2>1. UNCHANGED <<books, locked, proc>> /\ locked = NULL
    BY <1>4 DEF updateSpendControls
  <2> QED
    BY <2>1, NobodyPays DEF Quiet, books, Charging
<1>5. CASE \/ \E a \in Workers : cancelSubscription(a)
           \/ \E a \in Assets, price \in Prices : setMarketplaceOffer(a, price)
           \/ \E p \in Payments, amount \in Amounts : createTestnetTopupIntent(p, amount)
           \/ \E h \in Hashes, amount \in Amounts : Transfer(h, amount)
           \/ UNCHANGED vars
  BY <1>5 DEF cancelSubscription, setMarketplaceOffer, createTestnetTopupIntent, Transfer, vars,
              Quiet, books
<1> QED
  BY <1>1, <1>2, <1>3, <1>4, <1>5 DEF Next

\* Payments are only added to what was confirmed.
LEMMA CreditsStep ==
  ASSUME BInv, BooksInv, [Next]_vars
  PROVE  IsFiniteSet(Confirmed') /\ Credits' \in Nat /\ Credits <= Credits'
<1>1. PICK p : /\ Confirmed \subseteq Confirmed' /\ Confirmed' \subseteq Confirmed \cup {p}
               /\ \A c \in Confirmed : payment'[c].amount = payment[c].amount
  <2>1. CASE UNCHANGED payment
    BY <2>1 DEF Confirmed
  <2>2. ASSUME NEW p \in Payments, NEW amount \in Amounts, createTestnetTopupIntent(p, amount)
        PROVE  /\ Confirmed' = Confirmed
               /\ \A c \in Confirmed : payment'[c].amount = payment[c].amount
    <3>1. /\ payment'[p].status = "pending" /\ payment[p].status = "none"
          /\ \A c \in Payments : c # p => payment'[c] = payment[c]
      BY <2>2 DEF createTestnetTopupIntent, BInv, FundTypes
    <3> QED
      BY <3>1 DEF Confirmed
  <2>3. ASSUME NEW r \in Requests, confirmTestnetTopup(r)
        PROVE  \E p : /\ Confirmed \subseteq Confirmed' /\ Confirmed' \subseteq Confirmed \cup {p}
                      /\ \A c \in Confirmed : payment'[c].amount = payment[c].amount
    <3>1. CASE UNCHANGED payment
      BY <3>1 DEF Confirmed
    <3>2. CASE HashFree(proc[r].hash)
      <4> DEFINE p == proc[r].payment
      <4>1. p \in Payments
        BY <2>3, ProcAt DEF confirmTestnetTopup, BInv, Confirming, Actors
      <4>2. payment[p] \in PaymentRows
        BY <4>1 DEF BInv, FundTypes
      <4>3. payment' = [payment EXCEPT ![p] = [@ EXCEPT !.status = "confirmed", !.hash = proc[r].hash]]
        BY <2>3, <3>2 DEF confirmTestnetTopup
      <4> HIDE DEF p
      <4>4. /\ payment'[p] = [payment[p] EXCEPT !.status = "confirmed", !.hash = proc[r].hash]
            /\ \A c \in Payments : c # p => payment'[c] = payment[c]
        BY <4>1, <4>3 DEF BInv, FundTypes
      <4>5. payment'[p].status = "confirmed" /\ payment'[p].amount = payment[p].amount
        BY <4>2, <4>4 DEF PaymentRows
      <4> QED
        BY <4>4, <4>5 DEF Confirmed
    <3> QED
      BY <2>3, <3>1, <3>2 DEF confirmTestnetTopup
  <2>4. \/ UNCHANGED payment
        \/ \E p \in Payments, amount \in Amounts : createTestnetTopupIntent(p, amount)
        \/ \E r \in Requests : confirmTestnetTopup(r)
    BY DEF Next, vars, funds, Request, Scheduler, BeginAcquire, AcquireFunds, BeginConfirm,
           acquireMarketplaceAsset, BeginRenewal, EndSubscription, RenewalFunds, Renew,
           cancelSubscription, setMarketplaceOffer, updateSpendControls, Transfer, NextDay
  <2> QED
    BY <2>1, <2>2, <2>3, <2>4
<1>2. IsFiniteSet(Confirmed')
  <2>1. IsFiniteSet(Confirmed \cup {p})
    BY FS_AddElement DEF BooksInv, FiniteBooks
  <2> QED
    BY <1>1, <2>1, FS_Subset
<1>3. \A c \in Confirmed' : payment'[c].amount \in Nat
  <2>1. FundTypes'
    BY NextInv DEF BInv
  <2>2. \A c \in Confirmed' : payment'[c].amount \in Amounts \cup {0}
    BY <2>1 DEF FundTypes, PaymentRows, Confirmed
  <2> QED
    BY <2>2, Numbers
<1> DEFINE f == [c \in Confirmed |-> payment[c].amount]
           g == [c \in Confirmed' |-> payment'[c].amount]
<1>4. /\ IsFiniteSet(DOMAIN g) /\ DOMAIN f \subseteq DOMAIN g
      /\ \A c \in DOMAIN f : g[c] = f[c]
      /\ \A c \in DOMAIN g : g[c] \in Nat
  BY <1>1, <1>2, <1>3
<1>5. Credits = SumFunction(f) /\ Credits' = SumFunction(g)
  BY DEF Credits
<1> HIDE DEF f, g
<1>6. SumFunction(f) <= SumFunction(g) /\ SumFunction(g) \in Nat
  BY <1>4, FunctionSumGrows, FunctionSumType
<1> QED
  BY <1>2, <1>5, <1>6

\* What a charge does to the balance and to the spend of each month.
LEMMA ChargeAdds ==
  ASSUME BInv, BooksInv, NEW q \in Actors, Charges(q)
  PROVE  /\ IsFiniteSet(debits')
         /\ Total(debits') <= Total(debits) + proc[q].price
         /\ \A m : \/ SpentIn(m)' = SpentIn(m)
                   \/ /\ m = Month(proc[q].begun) /\ proc[q].price > 0
                      /\ SpentIn(m)' = SpentIn(m) + proc[q].price
<1>1. Total(debits) \in Nat /\ proc[q].price \in Nat
  BY Account DEF Charges
<1>2. CASE UNCHANGED debits
  <2>1. \A m : SpentIn(m)' = SpentIn(m)
    BY <1>2 DEF SpentIn
  <2> QED
    BY <1>1, <1>2, <2>1 DEF BooksInv, FiniteBooks
<1>3. CASE ~UNCHANGED debits
  <2>1. PICK e : /\ e \notin debits /\ debits' = debits \cup {e}
                 /\ e.amount = proc[q].price /\ e.occurred = proc[q].begun /\ proc[q].price > 0
    BY <1>3 DEF Charges
  <2>2. Total(debits \cup {e}) = Total(debits) + e.amount
    BY <1>1, <2>1, BooksAmounted, TotalAdd
  <2>3. ASSUME NEW m, m = Month(proc[q].begun)
        PROVE  SpentIn(m)' = SpentIn(m) + proc[q].price
    <3> DEFINE Then == {d \in debits : Month(d.occurred) = m}
    <3>1. e \notin Then /\ Amounted(Then)
      BY <2>1, BooksAmounted
    <3>2. {d \in debits' : Month(d.occurred) = m} = Then \cup {e}
      BY <2>1, <2>3
    <3>3. SpentIn(m) = Total(Then) /\ SpentIn(m)' = Total(Then \cup {e})
      BY <3>2 DEF SpentIn
    <3> HIDE DEF Then
    <3>4. Total(Then \cup {e}) = Total(Then) + e.amount
      BY <1>1, <2>1, <3>1, TotalAdd
    <3> QED
      BY <2>1, <3>3, <3>4
  <2>4. ASSUME NEW m, m # Month(proc[q].begun)
        PROVE  SpentIn(m)' = SpentIn(m)
    <3>1. {d \in debits' : Month(d.occurred) = m} = {d \in debits : Month(d.occurred) = m}
      BY <2>1, <2>4
    <3> QED
      BY <3>1 DEF SpentIn
  <2>5. IsFiniteSet(debits')
    BY <2>1, FS_AddElement DEF BooksInv, FiniteBooks
  <2> QED
    BY <1>1, <2>1, <2>2, <2>3, <2>4, <2>5
<1> QED
  BY <1>2, <1>3

LEMMA BooksInit == Init => BooksInv
<1> SUFFICES ASSUME Init PROVE BooksInv
  OBVIOUS
<1>1. Confirmed = {} /\ debits = {}
  BY DEF Init, Confirmed
<1>2. FiniteBooks
  BY <1>1, FS_EmptySet DEF FiniteBooks
<1>3. Total(debits) = 0 /\ Credits = 0
  BY <1>1, FunctionSumEmpty DEF Total, Credits
<1>4. Funded
  BY DEF Init, Funded, Charging, Idle
<1> QED
  BY <1>2, <1>3, <1>4 DEF BooksInv, NeverOverdrawn

LEMMA BooksNext == BInv /\ BooksInv /\ [Next]_vars => BooksInv'
<1> SUFFICES ASSUME BInv, BooksInv, [Next]_vars PROVE BooksInv'
  OBVIOUS
<1>0. /\ Total(debits) \in Nat /\ (\A m : SpentIn(m) \in Nat) /\ Credits \in Nat /\ Credits' \in Nat
      /\ Credits <= Credits' /\ Total(debits) <= Credits
      /\ Balance = Credits - Total(debits)
      /\ IsFiniteSet(Confirmed')
  BY Account, CreditsStep DEF BooksInv, NeverOverdrawn
<1>1. CASE Quiet
  <2>1. UNCHANGED debits /\ Total(debits)' = Total(debits)
    BY <1>1 DEF Quiet
  <2>2. FiniteBooks' /\ NeverOverdrawn'
    BY <1>0, <2>1 DEF BooksInv, FiniteBooks, NeverOverdrawn
  <2>3. Funded'
    <3> SUFFICES ASSUME NEW q \in Actors, Charging(q)'
                 PROVE  locked' = q /\ Covered(proc[q])'
      BY DEF Funded
    <3>1. proc'[q] = proc[q] /\ UNCHANGED <<limit, locked>>
      BY <1>1 DEF Quiet
    <3>2. locked = q /\ Covered(proc[q])
      BY <3>1 DEF Charging, BooksInv, Funded
    <3>3. proc[q].price \in Nat
      <4>1. proc[q] \in Acquiring \cup Renewing
        BY <3>1, ProcAt DEF Charging, BInv
      <4> QED
        BY <4>1, NumbersAssumption DEF Acquiring, Renewing
    <3>4. \A m : SpentIn(m)' = SpentIn(m)
      BY <2>1 DEF SpentIn
    <3>5. Balance' = Credits' - Total(debits)
      BY <1>0, <2>1 DEF Balance
    <3> QED
      BY <1>0, <3>1, <3>2, <3>3, <3>4, <3>5 DEF Covered
  <2> QED
    BY <2>2, <2>3 DEF BooksInv
<1>2. ASSUME NEW q \in Actors, Clears(q)
      PROVE  BooksInv'
  <2>1. UNCHANGED <<debits, payment, limit>>
    BY <1>2 DEF Clears
  <2>2. UNCHANGED <<Total(debits), Credits, Balance>> /\ \A m : SpentIn(m)' = SpentIn(m)
    BY <2>1 DEF Credits, Confirmed, SpentIn, Balance
  <2>3. FiniteBooks' /\ NeverOverdrawn'
    BY <1>0, <2>1, <2>2 DEF BooksInv, FiniteBooks, NeverOverdrawn
  <2>4. ASSUME NEW p \in Actors, p # q
        PROVE  ~Charging(p)'
    <3>1. proc'[p] = proc[p] /\ ~Charging(p)
      BY <1>2, <2>4, NobodyPays DEF Clears
    <3> QED
      BY <3>1 DEF Charging
  <2>5. locked' = q /\ Covered(proc[q])'
    BY <1>2, <2>1, <2>2 DEF Clears, Affordable, Covered
  <2> QED
    BY <2>3, <2>4, <2>5 DEF BooksInv, Funded
<1>3. ASSUME NEW q \in Actors, Charges(q)
      PROVE  BooksInv'
  <2>1. Covered(proc[q]) /\ proc[q].price \in Nat
    BY <1>3 DEF Charges, BooksInv, Funded
  <2>2. IsFiniteSet(debits') /\ Total(debits') <= Total(debits) + proc[q].price
    BY <1>3, ChargeAdds
  <2>3. NeverOverdrawn'
    <3>1. Amounted(debits')
      <4>1. BookTypes'
        BY NextInv DEF BInv
      <4> QED
        BY <2>2, <4>1, NumbersAssumption DEF BookTypes, Amounted
    <3>2. Total(debits') \in Nat
      BY <3>1, TotalType
    <3> QED
      BY <1>0, <2>1, <2>2, <3>2 DEF Covered, NeverOverdrawn
  <2>4. ASSUME NEW p \in Actors, Charging(p)'
        PROVE  FALSE
    <3>1. proc'[q] = Idle /\ (p # q => proc'[p] = proc[p])
      BY <1>3 DEF Charges, BInv, ProcTypes
    <3>2. p # q
      BY <2>4, <3>1 DEF Charging, Idle
    <3>3. Charging(p) /\ Charging(q)
      BY <1>3, <2>4, <3>1, <3>2 DEF Charging, Charges
    <3> QED
      BY <3>2, <3>3, OnePays
  <2> QED
    BY <1>0, <2>2, <2>3, <2>4 DEF BooksInv, FiniteBooks, Funded
<1> QED
  BY <1>1, <1>2, <1>3, BooksStep

LEMMA BooksInvariant == Spec => []BooksInv
  BY BooksInit, BooksNext, Invariant, PTL DEF Spec

\* The service balance is never overdrawn, whatever acquisitions and renewals
\* read it at the same time: whoever has found a price affordable holds the
\* account until it is paid (billing/src/index.ts).
THEOREM BalanceIsNeverOverdrawn == Spec => []NeverOverdrawn
  BY BooksInvariant, PTL DEF BooksInv

\* However many acquisitions and renewals are open, whatever they had read, and
\* whenever the month ends, no debit takes the spend of the month it is booked in
\* over the limit in force, but for one that was compared with another month:
\* who has compared holds the account, so that nothing is spent and the limit
\* stays until it has paid.
THEOREM MonthlyLimitIsKept == Spec => MonthlyLimitKept
<1> DEFINE Step ==
      \A m \in Months :
        limit > 0 /\ SpentIn(m)' > SpentIn(m) => SpentIn(m)' <= limit \/ Straddling
<1>1. BInv /\ BooksInv /\ [Next]_vars => [Step]_vars
  <2> SUFFICES ASSUME BInv, BooksInv, [Next]_vars, NEW m \in Months,
                      limit > 0, SpentIn(m)' > SpentIn(m)
               PROVE  SpentIn(m)' <= limit \/ Straddling
    OBVIOUS
  <2>0. SpentIn(m) \in Nat
    BY Account
  <2>1. debits' # debits
    <3>1. debits' = debits => SpentIn(m)' = SpentIn(m)
      BY DEF SpentIn
    <3> QED
      BY <2>0, <3>1
  <2>2. PICK q \in Actors : Charges(q)
    BY <2>1, BooksStep DEF Quiet, Clears
  <2>3. m = Month(proc[q].begun) /\ proc[q].price > 0 /\ SpentIn(m)' = SpentIn(m) + proc[q].price
    BY <2>0, <2>2, ChargeAdds
  <2>4. Charging(q) /\ Covered(proc[q]) /\ proc'[q] = Idle
    BY <2>2 DEF Charges, BooksInv, Funded, BInv, ProcTypes
  <2>5. CASE proc[q].window = m
    BY <2>3, <2>4, <2>5 DEF Covered
  <2>6. CASE proc[q].window # m
    BY <2>3, <2>4, <2>6 DEF Straddling, Charging
  <2> QED
    BY <2>5, <2>6
<1> QED
  BY <1>1, Invariant, BooksInvariant, PTL DEF Spec, MonthlyLimitKept

-----------------------------------------------------------------------------
(* Top-ups                                                                 *)

\* A confirmation holds a pending payment the transfer it saw is enough for,
\* and no other confirmation holds it.
Confirms ==
    /\ \A r \in Actors : proc[r].stage = "CONFIRM" =>
         /\ r \in Requests
         /\ payment[proc[r].payment].status = "pending"
         /\ payment[proc[r].payment].amount <= chain[proc[r].hash]
    /\ \A r, q \in Actors :
         /\ proc[r].stage = "CONFIRM" /\ proc[q].stage = "CONFIRM"
         /\ proc[r].payment = proc[q].payment
         => r = q

ConfirmedBacked ==
    \A p \in Confirmed : payment[p].hash \in Hashes /\ payment[p].amount <= chain[payment[p].hash]

HashUnique ==
    \A p, q \in Payments : payment[p].hash = payment[q].hash /\ payment[p].hash # NULL => p = q

TopupInvariant == Confirms /\ ConfirmedBacked /\ HashUnique

LEMMA TopupsInit == Init => TopupInvariant
  BY DEF Init, TopupInvariant, Confirms, ConfirmedBacked, HashUnique, Confirmed, Idle

\* Steps of a transaction that is no confirmation.
LEMMA TopupsAside ==
  ASSUME BInv, TopupInvariant, UNCHANGED funds,
         UNCHANGED proc \/ \E q \in Actors : \E state :
                             proc' = [proc EXCEPT ![q] = state] /\ state.stage # "CONFIRM"
  PROVE  TopupInvariant'
<1>1. \A p \in Actors : proc'[p] = proc[p] \/ proc'[p].stage # "CONFIRM"
  BY DEF BInv, ProcTypes
<1>2. UNCHANGED <<payment, chain>> /\ Confirmed' = Confirmed
  BY DEF funds, Confirmed
<1> QED
  BY <1>1, <1>2 DEF TopupInvariant, Confirms, ConfirmedBacked, HashUnique

LEMMA CreateTopup ==
  ASSUME BInv, TopupInvariant, NEW p \in Payments, NEW amount \in Amounts,
         createTestnetTopupIntent(p, amount)
  PROVE  TopupInvariant'
<1>1. UNCHANGED <<chain, proc>> /\ payment[p].status = "none"
  BY DEF createTestnetTopupIntent
<1>2. /\ payment'[p].status = "pending" /\ payment'[p].hash = NULL
      /\ \A q \in Payments : q # p => payment'[q] = payment[q]
  BY DEF createTestnetTopupIntent, BInv, FundTypes
<1>3. \A r \in Actors : proc[r].stage = "CONFIRM" => proc[r].payment \in Payments /\ proc[r].payment # p
  <2>1. \A r \in Actors : proc[r].stage = "CONFIRM" => proc[r].payment \in Payments
    BY ProcAt DEF BInv, Confirming
  <2> QED
    BY <1>1, <2>1 DEF TopupInvariant, Confirms
<1>4. Confirms'
  BY <1>1, <1>2, <1>3 DEF TopupInvariant, Confirms
<1>5. ConfirmedBacked'
  BY <1>1, <1>2 DEF TopupInvariant, ConfirmedBacked, Confirmed
<1>6. HashUnique'
  BY <1>2 DEF TopupInvariant, HashUnique
<1> QED
  BY <1>4, <1>5, <1>6 DEF TopupInvariant

LEMMA TransferTopup ==
  ASSUME BInv, TopupInvariant, NEW h \in Hashes, NEW amount \in Amounts, Transfer(h, amount)
  PROVE  TopupInvariant'
<1>1. UNCHANGED <<payment, proc>> /\ Confirmed' = Confirmed
  BY DEF Transfer, Confirmed
<1>2. \A g \in Hashes : chain[g] \in Nat /\ chain'[g] \in Nat /\ chain[g] <= chain'[g]
  <2>1. \A g \in Hashes : chain[g] \in Amounts \cup {0}
    BY DEF BInv, FundTypes
  <2>2. \A g \in Hashes : chain'[g] = IF g = h THEN amount ELSE chain[g]
    BY DEF Transfer, BInv, FundTypes
  <2>3. chain[h] = 0
    BY DEF Transfer
  <2> QED
    BY <2>1, <2>2, <2>3, Numbers
<1>3. \A p \in Payments : payment[p].amount \in Nat
  <2>1. \A p \in Payments : payment[p].amount \in Amounts \cup {0}
    BY DEF BInv, FundTypes, PaymentRows
  <2> QED
    BY <2>1, Numbers
<1>4. \A r \in Actors : proc[r].stage = "CONFIRM" =>
        proc[r].payment \in Payments /\ proc[r].hash \in Hashes
  BY ProcAt DEF BInv, Confirming
<1>5. Confirms'
  BY <1>1, <1>2, <1>3, <1>4 DEF TopupInvariant, Confirms
<1>6. ConfirmedBacked'
  BY <1>1, <1>2, <1>3 DEF TopupInvariant, ConfirmedBacked, Confirmed
<1>7. HashUnique'
  BY <1>1 DEF TopupInvariant, HashUnique
<1> QED
  BY <1>5, <1>6, <1>7 DEF TopupInvariant

LEMMA BeginTopup ==
  ASSUME BInv, TopupInvariant, NEW r \in Requests, NEW p \in Payments, NEW h \in Hashes,
         BeginConfirm(r, p, h)
  PROVE  TopupInvariant'
<1>0. r \in Actors
  BY DEF Actors
<1>1. UNCHANGED <<payment, chain>> /\ Confirmed' = Confirmed
  BY DEF BeginConfirm, funds, Confirmed
<1>2. /\ proc'[r] = [stage |-> "CONFIRM", payment |-> p, hash |-> h]
      /\ \A q \in Actors : q # r => proc'[q] = proc[q]
  BY <1>0 DEF BeginConfirm, BInv, ProcTypes
<1>3. payment[p].status = "pending" /\ payment[p].amount <= chain[h]
  <2>1. payment[p].amount \in Amounts \cup {0} /\ chain[h] \in Amounts \cup {0}
    BY DEF BInv, FundTypes, PaymentRows
  <2>2. payment[p].status = "pending" /\ chain[h] >= payment[p].amount
    BY DEF BeginConfirm
  <2> QED
    BY <2>1, <2>2, Numbers
<1>4. \A q \in Actors : proc[q].stage = "CONFIRM" => proc[q].payment # p
  BY DEF BeginConfirm, TopupInvariant, Confirms
<1>5. Confirms'
  BY <1>1, <1>2, <1>3, <1>4 DEF TopupInvariant, Confirms
<1>6. ConfirmedBacked' /\ HashUnique'
  BY <1>1 DEF TopupInvariant, ConfirmedBacked, HashUnique
<1> QED
  BY <1>5, <1>6 DEF TopupInvariant

LEMMA ConfirmTopup ==
  ASSUME BInv, TopupInvariant, NEW r \in Requests, confirmTestnetTopup(r)
  PROVE  TopupInvariant'
<1>0. r \in Actors /\ proc[r].stage = "CONFIRM" /\ proc[r] \in Confirming
  BY ProcAt DEF Actors, confirmTestnetTopup, BInv
<1>1. PICK p \in Payments, h \in Hashes : p = proc[r].payment /\ h = proc[r].hash
  BY <1>0 DEF Confirming
<1>2. UNCHANGED chain /\ proc' = [proc EXCEPT ![r] = Idle]
  BY DEF confirmTestnetTopup
<1>3. CASE UNCHANGED payment
  <2>1. UNCHANGED funds
    BY <1>2, <1>3 DEF funds
  <2>2. Idle.stage # "CONFIRM"
    BY DEF Idle
  <2> QED
    BY <1>0, <1>2, <2>1, <2>2, TopupsAside
<1>4. CASE HashFree(h)
  <2>1. payment' = [payment EXCEPT ![p] = [@ EXCEPT !.status = "confirmed", !.hash = h]]
    BY <1>1, <1>4 DEF confirmTestnetTopup
  <2>2. payment[p] \in PaymentRows
    BY DEF BInv, FundTypes
  <2>3. /\ payment'[p] = [payment[p] EXCEPT !.status = "confirmed", !.hash = h]
        /\ \A q \in Payments : q # p => payment'[q] = payment[q]
    BY <2>1 DEF BInv, FundTypes
  <2>4. /\ payment'[p].status = "confirmed" /\ payment'[p].hash = h
        /\ payment'[p].amount = payment[p].amount
    BY <2>2, <2>3 DEF PaymentRows
  <2>5. payment[p].amount <= chain[h]
    BY <1>0, <1>1 DEF TopupInvariant, Confirms
  <2>6. \A q \in Actors : proc'[q].stage = "CONFIRM" =>
          q # r /\ proc'[q] = proc[q] /\ proc[q].payment \in Payments
    <3>1. \A q \in Actors : q # r => proc'[q] = proc[q]
      BY <1>2 DEF BInv, ProcTypes
    <3>2. proc'[r] = Idle
      BY <1>0, <1>2 DEF BInv, ProcTypes
    <3>3. \A q \in Actors : proc[q].stage = "CONFIRM" => proc[q].payment \in Payments
      BY ProcAt DEF BInv, Confirming
    <3> QED
      BY <3>1, <3>2, <3>3 DEF Idle
  <2>7. \A q \in Actors : proc[q].stage = "CONFIRM" /\ q # r => proc[q].payment # p
    BY <1>0, <1>1 DEF TopupInvariant, Confirms
  <2>8. Confirms'
    BY <1>2, <2>3, <2>6, <2>7 DEF TopupInvariant, Confirms
  <2>9. ConfirmedBacked'
    BY <1>2, <2>3, <2>4, <2>5 DEF TopupInvariant, ConfirmedBacked, Confirmed
  <2>10. HashUnique'
    <3>1. \A q \in Payments : payment[q].hash # h
      BY <1>4 DEF HashFree
    <3>2. ASSUME NEW q \in Payments, NEW x \in Payments,
                 payment'[q].hash = payment'[x].hash, payment'[q].hash # NULL
          PROVE  q = x
      <4>1. CASE q = p
        BY <2>3, <2>4, <3>1, <3>2, <4>1
      <4>2. CASE q # p /\ x = p
        BY <2>3, <2>4, <3>1, <3>2, <4>2
      <4>3. CASE q # p /\ x # p
        <5>1. payment'[q] = payment[q] /\ payment'[x] = payment[x]
          BY <2>3, <4>3
        <5> QED
          BY <3>2, <5>1 DEF TopupInvariant, HashUnique
      <4> QED
        BY <4>1, <4>2, <4>3
    <3> QED
      BY <3>2 DEF HashUnique
  <2> QED
    BY <2>8, <2>9, <2>10 DEF TopupInvariant
<1> QED
  BY <1>1, <1>3, <1>4 DEF confirmTestnetTopup

LEMMA TopupsNext == BInv /\ TopupInvariant /\ [Next]_vars => TopupInvariant'
<1> SUFFICES ASSUME BInv, TopupInvariant, [Next]_vars PROVE TopupInvariant'
  OBVIOUS
<1>1. ASSUME NEW r \in Requests, Request(r)
      PROVE  TopupInvariant'
  <2>0. r \in Actors /\ ProcTypes
    BY DEF Actors, BInv
  <2>1. ASSUME NEW a \in Assets, BeginAcquire(r, a)
        PROVE  TopupInvariant'
    <3> DEFINE state == [stage |-> "FUNDS", asset |-> a, price |-> offer[a],
                         begun |-> day, window |-> NULL]
    <3>1. proc' = [proc EXCEPT ![r] = state] /\ UNCHANGED funds /\ state.stage # "CONFIRM"
      BY <2>1 DEF BeginAcquire
    <3> HIDE DEF state
    <3> QED
      BY <2>0, <3>1, TopupsAside
  <2>2. CASE AcquireFunds(r)
    <3>1. CASE Affordable(proc[r].price)
      <4>1. proc[r] \in Acquiring
        BY <2>0, <2>2, ProcAt DEF AcquireFunds
      <4>2. Comparing(proc[r], "ACQUIRE").stage # "CONFIRM"
        BY <4>1 DEF Comparing, Acquiring
      <4>3. proc' = [proc EXCEPT ![r] = Comparing(proc[r], "ACQUIRE")] /\ UNCHANGED funds
        BY <2>2, <3>1 DEF AcquireFunds
      <4> QED
        BY <2>0, <4>2, <4>3, TopupsAside
    <3>2. CASE ~Affordable(proc[r].price)
      BY <2>0, <2>2, <3>2, TopupsAside DEF AcquireFunds, Idle
    <3> QED
      BY <3>1, <3>2
  <2>3. CASE acquireMarketplaceAsset(r)
    <3>1. proc' = [proc EXCEPT ![r] = Idle] /\ UNCHANGED funds /\ Idle.stage # "CONFIRM"
      BY <2>3 DEF acquireMarketplaceAsset, Idle
    <3> QED
      BY <2>0, <3>1, TopupsAside
  <2>4. CASE \E p \in Payments, h \in Hashes : BeginConfirm(r, p, h)
    BY <2>4, BeginTopup
  <2>5. CASE confirmTestnetTopup(r)
    BY <2>5, ConfirmTopup
  <2> QED
    BY <1>1, <2>1, <2>2, <2>3, <2>4, <2>5 DEF Request
<1>2. ASSUME NEW s \in Schedulers, Scheduler(s)
      PROVE  TopupInvariant'
  <2>0. s \in Actors /\ ProcTypes
    BY DEF Actors, BInv
  <2>1. ASSUME NEW a \in Workers, BeginRenewal(s, a)
        PROVE  TopupInvariant'
    <3> DEFINE state == [stage |-> "DUE", asset |-> a, status |-> subscription[a].status,
                         price |-> subscription[a].price, offer |-> offer[a],
                         begun |-> day, window |-> NULL]
    <3>1. proc' = [proc EXCEPT ![s] = state] /\ UNCHANGED funds /\ state.stage # "CONFIRM"
      BY <2>1 DEF BeginRenewal
    <3> HIDE DEF state
    <3> QED
      BY <2>0, <3>1, TopupsAside
  <2>2. CASE RenewalFunds(s)
    <3>1. CASE Affordable(proc[s].price)
      <4>1. proc[s] \in Renewing
        BY <2>0, <2>2, ProcAt DEF RenewalFunds
      <4>2. Comparing(proc[s], "RENEW").stage # "CONFIRM"
        BY <4>1 DEF Comparing, Renewing
      <4>3. proc' = [proc EXCEPT ![s] = Comparing(proc[s], "RENEW")] /\ UNCHANGED funds
        BY <2>2, <3>1 DEF RenewalFunds
      <4> QED
        BY <2>0, <4>2, <4>3, TopupsAside
    <3>2. CASE ~Affordable(proc[s].price)
      BY <2>0, <2>2, <3>2, TopupsAside DEF RenewalFunds, Idle
    <3> QED
      BY <3>1, <3>2
  <2>3. CASE EndSubscription(s) \/ Renew(s)
    BY <2>0, <2>3, TopupsAside DEF EndSubscription, Renew, Idle
  <2> QED
    BY <1>2, <2>1, <2>2, <2>3 DEF Scheduler
<1>3. CASE \E p \in Payments, amount \in Amounts : createTestnetTopupIntent(p, amount)
  BY <1>3, CreateTopup
<1>4. CASE \E h \in Hashes, amount \in Amounts : Transfer(h, amount)
  BY <1>4, TransferTopup
<1>5. CASE \/ \E a \in Workers : cancelSubscription(a)
           \/ \E a \in Assets, price \in Prices : setMarketplaceOffer(a, price)
           \/ \E value \in Limits : updateSpendControls(value)
           \/ NextDay
           \/ UNCHANGED vars
  BY <1>5, TopupsAside DEF cancelSubscription, setMarketplaceOffer, updateSpendControls, NextDay, vars
<1> QED
  BY <1>1, <1>2, <1>3, <1>4, <1>5 DEF Next

\* A transaction on chain is credited to one payment only, and for no more
\* than it brought, whatever confirmations of it are in flight.
THEOREM TopupsAreBacked == Spec => []TopupIsBacked
<1>1. BInv /\ TopupInvariant => TopupIsBacked
  <2> SUFFICES ASSUME BInv, TopupInvariant, NEW h \in Hashes
               PROVE  SumFunction([p \in {q \in Confirmed : payment[q].hash = h} |-> payment[p].amount])
                        <= chain[h]
    BY DEF TopupIsBacked
  <2> DEFINE With == {q \in Confirmed : payment[q].hash = h}
             f == [p \in With |-> payment[p].amount]
  <2>1. \A p \in With : p \in Payments /\ payment[p].hash = h /\ payment[p].amount <= chain[h]
    BY DEF TopupInvariant, ConfirmedBacked, Confirmed
  <2>2. chain[h] \in Nat /\ \A p \in With : payment[p].amount \in Nat
    <3>1. chain[h] \in Amounts \cup {0} /\ \A p \in With : payment[p].amount \in Amounts \cup {0}
      BY DEF BInv, FundTypes, PaymentRows, Confirmed
    <3> QED
      BY <3>1, Numbers
  <2>3. \A p, q \in With : p = q
    BY <2>1, NullAssumption DEF TopupInvariant, HashUnique
  <2>4. DOMAIN f = With /\ \A p \in With : f[p] = payment[p].amount
    OBVIOUS
  <2> HIDE DEF With, f
  <2>5. CASE With = {}
    <3>1. SumFunction(f) = 0
      BY <2>4, <2>5, FunctionSumEmpty
    <3> QED
      BY <2>2, <3>1 DEF f, With
  <2>6. CASE With # {}
    <3>1. PICK p : With = {p}
      BY <2>3, <2>6
    <3>2. SumFunction(f) = f[p]
      BY <2>2, <2>4, <3>1, FunctionSumSingle
    <3> QED
      BY <2>1, <2>4, <3>1, <3>2 DEF f, With
  <2> QED
    BY <2>5, <2>6
<1> QED
  BY <1>1, Invariant, TopupsInit, TopupsNext, PTL DEF Spec

-----------------------------------------------------------------------------
(* Renewals                                                                *)

\* A period that was charged has passed into the next.
RenewedBefore ==
    \A e \in debits, a \in Workers, end \in Nat :
      e.key = RenewalKey(a, end) =>
        subscription[a] # NULL /\ end < subscription[a].end /\ end <= day

EndsKept ==
    \A a \in Workers : subscription[a] # NULL =>
      subscription'[a] # NULL /\ subscription'[a].end = subscription[a].end

LEMMA EndIsNat ==
  ASSUME BInv, NEW a \in Workers, subscription[a] # NULL
  PROVE  subscription[a] \in Subscriptions /\ subscription[a].end \in Nat
<1>1. subscription[a] \in Subscriptions
  BY DEF BInv, RowTypes, Assets
<1> QED
  BY <1>1 DEF Subscriptions

\* A change of the status of one subscription.
LEMMA StatusOnly ==
  ASSUME BInv, NEW a \in Workers, subscription[a] # NULL,
         NEW status \in {"past-due", "pending-cancel", "cancelled"},
         subscription' = [subscription EXCEPT ![a] = [@ EXCEPT !.status = status]]
  PROVE  EndsKept
<1>1. subscription[a] \in Subscriptions /\ a \in Assets
  BY EndIsNat DEF Assets
<1>2. /\ subscription'[a] = [subscription[a] EXCEPT !.status = status]
      /\ \A b \in Assets : b # a => subscription'[b] = subscription[b]
  BY <1>1 DEF BInv, RowTypes
<1>3. subscription'[a] \in Subscriptions /\ subscription'[a].end = subscription[a].end
  BY <1>1, <1>2 DEF Subscriptions
<1> QED
  BY <1>2, <1>3, NullAssumption DEF EndsKept, Assets

LEMMA EndsStep ==
  ASSUME BInv, [Next]_vars
  PROVE  \/ UNCHANGED debits /\ EndsKept /\ day' \in {day, day + 1}
         \/ \E r \in Requests : acquireMarketplaceAsset(r)
         \/ \E s \in Schedulers : Renew(s)
<1>1. CASE UNCHANGED subscription /\ UNCHANGED debits /\ day' \in {day, day + 1}
  BY <1>1 DEF EndsKept
<1>2. ASSUME NEW a \in Workers, cancelSubscription(a)
      PROVE  UNCHANGED <<debits, day>> /\ EndsKept
  <2>1. PICK status \in {"pending-cancel", "cancelled"} :
          subscription' = [subscription EXCEPT ![a] = [@ EXCEPT !.status = status]]
    BY <1>2 DEF cancelSubscription
  <2> QED
    BY <1>2, <2>1, StatusOnly DEF cancelSubscription, MayCancel, books
<1>3. ASSUME NEW s \in Schedulers, EndSubscription(s) \/ RenewalFunds(s)
      PROVE  UNCHANGED <<debits, day>> /\ EndsKept
  <2>1. PICK a \in Workers : a = proc[s].asset /\ subscription[a] # NULL
    BY <1>3, PassHolds, NullAssumption DEF EndSubscription, RenewalFunds
  <2>2. UNCHANGED <<debits, day>>
    BY <1>3 DEF EndSubscription, RenewalFunds, books
  <2>3. \/ UNCHANGED subscription
        \/ \E status \in {"past-due", "cancelled"} :
             subscription' = [subscription EXCEPT ![a] = [@ EXCEPT !.status = status]]
    BY <1>3, <2>1 DEF EndSubscription, RenewalFunds
  <2>4. CASE UNCHANGED subscription
    BY <2>2, <2>4 DEF EndsKept
  <2>5. CASE ~UNCHANGED subscription
    BY <2>1, <2>2, <2>3, <2>5, StatusOnly
  <2> QED
    BY <2>4, <2>5
<1>4. \/ UNCHANGED subscription /\ UNCHANGED debits /\ day' \in {day, day + 1}
      \/ \E a \in Workers : cancelSubscription(a)
      \/ \E s \in Schedulers : EndSubscription(s) \/ RenewalFunds(s)
      \/ \E r \in Requests : acquireMarketplaceAsset(r)
      \/ \E s \in Schedulers : Renew(s)
  BY DEF Next, vars, access, books, Request, Scheduler, BeginAcquire, AcquireFunds, BeginConfirm,
         confirmTestnetTopup, BeginRenewal, setMarketplaceOffer, updateSpendControls,
         createTestnetTopupIntent, Transfer, NextDay
<1> QED
  BY <1>1, <1>2, <1>3, <1>4

\* An acquisition sets the end of what it buys a month from now, and its
\* entry is no renewal.
LEMMA AcquireEnds ==
  ASSUME BInv, NEW r \in Requests, acquireMarketplaceAsset(r)
  PROVE  /\ UNCHANGED day /\ ~Due(proc[r].asset)
         /\ \E key : key[1] = "acquire" /\ \A e \in debits' : e \in debits \/ e.key = key
         /\ \A a \in Workers : subscription'[a] # subscription[a] =>
              /\ a = proc[r].asset /\ subscription'[a] # NULL /\ subscription'[a].end = day + DaysPerMonth
<1>1. r \in Actors /\ proc[r].stage = "ACQUIRE" /\ UNCHANGED day
  BY DEF acquireMarketplaceAsset, Actors
<1>2. PICK a \in Assets, price \in Prices : a = proc[r].asset /\ price = proc[r].price
  BY <1>1, ProcAt DEF BInv, Acquiring
<1>3. ~Due(a)
  BY <1>1, <1>2, NotDue
<1>4. \E key : key[1] = "acquire" /\ \A e \in debits' : e \in debits \/ e.key = key
  <2> DEFINE entry == [key |-> <<"acquire", a>>, amount |-> price, occurred |-> proc[r].begun]
  <2>1. debits' \subseteq debits \cup {entry}
    BY <1>2, AddTyped DEF acquireMarketplaceAsset
  <2>2. entry.key = <<"acquire", a>>
    OBVIOUS
  <2> HIDE DEF entry
  <2>3. \A e \in debits' : e \in debits \/ e.key = <<"acquire", a>>
    BY <2>1, <2>2
  <2>4. <<"acquire", a>>[1] = "acquire"
    OBVIOUS
  <2> QED
    BY <2>3, <2>4
<1>5. ASSUME NEW b \in Workers, subscription'[b] # subscription[b]
      PROVE  b = a /\ subscription'[b] # NULL /\ subscription'[b].end = day + DaysPerMonth
  <2>1. Monthly(a, price)
    BY <1>2, <1>5 DEF acquireMarketplaceAsset
  <2>2. subscription' = [subscription EXCEPT ![a] =
                           [status |-> "active", price |-> price, end |-> day + DaysPerMonth]]
    BY <1>2, <2>1 DEF acquireMarketplaceAsset
  <2>3. [status |-> "active", price |-> price, end |-> day + DaysPerMonth] \in Subscriptions
    BY <2>1, NumbersAssumption, DaysAssumption DEF Monthly, Subscriptions, BInv, ProcTypes
  <2>4. b = a
    BY <1>5, <2>2 DEF BInv, RowTypes, Assets
  <2>5. subscription'[b] = [status |-> "active", price |-> price, end |-> day + DaysPerMonth]
    BY <2>2, <2>4 DEF BInv, RowTypes
  <2> QED
    BY <2>3, <2>4, <2>5, NullAssumption
<1> QED
  BY <1>1, <1>2, <1>3, <1>4, <1>5

\* A renewal charges the period that ends, and moves it on.
LEMMA RenewEnds ==
  ASSUME BInv, NEW s \in Schedulers, Renew(s)
  PROVE  \E a, end, e :
           /\ a \in Workers /\ end \in Nat
           /\ UNCHANGED day /\ a = proc[s].asset
           /\ subscription[a] # NULL /\ end = subscription[a].end /\ end <= day
           /\ debits' = Add(debits, e)
           /\ e.key = RenewalKey(a, end) /\ e.amount = subscription[a].price
           /\ subscription'[a] # NULL /\ subscription'[a].end = end + DaysPerMonth
           /\ \A b \in Workers : b # a => subscription'[b] = subscription[b]
<1>1. s \in Actors /\ proc[s].stage = "RENEW" /\ UNCHANGED day
  BY DEF Renew, Actors
<1>2. PICK a \in Workers : a = proc[s].asset /\ subscription[a] \in Subscriptions
  BY <1>1, PassHolds
<1>3. a \in Assets /\ Due(a) /\ subscription[a].price = proc[s].price
  BY <1>1, <1>2 DEF BInv, Held, Assets
<1>4. PICK end \in Nat, price \in Prices \ {0} :
        end = subscription[a].end /\ price = subscription[a].price
  BY <1>2 DEF Subscriptions
<1>5. end <= day
  BY <1>3, <1>4 DEF Due
<1> DEFINE e == [key |-> RenewalKey(a, end), amount |-> price, occurred |-> proc[s].begun]
           sub == [status |-> "active", price |-> price, end |-> end + DaysPerMonth]
<1>6. e.key = RenewalKey(a, end) /\ e.amount = price /\ debits' = Add(debits, e)
  BY <1>2, <1>3, <1>4 DEF Renew
<1>7. sub \in Subscriptions /\ sub.end = end + DaysPerMonth
  BY DaysAssumption DEF Subscriptions
<1>8. subscription' = [subscription EXCEPT ![a] = sub]
  BY <1>2, <1>4 DEF Renew
<1> HIDE DEF e, sub
<1>9. subscription'[a] = sub /\ \A b \in Workers : b # a => subscription'[b] = subscription[b]
  BY <1>3, <1>8 DEF BInv, RowTypes, Assets
<1>10. sub # NULL /\ subscription[a] # NULL
  BY <1>2, <1>7, NullAssumption
<1> QED
  BY <1>1, <1>2, <1>4, <1>5, <1>6, <1>7, <1>9, <1>10

LEMMA RenewedInit == Init => RenewedBefore
  BY DEF Init, RenewedBefore

LEMMA RenewedNext == BInv /\ RenewedBefore /\ [Next]_vars => RenewedBefore'
<1> SUFFICES ASSUME BInv, RenewedBefore, [Next]_vars,
                    NEW e \in debits', NEW a \in Workers, NEW end \in Nat, e.key = RenewalKey(a, end)
             PROVE  subscription'[a] # NULL /\ end < subscription'[a].end /\ end <= day'
  BY DEF RenewedBefore
<1>0. /\ day \in Nat /\ DaysPerMonth \in Nat /\ DaysPerMonth > 0
      /\ \A b \in Workers : subscription[b] # NULL => subscription[b].end \in Nat
  BY EndIsNat, DaysAssumption DEF BInv, ProcTypes
<1>1. e \in debits => subscription[a] # NULL /\ end < subscription[a].end /\ end <= day
  BY DEF RenewedBefore
<1>2. CASE UNCHANGED debits /\ EndsKept /\ day' \in {day, day + 1}
  BY <1>0, <1>1, <1>2 DEF EndsKept
<1>3. ASSUME NEW r \in Requests, acquireMarketplaceAsset(r)
      PROVE  subscription'[a] # NULL /\ end < subscription'[a].end /\ end <= day'
  <2>1. UNCHANGED day /\ (subscription'[a] # subscription[a] =>
                              subscription'[a] # NULL /\ subscription'[a].end = day + DaysPerMonth)
    BY <1>3, AcquireEnds
  <2>2. e \in debits
    <3>1. PICK key : key[1] = "acquire" /\ (e \in debits \/ e.key = key)
      BY <1>3, AcquireEnds
    <3>2. e.key[1] = "renew"
      BY DEF RenewalKey
    <3> QED
      BY <3>1, <3>2
  <2> QED
    BY <1>0, <1>1, <2>1, <2>2
<1>4. ASSUME NEW s \in Schedulers, Renew(s)
      PROVE  subscription'[a] # NULL /\ end < subscription'[a].end /\ end <= day'
  <2>1. PICK b, last, x :
          /\ b \in Workers /\ last \in Nat /\ UNCHANGED day
          /\ subscription[b] # NULL /\ last = subscription[b].end /\ last <= day
          /\ debits' = Add(debits, x) /\ x.key = RenewalKey(b, last)
          /\ subscription'[b] # NULL /\ subscription'[b].end = last + DaysPerMonth
          /\ \A c \in Workers : c # b => subscription'[c] = subscription[c]
    BY <1>4, RenewEnds
  <2>2. CASE e \in debits
    BY <1>0, <1>1, <2>1, <2>2
  <2>3. CASE e \notin debits
    <3>1. RenewalKey(a, end) = RenewalKey(b, last)
      BY <2>1, <2>3, AddTyped
    <3>2. a = b /\ end = last
      BY <3>1 DEF RenewalKey
    <3> QED
      BY <1>0, <2>1, <3>2
  <2> QED
    BY <2>2, <2>3
<1> QED
  BY <1>2, <1>3, <1>4, EndsStep

\* A period of a subscription goes on to the next only for the price agreed at
\* its acquisition, paid once: a key that is in the books belongs to a period
\* that has passed, so that a renewal never finds its own.
THEOREM RenewalsArePaid == Spec => RenewalIsPaid
<1> DEFINE Step ==
      \A a \in Workers :
        (subscription[a] # NULL /\ subscription'[a].end >= subscription[a].end + DaysPerMonth
           /\ subscription[a].status # "cancelled")
          => Total(debits') = Total(debits) + subscription[a].price
<1>1. BInv /\ BooksInv /\ RenewedBefore /\ [Next]_vars => [Step]_vars
  <2> SUFFICES ASSUME BInv, BooksInv, RenewedBefore, [Next]_vars, NEW a \in Workers,
                      subscription[a] # NULL,
                      subscription'[a].end >= subscription[a].end + DaysPerMonth,
                      subscription[a].status # "cancelled"
               PROVE  Total(debits') = Total(debits) + subscription[a].price
    OBVIOUS
  <2>0. /\ day \in Nat /\ DaysPerMonth \in Nat /\ DaysPerMonth > 0
        /\ subscription[a] \in Subscriptions /\ subscription[a].end \in Nat
    BY EndIsNat, DaysAssumption DEF BInv, ProcTypes
  <2>1. CASE EndsKept
    BY <2>0, <2>1 DEF EndsKept
  <2>2. ASSUME NEW r \in Requests, acquireMarketplaceAsset(r)
        PROVE  FALSE
    <3>1. a = proc[r].asset /\ subscription'[a].end = day + DaysPerMonth /\ ~Due(a)
      BY <2>0, <2>2, AcquireEnds
    <3>2. subscription[a].status \in {"active", "past-due", "pending-cancel"}
      BY <2>0 DEF Subscriptions
    <3>3. subscription[a].end <= day
      BY <2>0, <3>1
    <3> QED
      BY <3>1, <3>2, <3>3 DEF Due, Live
  <2>3. ASSUME NEW s \in Schedulers, Renew(s)
        PROVE  Total(debits') = Total(debits) + subscription[a].price
    <3>1. PICK b, last, x :
            /\ b \in Workers /\ last \in Nat
            /\ subscription[b] # NULL /\ last = subscription[b].end
            /\ debits' = Add(debits, x)
            /\ x.key = RenewalKey(b, last) /\ x.amount = subscription[b].price
            /\ \A c \in Workers : c # b => subscription'[c] = subscription[c]
      BY <2>3, RenewEnds
    <3>2. a = b
      BY <2>0, <3>1
    <3>3. \A e \in debits : e.key # x.key
      BY <3>1 DEF RenewedBefore
    <3>4. debits' = debits \cup {x} /\ x \notin debits
      BY <3>1, <3>3 DEF Add
    <3>5. x.amount \in Nat
      <4>1. x.amount \in Prices \ {0}
        BY <2>0, <3>1, <3>2 DEF Subscriptions
      <4> QED
        BY <4>1, Numbers
    <3> QED
      BY <3>1, <3>2, <3>4, <3>5, BooksAmounted, TotalAdd
  <2> QED
    BY <2>1, <2>2, <2>3, EndsStep
<1>2. Spec => []RenewedBefore
  BY RenewedInit, RenewedNext, Invariant, PTL DEF Spec
<1> QED
  BY <1>1, <1>2, Invariant, BooksInvariant, PTL DEF Spec, RenewalIsPaid
=============================================================================
