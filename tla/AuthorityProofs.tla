--------------------------- MODULE AuthorityProofs ---------------------------
(* Proofs about Authority, for all mandates, policies, accounts and          *)
(* requests.                                                                 *)
EXTENDS Authority, SumLemmas, SequenceTheorems, TLAPS

Requested == Handlers \cup Evaluators

MandateTypes ==
    /\ mandate \in [Mandates -> [status : Statuses, revisions : Seq(Policies)]]
    /\ \A m \in Mandates : mandate[m].status = "NONE" <=> mandate[m].revisions = <<>>

\* Revisions and status stay.
Kept(m) == mandate'[m] = mandate[m]

\* The status changes, and to ACTIVE only with a complete policy.
Moved(m) ==
    /\ mandate'[m].revisions = mandate[m].revisions
    /\ mandate[m].status \notin {"NONE", "REVOKED"}
    /\ mandate'[m].status \in Statuses \ {"NONE", "DRAFT"}
    /\ mandate'[m].status \in Standing => mandate[m].status \in Standing
    /\ mandate'[m].status = "PAUSED" => mandate[m].status \in {"ACTIVE", "PAUSED"}
    /\ mandate'[m].status = "ACTIVE" => mandate[m].status = "ACTIVE" \/ Ready(Current(m))

\* A revision is added, the first or another, complete unless for a draft.
Written1(m, p) ==
    /\ mandate'[m].revisions = Append(mandate[m].revisions, p)
    /\ mandate[m].status # "REVOKED"
    /\ mandate'[m].status \in Standing
    /\ mandate'[m].status \in {"ACTIVE", "PAUSED"} => Ready(p)
    /\ mandate[m].status \in Standing \/ SlotIsFree(m)
    /\ \A n \in Mandates \ {m} : Kept(n)

\* What a step may do to the mandates.
Change ==
    /\ mandate' \in [Mandates -> [status : Statuses, revisions : Seq(Policies)]]
    /\ \/ \A m \in Mandates : Kept(m) \/ Moved(m)
       \/ \E m \in Mandates, p \in Policies : Written1(m, p)

-----------------------------------------------------------------------------
LEMMA ExpiredChange ==
  ASSUME MandateTypes
  PROVE  /\ Expired \in [Mandates -> [status : Statuses, revisions : Seq(Policies)]]
         /\ \A m \in Mandates :
              \/ Expired[m] = mandate[m]
              \/ /\ Expired[m] = [mandate[m] EXCEPT !.status = "EXPIRED"]
                 /\ mandate[m].status \in {"ACTIVE", "PAUSED"}
  BY DEF MandateTypes, Expired, Statuses

LEMMA ExpiryIsChange == MandateTypes /\ mandate' = Expired => Change
<1> SUFFICES ASSUME MandateTypes, mandate' = Expired PROVE Change
  OBVIOUS
<1>1. ASSUME NEW m \in Mandates PROVE Kept(m) \/ Moved(m)
  BY ExpiredChange DEF MandateTypes, Kept, Moved, Statuses, Standing
<1> QED
  BY <1>1, ExpiredChange DEF Change

LEMMA UnchangedIsChange == MandateTypes /\ mandate' = mandate => Change
  BY DEF MandateTypes, Change, Kept

LEMMA CreateChange ==
  ASSUME MandateTypes, NEW m \in Mandates, NEW p \in Policies, NEW status \in {"DRAFT", "ACTIVE"},
         createMandate(m, p, status)
  PROVE  Change
<1>1. /\ mandate[m].status = "NONE" /\ SlotIsFree(m)
      /\ status = "ACTIVE" => Ready(p)
      /\ mandate' = [mandate EXCEPT ![m] = [status |-> status, revisions |-> <<p>>]]
  BY DEF createMandate
<1>2. mandate[m].revisions = <<>> /\ Append(<<>>, p) = <<p>>
  BY <1>1 DEF MandateTypes
<1>3. Written1(m, p)
  BY <1>1, <1>2 DEF MandateTypes, Written1, Standing, Kept
<1>4. mandate' \in [Mandates -> [status : Statuses, revisions : Seq(Policies)]]
  BY <1>1 DEF MandateTypes, Statuses
<1> QED
  BY <1>3, <1>4 DEF Change

LEMMA ReviseChange ==
  ASSUME MandateTypes, NEW m \in Mandates, NEW p \in Policies, reviseMandate(m, p)
  PROVE  Change
<1> DEFINE status == IF mandate[m].status = "EXPIRED" THEN "DRAFT" ELSE mandate[m].status
           revisions == Append(mandate[m].revisions, p)
<1>1. /\ mandate[m].status \notin {"NONE", "REVOKED"}
      /\ mandate[m].status \in {"ACTIVE", "PAUSED"} => Ready(p)
      /\ mandate[m].status = "EXPIRED" => SlotIsFree(m)
      /\ mandate' = [mandate EXCEPT ![m] = [status |-> status, revisions |-> revisions]]
  BY DEF reviseMandate
<1>2. mandate[m].status \in Statuses /\ mandate[m].revisions \in Seq(Policies)
  BY DEF MandateTypes
<1>3. status \in Standing /\ revisions \in Seq(Policies)
  BY <1>1, <1>2 DEF Statuses, Standing
<1>4. /\ mandate'[m].status = status /\ mandate'[m].revisions = revisions
      /\ \A n \in Mandates \ {m} : mandate'[n] = mandate[n]
  BY <1>1 DEF MandateTypes
<1>5. Written1(m, p)
  BY <1>1, <1>2, <1>3, <1>4 DEF Written1, Standing, Statuses, Kept
<1>6. mandate' \in [Mandates -> [status : Statuses, revisions : Seq(Policies)]]
  BY <1>1, <1>3 DEF MandateTypes, Statuses, Standing
<1> QED
  BY <1>5, <1>6 DEF Change

LEMMA StatusChange ==
  ASSUME MandateTypes, NEW h \in Requested, handler[h].op = "STATUS" => handler[h].mandate \in Mandates,
         setMandateStatus(h)
  PROVE  Change
<1> DEFINE m == handler[h].mandate
           to == handler[h].to
<1>1. m \in Mandates
  BY DEF setMandateStatus
<1>2. CASE mandate' = mandate
  BY <1>2, UnchangedIsChange
<1>3. CASE mandate' # mandate
  <2>1. /\ <<mandate[m].status, to>> \in Transitions
        /\ to = "ACTIVE" => Ready(Current(m))
        /\ mandate' = [mandate EXCEPT ![m].status = to]
    BY <1>3 DEF setMandateStatus, LockedStatus
  <2>2. /\ to \in {"ACTIVE", "PAUSED", "REVOKED"} /\ mandate[m].status \notin {"NONE", "REVOKED"}
        /\ to \in Standing => mandate[m].status \in Standing
        /\ to = "PAUSED" => mandate[m].status = "ACTIVE"
    BY <2>1 DEF Transitions, Standing
  <2>3. Moved(m) /\ \A n \in Mandates \ {m} : Kept(n)
    BY <1>1, <2>1, <2>2 DEF MandateTypes, Moved, Kept, Statuses
  <2>4. mandate' \in [Mandates -> [status : Statuses, revisions : Seq(Policies)]]
    BY <1>1, <2>1, <2>2 DEF MandateTypes, Statuses
  <2> QED
    BY <2>3, <2>4 DEF Change
<1> QED
  BY <1>2, <1>3

LEMMA RevokeAllChange ==
  ASSUME MandateTypes, revokeAllMandates
  PROVE  Change
<1>1. mandate' = [m \in Mandates |->
                    IF mandate[m].status \in {"ACTIVE", "PAUSED"}
                    THEN [mandate[m] EXCEPT !.status = "REVOKED"] ELSE mandate[m]]
  BY DEF revokeAllMandates
<1>2. \A m \in Mandates : Kept(m) \/ Moved(m)
  BY <1>1 DEF MandateTypes, Kept, Moved, Statuses, Standing
<1>3. mandate' \in [Mandates -> [status : Statuses, revisions : Seq(Policies)]]
  BY <1>1 DEF MandateTypes, Statuses
<1> QED
  BY <1>2, <1>3 DEF Change

-----------------------------------------------------------------------------
(* Type correctness                                                        *)

OnePerPlace == \A m, n \in Mandates : {mandate[m].status, mandate[n].status} \subseteq Standing => m = n

LEMMA ChangeTyped ==
  ASSUME MandateTypes, OnePerPlace, Change
  PROVE  MandateTypes' /\ OnePerPlace'
<1>1. CASE \A m \in Mandates : Kept(m) \/ Moved(m)
  <2>1. \A m \in Mandates : mandate'[m].status \in Standing => mandate[m].status \in Standing
    BY <1>1 DEF Kept, Moved
  <2>2. MandateTypes'
    BY <1>1 DEF MandateTypes, Change, Kept, Moved
  <2> QED
    BY <2>1, <2>2 DEF OnePerPlace
<1>2. ASSUME NEW m \in Mandates, NEW p \in Policies, Written1(m, p)
      PROVE  MandateTypes' /\ OnePerPlace'
  <2>1. Append(mandate[m].revisions, p) # <<>>
    BY DEF MandateTypes
  <2>2. MandateTypes'
    BY <1>2, <2>1 DEF MandateTypes, Change, Written1, Kept, Standing
  <2>3. \A n \in Mandates \ {m} : mandate'[n].status \notin Standing
    BY <1>2 DEF Written1, SlotIsFree, OnePerPlace, Kept
  <2> QED
    BY <2>2, <2>3 DEF OnePerPlace
<1> QED
  BY <1>1, <1>2 DEF Change

\* Noting what is in force leaves a request what it is.
LEMMA WitnessedTyped ==
  ASSUME NEW f \in [Requested -> Calls],
         NEW ms \in [Mandates -> [status : Statuses, revisions : Seq(Policies)]], NEW off \in BOOLEAN
  PROVE  Witnessed(f, ms, off) \in [Requested -> Calls]
<1>1. InForce(ms) \subseteq Mandates \X Nat
  BY DEF InForce
<1>2. ASSUME NEW h \in Requested, f[h].op \in {"EVALUATE", "DECIDE"}
      PROVE  [f[h] EXCEPT !.seen = @ \cup InForce(ms), !.unpaused = @ \/ ~off] \in Calls
  <2>1. f[h] \in Calls
    OBVIOUS
  <2>2. CASE f[h].op = "EVALUATE"
    BY <1>1, <2>1, <2>2 DEF Calls, Idle
  <2>3. CASE f[h].op = "DECIDE"
    BY <1>1, <2>1, <2>3 DEF Calls, Idle
  <2> QED
    BY <1>2, <2>2, <2>3
<1> QED
  BY <1>2 DEF Witnessed

LEMMA TypeParts == TypeOK => MandateTypes /\ OnePerPlace
  BY DEF TypeOK, MandateTypes, OnePerPlace

\* What a busy request remembers.
LEMMA CallTyped ==
  ASSUME NEW c \in Calls
  PROVE  /\ c.op = "STATUS" => c.mandate \in Mandates
         /\ c.op = "WALLET" => c.listed \in BOOLEAN
         /\ c.op \in {"EVALUATE", "DECIDE"} =>
              /\ c.envelope \in Envelopes /\ c.mandate \in Mandates \cup {NULL}
              /\ c.mode \in AccountModes \cup {NULL} /\ c.paused \in BOOLEAN
              /\ c.seen \in SUBSET (Mandates \X Nat) /\ c.unpaused \in BOOLEAN
         /\ c.op = "DECIDE" => c.status \in Statuses \cup {NULL} /\ c.revision \in Nat
  BY DEF Calls, Idle

LEMMA TypeInit == Init => TypeOK
<1> SUFFICES ASSUME Init PROVE TypeOK
  OBVIOUS
<1>1. mandate \in [Mandates -> [status : Statuses, revisions : Seq(Policies)]]
  BY DEF Init, Statuses
<1>2. account \in [mode : AccountModes, listed : BOOLEAN, removed : BOOLEAN]
  <2>1. PICK mode \in AccountModes : account = [mode |-> mode, listed |-> TRUE, removed |-> FALSE]
    BY DEF Init
  <2> QED
    BY <2>1
<1>3. handler \in [Handlers \cup Evaluators -> Calls] /\ decisions \in Seq(Allowances)
  BY DEF Init, Calls
<1>4. today \in 0 .. LastDay
  BY LastDayAssumption DEF Init
<1>6. paused \in BOOLEAN
  BY DEF Init
<1>5. \A m \in Mandates : mandate[m].status = "NONE" /\ mandate[m].revisions = <<>>
  BY DEF Init
<1> QED
  BY <1>1, <1>2, <1>3, <1>4, <1>5, <1>6 DEF TypeOK, Standing

\* A step that changes mandates, or the pause, and not what requests do.
LEMMA WriteTyped ==
  ASSUME TypeOK, Change, paused' \in BOOLEAN, handler' = Witnessed(handler, mandate', paused'),
         UNCHANGED <<account, today, decisions>>
  PROVE  TypeOK'
<1>1. MandateTypes' /\ OnePerPlace'
  BY TypeParts, ChangeTyped
<1>2. handler' \in [Handlers \cup Evaluators -> Calls]
  BY <1>1, WitnessedTyped DEF TypeOK, MandateTypes, Requested
<1> QED
  BY <1>1, <1>2 DEF TypeOK, MandateTypes, OnePerPlace

LEMMA StatusBegins ==
  ASSUME TypeOK, NEW h \in Handlers, NEW m \in Mandates, NEW to \in {"ACTIVE", "PAUSED", "REVOKED"},
         BeginSetMandateStatus(h, m, to)
  PROVE  TypeOK' /\ Change
<1> DEFINE call == [op |-> "STATUS", mandate |-> m, to |-> to, revision |-> Len(mandate[m].revisions)]
<1>1. call \in Calls
  BY DEF TypeOK, Calls, Statuses
<1> HIDE DEF call
<1>2. [handler EXCEPT ![h] = call] \in [Requested -> Calls]
  BY <1>1 DEF TypeOK, Requested
<1>3. /\ mandate' = Expired /\ handler' = Witnessed([handler EXCEPT ![h] = call], mandate', paused)
      /\ UNCHANGED <<account, paused, today, decisions>>
  BY DEF BeginSetMandateStatus, call
<1>4. Change /\ MandateTypes' /\ OnePerPlace'
  BY <1>3, TypeParts, ExpiryIsChange, ChangeTyped
<1>5. handler' \in [Handlers \cup Evaluators -> Calls]
  BY <1>2, <1>3, <1>4, WitnessedTyped DEF TypeOK, MandateTypes, Requested
<1> QED
  BY <1>3, <1>4, <1>5 DEF TypeOK, MandateTypes, OnePerPlace

LEMMA StatusEnds ==
  ASSUME TypeOK, NEW h \in Handlers, setMandateStatus(h)
  PROVE  TypeOK' /\ Change
<1>1. handler[h] \in Calls /\ h \in Requested
  BY DEF TypeOK, Requested
<1>2. Change /\ MandateTypes' /\ OnePerPlace'
  BY <1>1, TypeParts, CallTyped, StatusChange, ChangeTyped
<1>3. /\ handler' = Witnessed([handler EXCEPT ![h] = Idle], mandate', paused)
      /\ UNCHANGED <<account, paused, today, decisions>>
  BY DEF setMandateStatus
<1>4. [handler EXCEPT ![h] = Idle] \in [Requested -> Calls]
  BY DEF TypeOK, Requested, Calls
<1>5. handler' \in [Handlers \cup Evaluators -> Calls]
  BY <1>2, <1>3, <1>4, WitnessedTyped DEF TypeOK, MandateTypes, Requested
<1> QED
  BY <1>2, <1>3, <1>5 DEF TypeOK, MandateTypes, OnePerPlace

LEMMA AccountTyped ==
  ASSUME TypeOK,
         \/ \E h \in Handlers : \E listed \in BOOLEAN : BeginUpdateWallet(h, listed)
         \/ \E h \in Handlers : updateWallet(h)
         \/ \E h \in Handlers : BeginObserveWallet(h)
         \/ \E h \in Handlers : observeWalletNetwork(h)
  PROVE  TypeOK' /\ UNCHANGED mandate /\ account'.mode = account.mode
<1>1. ASSUME NEW h \in Handlers, NEW listed \in BOOLEAN, BeginUpdateWallet(h, listed)
      PROVE  TypeOK' /\ UNCHANGED <<mandate, account>>
  <2>1. [op |-> "WALLET", listed |-> listed] \in Calls
    BY DEF Calls
  <2> QED
    BY <1>1, <2>1 DEF TypeOK, BeginUpdateWallet
<1>2. ASSUME NEW h \in Handlers, updateWallet(h)
      PROVE  TypeOK' /\ UNCHANGED mandate /\ account'.mode = account.mode
  <2>1. handler[h].listed \in BOOLEAN /\ (~handler[h].listed) \in BOOLEAN /\ Idle \in Calls
    BY <1>2, CallTyped DEF TypeOK, updateWallet, Calls
  <2>2. account' \in [mode : AccountModes, listed : BOOLEAN, removed : BOOLEAN] /\ account'.mode = account.mode
    BY <1>2, <2>1 DEF TypeOK, updateWallet
  <2> QED
    BY <1>2, <2>1, <2>2 DEF TypeOK, updateWallet
<1>3. ASSUME NEW h \in Handlers, BeginObserveWallet(h)
      PROVE  TypeOK' /\ UNCHANGED <<mandate, account>>
  <2>1. [op |-> "OBSERVE"] \in Calls
    BY DEF Calls
  <2> QED
    BY <1>3, <2>1 DEF TypeOK, BeginObserveWallet
<1>4. ASSUME NEW h \in Handlers, observeWalletNetwork(h)
      PROVE  TypeOK' /\ UNCHANGED mandate /\ account'.mode = account.mode
  <2>1. Idle \in Calls
    BY DEF Calls
  <2>2. account' = [account EXCEPT !.listed = TRUE] /\ handler' = [handler EXCEPT ![h] = Idle]
        /\ UNCHANGED <<mandate, paused, today, decisions>>
    BY <1>4 DEF observeWalletNetwork
  <2>3. account' \in [mode : AccountModes, listed : BOOLEAN, removed : BOOLEAN] /\ account'.mode = account.mode
    BY <2>2 DEF TypeOK
  <2> QED
    BY <2>1, <2>2, <2>3 DEF TypeOK
<1> QED
  BY <1>1, <1>2, <1>3, <1>4

LEMMA CandidatesAreMandates == \A ms : Candidates(ms) \subseteq Mandates \cup {NULL}
  BY DEF Candidates

\* A request that reads the mandates it expires.
LEMMA ReadTyped ==
  ASSUME TypeOK, NEW h \in Requested, NEW call \in Calls, mandate' = Expired,
         handler' = Witnessed([handler EXCEPT ![h] = call], mandate', paused),
         UNCHANGED <<account, paused, today, decisions>>
  PROVE  TypeOK' /\ Change
<1>1. Change /\ MandateTypes' /\ OnePerPlace'
  BY TypeParts, ExpiryIsChange, ChangeTyped
<1>2. [handler EXCEPT ![h] = call] \in [Requested -> Calls]
  BY DEF TypeOK, Requested
<1>3. handler' \in [Handlers \cup Evaluators -> Calls]
  BY <1>1, <1>2, WitnessedTyped DEF TypeOK, MandateTypes, Requested
<1> QED
  BY <1>1, <1>3 DEF TypeOK, MandateTypes, OnePerPlace

LEMMA EvaluateBegins ==
  ASSUME TypeOK, NEW h \in Evaluators, NEW e \in Envelopes, BeginEvaluate(h, e)
  PROVE  TypeOK' /\ Change
<1> DEFINE call(m) ==
      [op |-> "EVALUATE", envelope |-> e, mandate |-> m,
       mode |-> IF account.removed THEN NULL ELSE account.mode,
       paused |-> paused, seen |-> {}, unpaused |-> FALSE]
<1>1. PICK m \in Candidates(mandate') :
        handler' = Witnessed([handler EXCEPT ![h] = call(m)], mandate', paused)
  BY DEF BeginEvaluate
<1>2. m \in Mandates \cup {NULL}
  BY CandidatesAreMandates
<1>3. call(m) \in Calls
  BY <1>2 DEF Calls, TypeOK
<1>4. mandate' = Expired /\ UNCHANGED <<account, paused, today, decisions>>
  BY DEF BeginEvaluate
<1>5. h \in Requested
  BY DEF Requested
<1> HIDE DEF call
<1> QED
  BY <1>1, <1>3, <1>4, <1>5, ReadTyped

LEMMA MandateIsRead ==
  ASSUME TypeOK, NEW h \in Evaluators, ReadMandate(h)
  PROVE  TypeOK' /\ Change
<1> DEFINE m == handler[h].mandate
           call == [op |-> "DECIDE", envelope |-> handler[h].envelope, mandate |-> m, mode |-> handler[h].mode,
                    paused |-> handler[h].paused, seen |-> handler[h].seen, unpaused |-> handler[h].unpaused,
                    status |-> IF m = NULL THEN NULL ELSE Expired[m].status,
                    revision |-> IF m = NULL THEN 0 ELSE Len(Expired[m].revisions)]
<1>1. h \in Requested /\ handler[h] \in Calls /\ handler[h].op = "EVALUATE"
  BY DEF TypeOK, ReadMandate, Requested
<1>2. /\ handler[h].envelope \in Envelopes /\ m \in Mandates \cup {NULL}
      /\ handler[h].mode \in AccountModes \cup {NULL} /\ handler[h].paused \in BOOLEAN
      /\ handler[h].seen \in SUBSET (Mandates \X Nat) /\ handler[h].unpaused \in BOOLEAN
  BY <1>1, CallTyped
<1>3. m # NULL => Expired[m].status \in Statuses /\ Len(Expired[m].revisions) \in Nat
  BY <1>2, TypeParts, ExpiredChange
<1>4. call \in Calls
  <2>1. call.status \in Statuses \cup {NULL} /\ call.revision \in Nat
    BY <1>3
  <2> QED
    BY <1>2, <2>1 DEF Calls
<1>5. /\ mandate' = Expired /\ UNCHANGED <<account, paused, today, decisions>>
      /\ handler' = Witnessed([handler EXCEPT ![h] = call], mandate', paused)
  BY DEF ReadMandate
<1> HIDE DEF call
<1> QED
  BY <1>1, <1>4, <1>5, ReadTyped

LEMMA Decided ==
  ASSUME TypeOK, NEW h \in Evaluators, evaluateAuthority(h)
  PROVE  TypeOK' /\ UNCHANGED <<mandate, account>>
<1> DEFINE r == handler[h]
           m == r.mandate
           p == IF m = NULL THEN NULL ELSE mandate[m].revisions[r.revision]
           allowed == evaluateAuthorityPolicy(m, r.status, p, r.envelope, r.mode, r.paused) = "ALLOWED"
           row == [mandate |-> m, revision |-> r.revision, envelope |-> r.envelope, used |-> NULL,
                   grounded |-> <<m, r.revision>> \in r.seen /\ r.unpaused]
<1>1. r \in Calls /\ r.op = "DECIDE"
  BY DEF TypeOK, evaluateAuthority
<1>2. /\ handler' = [handler EXCEPT ![h] = Idle]
      /\ UNCHANGED <<mandate, account, paused, today>>
      /\ decisions' = IF ~allowed THEN decisions ELSE Append(decisions, row)
  BY DEF evaluateAuthority
<1>3. allowed => m # NULL
  BY DEF evaluateAuthorityPolicy
<1> HIDE DEF allowed
<1>4. allowed => row \in Allowances
  BY <1>1, <1>3, CallTyped DEF Allowances
<1> HIDE DEF row
<1>5. decisions' \in Seq(Allowances)
  BY <1>2, <1>4 DEF TypeOK
<1>6. handler' \in [Handlers \cup Evaluators -> Calls]
  BY <1>2 DEF TypeOK, Calls
<1> QED
  BY <1>2, <1>5, <1>6 DEF TypeOK

LEMMA UsageRecorded ==
  ASSUME TypeOK, NEW i \in DOMAIN decisions, recordAuthorityUsage(i)
  PROVE  TypeOK' /\ UNCHANGED <<mandate, account>>
<1>1. decisions' \in Seq(Allowances)
  <2>1. decisions \in Seq(Allowances) /\ decisions[i] \in Allowances /\ today \in 0 .. LastDay
    BY DEF TypeOK
  <2>2. [decisions[i] EXCEPT !.used = today] \in Allowances
    BY <2>1 DEF Allowances
  <2>3. decisions' = [decisions EXCEPT ![i] = [decisions[i] EXCEPT !.used = today]]
    BY DEF recordAuthorityUsage
  <2> HIDE DEF Allowances
  <2> QED
    BY <2>1, <2>2, <2>3
<1> QED
  BY <1>1 DEF TypeOK, recordAuthorityUsage

-----------------------------------------------------------------------------
\* What every step is, for the theorems: one of the changes of the mandates,
\* in a well-typed state, that leaves the mode of the account.
LEMMA StepIsChange ==
  ASSUME TypeOK, [Next]_vars
  PROVE  TypeOK' /\ Change /\ account'.mode = account.mode
<1>0. MandateTypes /\ (mandate' = mandate => Change)
  BY TypeParts, UnchangedIsChange
<1>1. CASE UNCHANGED vars
  BY <1>0, <1>1 DEF vars, TypeOK
<1>2. CASE listMandates
  BY <1>0, <1>2, ExpiryIsChange, WriteTyped DEF listMandates, TypeOK
<1>3. ASSUME NEW m \in Mandates, NEW p \in Policies, NEW status \in {"DRAFT", "ACTIVE"},
             createMandate(m, p, status)
      PROVE  TypeOK' /\ Change /\ account' = account
  <2>1. Change
    BY <1>0, <1>3, CreateChange
  <2> QED
    BY <1>3, <2>1, WriteTyped DEF createMandate, TypeOK
<1>4. ASSUME NEW m \in Mandates, NEW p \in Policies, reviseMandate(m, p)
      PROVE  TypeOK' /\ Change /\ account' = account
  <2>1. Change
    BY <1>0, <1>4, ReviseChange
  <2> QED
    BY <1>4, <2>1, WriteTyped DEF reviseMandate, TypeOK
<1>5. ASSUME NEW h \in Handlers, NEW m \in Mandates, NEW to \in {"ACTIVE", "PAUSED", "REVOKED"},
             BeginSetMandateStatus(h, m, to)
      PROVE  TypeOK' /\ Change /\ account' = account
  BY <1>5, StatusBegins DEF BeginSetMandateStatus
<1>6. ASSUME NEW h \in Handlers, setMandateStatus(h)
      PROVE  TypeOK' /\ Change /\ account' = account
  BY <1>6, StatusEnds DEF setMandateStatus
<1>7. CASE revokeAllMandates
  BY <1>0, <1>7, RevokeAllChange, WriteTyped DEF revokeAllMandates, TypeOK
<1>8. CASE setAutonomousExecutionPaused
  <2>1. paused' \in BOOLEAN /\ mandate' = mandate
    BY <1>8 DEF setAutonomousExecutionPaused, TypeOK
  <2> QED
    BY <1>0, <1>8, <2>1, WriteTyped DEF setAutonomousExecutionPaused
<1>9. ASSUME NEW h \in Evaluators, NEW e \in Envelopes, BeginEvaluate(h, e)
      PROVE  TypeOK' /\ Change /\ account' = account
  BY <1>9, EvaluateBegins DEF BeginEvaluate
<1>10. ASSUME NEW h \in Evaluators, ReadMandate(h) PROVE TypeOK' /\ Change /\ account' = account
  BY <1>10, MandateIsRead DEF ReadMandate
<1>11. ASSUME NEW h \in Evaluators, evaluateAuthority(h) PROVE TypeOK' /\ Change /\ account' = account
  BY <1>0, <1>11, Decided
<1>12. ASSUME NEW i \in DOMAIN decisions, recordAuthorityUsage(i)
       PROVE  TypeOK' /\ Change /\ account' = account
  BY <1>0, <1>12, UsageRecorded
<1>13. CASE NextDay
  BY <1>0, <1>13, LastDayAssumption DEF NextDay, TypeOK
<1> QED
  BY <1>0, <1>1, <1>2, <1>3, <1>4, <1>5, <1>6, <1>7, <1>8, <1>9, <1>10, <1>11, <1>12, <1>13,
     AccountTyped DEF Next

-----------------------------------------------------------------------------
(* Theorems                                                                *)

\* Mandates, decisions and requests stay well-formed, and a worker and an
\* account have one mandate that is drafted or stands.
THEOREM TypeCorrect == Spec => []TypeOK
<1>1. TypeOK /\ [Next]_vars => TypeOK'
  BY StepIsChange
<1> QED
  BY TypeInit, <1>1, PTL DEF Spec

LEMMA StandingStep ==
  ASSUME TypeOK, StandingActIsBounded, [Next]_vars
  PROVE  StandingActIsBounded'
<1> DEFINE Bounded(p) ==
      p.level = "ACT_WITHIN_MANDATE" =>
        /\ account.mode = "agent-account" /\ p.assetList
        /\ NULL \notin {p.perAction, p.budget, p.until}
<1>1. Change /\ account'.mode = account.mode /\ MandateTypes
  BY StepIsChange, TypeParts
<1>2. \A p : Ready(p) => Bounded(p)
  BY DEF Ready
<1>3. \A m \in Mandates : mandate[m].status \in {"ACTIVE", "PAUSED"} => Bounded(Current(m))
  BY DEF StandingActIsBounded
<1> HIDE DEF Bounded
<1>4. ASSUME NEW m \in Mandates, mandate'[m].status \in {"ACTIVE", "PAUSED"}
      PROVE  Bounded(Current(m)')
  <2>1. CASE Kept(m) \/ Moved(m)
    BY <1>2, <1>3, <1>4, <2>1 DEF Kept, Moved, Current
  <2>2. ASSUME NEW p \in Policies, Written1(m, p) PROVE Bounded(Current(m)')
    <3>1. Current(m)' = p
      BY <2>2, <1>1 DEF MandateTypes, Written1, Current
    <3> QED
      BY <1>2, <1>4, <2>2, <3>1 DEF Written1
  <2> QED
    BY <1>1, <2>1, <2>2 DEF Change, Written1
<1> QED
  BY <1>1, <1>4 DEF StandingActIsBounded, Bounded

\* Whatever ACT mandate stands, or is only paused, is bounded.
THEOREM StandingIsBounded == Spec => []StandingActIsBounded
<1>1. Init => StandingActIsBounded
  BY DEF Init, StandingActIsBounded
<1>2. TypeOK /\ StandingActIsBounded /\ [Next]_vars => StandingActIsBounded'
  BY StandingStep
<1> QED
  BY <1>1, <1>2, TypeCorrect, PTL DEF Spec

\* A revoked mandate is never written again.
THEOREM RevokedIsFinal == Spec => RevokedStaysRevoked
<1>1. ASSUME TypeOK, [Next]_vars
      PROVE  \A m \in Mandates : mandate[m].status = "REVOKED" => mandate'[m] = mandate[m]
  BY <1>1, StepIsChange DEF Change, Kept, Moved, Written1
<1>2. TypeOK /\ [Next]_vars =>
        [\A m \in Mandates : mandate[m].status = "REVOKED" => mandate'[m] = mandate[m]]_vars
  BY <1>1
<1> QED
  BY <1>2, TypeCorrect, PTL DEF Spec, RevokedStaysRevoked

-----------------------------------------------------------------------------
(* What an evaluation rests on                                             *)

\* ms are the mandates and mode is the mode of the account.
Revision(ms, m, k) == m \in Mandates /\ k \in 1 .. Len(ms[m].revisions)

\* A request that read autonomy as not paused has seen it so, and one that
\* read an active mandate has seen that revision in force.
Sound(ms, mode, c) ==
    /\ c.op \in {"EVALUATE", "DECIDE"} => c.paused \/ c.unpaused
    /\ c.op = "DECIDE" /\ c.status = "ACTIVE" /\ c.mandate # NULL =>
         /\ Revision(ms, c.mandate, c.revision)
         /\ <<c.mandate, c.revision>> \in c.seen
         /\ ms[c.mandate].revisions[c.revision].level = "ACT_WITHIN_MANDATE" => mode = "agent-account"

Earned(ms, mode, d) ==
    d.envelope.operation = "EXECUTE" =>
      /\ d.grounded /\ Revision(ms, d.mandate, d.revision)
      /\ ms[d.mandate].revisions[d.revision].level = "ACT_WITHIN_MANDATE" /\ mode = "agent-account"

AInv ==
    /\ TypeOK /\ StandingActIsBounded
    /\ \A h \in Requested : Sound(mandate, account.mode, handler[h])
    /\ \A i \in DOMAIN decisions : Earned(mandate, account.mode, decisions[i])

\* Revisions are only added.
LEMMA RevisionsStay ==
  ASSUME MandateTypes, Change, NEW m, NEW k, Revision(mandate, m, k)
  PROVE  Revision(mandate', m, k) /\ mandate'[m].revisions[k] = mandate[m].revisions[k]
<1>1. mandate[m].revisions \in Seq(Policies)
  BY DEF MandateTypes, Revision
<1>2. CASE mandate'[m].revisions = mandate[m].revisions
  BY <1>2 DEF Revision
<1>3. CASE \E p \in Policies : mandate'[m].revisions = Append(mandate[m].revisions, p)
  BY <1>1, <1>3 DEF Revision
<1> QED
  BY <1>2, <1>3 DEF Change, Kept, Moved, Written1, Revision

LEMMA SoundStays ==
  ASSUME MandateTypes, Change, account'.mode = account.mode, NEW c,
         Sound(mandate, account.mode, c)
  PROVE  Sound(mandate', account'.mode, c)
<1>1. CASE c.op = "DECIDE" /\ c.status = "ACTIVE" /\ c.mandate # NULL
  BY <1>1, RevisionsStay DEF Sound
<1> QED
  BY <1>1 DEF Sound

LEMMA EarnedStays ==
  ASSUME MandateTypes, Change, account'.mode = account.mode, NEW d,
         Earned(mandate, account.mode, d)
  PROVE  Earned(mandate', account'.mode, d)
<1>1. CASE d.envelope.operation = "EXECUTE"
  BY <1>1, RevisionsStay DEF Earned
<1> QED
  BY <1>1 DEF Earned

LEMMA WitnessedSound ==
  ASSUME NEW f \in [Requested -> Calls], NEW ms, NEW off, NEW mode,
         \A h \in Requested : Sound(ms, mode, f[h])
  PROVE  \A h \in Requested : Sound(ms, mode, Witnessed(f, ms, off)[h])
<1> SUFFICES ASSUME NEW h \in Requested PROVE Sound(ms, mode, Witnessed(f, ms, off)[h])
  OBVIOUS
<1>1. CASE f[h].op \notin {"EVALUATE", "DECIDE"}
  BY <1>1 DEF Witnessed
<1>2. CASE f[h].op \in {"EVALUATE", "DECIDE"}
  <2> DEFINE c == Witnessed(f, ms, off)[h]
  <2>1. c = [f[h] EXCEPT !.seen = @ \cup InForce(ms), !.unpaused = @ \/ ~off] /\ f[h] \in Calls
    BY <1>2 DEF Witnessed
  <2>2. CASE f[h].op = "EVALUATE"
    <3>1. c.op = "EVALUATE" /\ c.paused = f[h].paused /\ (f[h].unpaused => c.unpaused)
      BY <2>1, <2>2 DEF Calls, Idle
    <3> QED
      BY <2>2, <3>1 DEF Sound
  <2>3. CASE f[h].op = "DECIDE"
    <3>1. /\ c.op = "DECIDE" /\ c.paused = f[h].paused /\ (f[h].unpaused => c.unpaused)
          /\ c.mandate = f[h].mandate /\ c.revision = f[h].revision /\ c.status = f[h].status
          /\ f[h].seen \subseteq c.seen
      BY <2>1, <2>3 DEF Calls, Idle
    <3> QED
      BY <2>3, <3>1 DEF Sound
  <2> QED
    BY <1>2, <2>2, <2>3
<1> QED
  BY <1>1, <1>2

\* Every request is sound if the one is that a step has changed.
LEMMA RequestsSound ==
  ASSUME AInv, [Next]_vars, NEW h \in Requested, NEW f \in [Requested -> Calls], NEW off,
         Sound(mandate', account'.mode, f[h]), \A g \in Requested \ {h} : f[g] = handler[g]
  PROVE  /\ \A g \in Requested : Sound(mandate', account'.mode, f[g])
         /\ \A g \in Requested : Sound(mandate', account'.mode, Witnessed(f, mandate', off)[g])
<1>1. MandateTypes /\ Change /\ account'.mode = account.mode
  BY StepIsChange, TypeParts DEF AInv
<1>2. \A g \in Requested \ {h} : Sound(mandate, account.mode, handler[g])
  BY DEF AInv
<1>3. \A g \in Requested : Sound(mandate', account'.mode, f[g])
  BY <1>1, <1>2, SoundStays
<1> QED
  BY <1>3, WitnessedSound

\* What a step adds to the decisions is earned.
EarnsOnly == \/ decisions' = decisions
             \/ \E d \in Allowances : Earned(mandate', account'.mode, d) /\ decisions' = Append(decisions, d)
             \/ \E i \in DOMAIN decisions :
                  decisions' = [decisions EXCEPT ![i] = [decisions[i] EXCEPT !.used = today]]

LEMMA DecisionsEarned ==
  ASSUME AInv, [Next]_vars, EarnsOnly
  PROVE  \A i \in DOMAIN decisions' : Earned(mandate', account'.mode, decisions'[i])
<1>1. /\ MandateTypes /\ Change /\ account'.mode = account.mode
      /\ decisions \in Seq(Allowances)
  BY StepIsChange, TypeParts DEF AInv, TypeOK
<1>2. \A i \in DOMAIN decisions : Earned(mandate', account'.mode, decisions[i])
  BY <1>1, EarnedStays DEF AInv
<1>3. CASE decisions' = decisions
  BY <1>2, <1>3
<1>4. ASSUME NEW d \in Allowances, Earned(mandate', account'.mode, d), decisions' = Append(decisions, d)
      PROVE  \A i \in DOMAIN decisions' : Earned(mandate', account'.mode, decisions'[i])
  BY <1>1, <1>2, <1>4
<1>5. ASSUME NEW i \in DOMAIN decisions,
             decisions' = [decisions EXCEPT ![i] = [decisions[i] EXCEPT !.used = today]]
      PROVE  \A j \in DOMAIN decisions' : Earned(mandate', account'.mode, decisions'[j])
  <2>1. decisions[i] \in Allowances
    BY <1>1
  <2>2. Earned(mandate', account'.mode, [decisions[i] EXCEPT !.used = today])
    BY <1>2, <2>1 DEF Earned, Allowances
  <2> QED
    BY <1>1, <1>2, <1>5, <2>2
<1> QED
  BY <1>3, <1>4, <1>5 DEF EarnsOnly

LEMMA CallsSound ==
  ASSUME AInv, [Next]_vars, NEW h \in Requested, NEW call \in Calls, NEW off,
         Sound(mandate', account'.mode, call),
         \/ handler' = [handler EXCEPT ![h] = call]
         \/ handler' = Witnessed([handler EXCEPT ![h] = call], mandate', off)
  PROVE  \A g \in Requested : Sound(mandate', account'.mode, handler'[g])
<1> DEFINE f == [handler EXCEPT ![h] = call]
<1>1. f \in [Requested -> Calls] /\ f[h] = call /\ \A g \in Requested \ {h} : f[g] = handler[g]
  BY DEF AInv, TypeOK, Requested
<1> HIDE DEF f
<1>2. /\ \A g \in Requested : Sound(mandate', account'.mode, f[g])
      /\ \A g \in Requested : Sound(mandate', account'.mode, Witnessed(f, mandate', off)[g])
  BY <1>1, RequestsSound
<1> QED
  BY <1>2 DEF f

\* A request that is neither evaluated nor decided is sound.
LEMMA OthersSound ==
  ASSUME NEW ms, NEW mode, NEW c, c.op \notin {"EVALUATE", "DECIDE"}
  PROVE  Sound(ms, mode, c)
  BY DEF Sound

\* A step that leaves requests, or only shows them what is in force.
LEMMA WritesSound ==
  ASSUME AInv, [Next]_vars, NEW off,
         handler' = handler \/ handler' = Witnessed(handler, mandate', off)
  PROVE  \A g \in Requested : Sound(mandate', account'.mode, handler'[g])
<1> SUFFICES ASSUME NEW g \in Requested PROVE Sound(mandate', account'.mode, handler'[g])
  OBVIOUS
<1>1. /\ handler[g] \in Calls /\ [handler EXCEPT ![g] = handler[g]] = handler
      /\ Sound(mandate, account.mode, handler[g])
  BY DEF AInv, TypeOK, Requested
<1>2. Sound(mandate', account'.mode, handler[g])
  BY <1>1, StepIsChange, TypeParts, SoundStays DEF AInv
<1> QED
  BY <1>1, <1>2, CallsSound

LEMMA EvaluateSound ==
  ASSUME AInv, NEW h \in Evaluators, NEW e \in Envelopes, BeginEvaluate(h, e)
  PROVE  \A g \in Requested : Sound(mandate', account'.mode, handler'[g])
<1> DEFINE call(m) ==
      [op |-> "EVALUATE", envelope |-> e, mandate |-> m,
       mode |-> IF account.removed THEN NULL ELSE account.mode,
       paused |-> paused, seen |-> {}, unpaused |-> FALSE]
           seen(m) == [call(m) EXCEPT !.unpaused = ~paused]
<1>1. PICK m \in Candidates(mandate') :
        handler' = Witnessed([handler EXCEPT ![h] = call(m)], mandate', paused)
  BY DEF BeginEvaluate
<1>2. m \in Mandates \cup {NULL} /\ paused \in BOOLEAN
  BY CandidatesAreMandates DEF AInv, TypeOK
<1>3. call(m) \in Calls
  BY <1>2 DEF Calls, AInv, TypeOK
<1>4. [Next]_vars /\ h \in Requested
  BY DEF Next, Requested
<1>5. handler'[h] = [call(m) EXCEPT !.seen = @ \cup InForce(mandate'), !.unpaused = @ \/ ~paused]
  BY <1>1, <1>4 DEF Witnessed, AInv, TypeOK, Requested
<1>6. Sound(mandate', account'.mode, handler'[h])
  <2>1. handler'[h].op = "EVALUATE" /\ handler'[h].paused = paused /\ (~paused => handler'[h].unpaused)
    BY <1>5
  <2> QED
    BY <2>1 DEF Sound
<1>7. ASSUME NEW g \in Requested \ {h} PROVE Sound(mandate', account'.mode, handler'[g])
  <2>1. Sound(mandate', account'.mode, Witnessed(handler, mandate', paused)[g])
    <3>1. \A u \in Requested : Sound(mandate', account'.mode, handler[u])
      BY <1>4, StepIsChange, TypeParts, SoundStays DEF AInv
    <3> QED
      BY <3>1, WitnessedSound DEF AInv, TypeOK, Requested
  <2>2. handler'[g] = Witnessed(handler, mandate', paused)[g]
    BY <1>1, <1>4 DEF Witnessed, AInv, TypeOK, Requested
  <2> QED
    BY <2>1, <2>2
<1> QED
  BY <1>6, <1>7

\* getMandate: an active mandate is in force in the state it is read in.
LEMMA ReadSound ==
  ASSUME AInv, NEW h \in Evaluators, ReadMandate(h)
  PROVE  \A g \in Requested : Sound(mandate', account'.mode, handler'[g])
<1> DEFINE m == handler[h].mandate
           call == [op |-> "DECIDE", envelope |-> handler[h].envelope, mandate |-> m,
                    mode |-> handler[h].mode, paused |-> handler[h].paused,
                    seen |-> handler[h].seen, unpaused |-> handler[h].unpaused,
                    status |-> IF m = NULL THEN NULL ELSE Expired[m].status,
                    revision |-> IF m = NULL THEN 0 ELSE Len(Expired[m].revisions)]
<1>1. /\ handler[h].op = "EVALUATE" /\ mandate' = Expired
      /\ h \in Requested /\ handler[h] \in Calls /\ handler \in [Requested -> Calls]
  BY DEF ReadMandate, AInv, TypeOK, Requested
<1>2. handler' = Witnessed([handler EXCEPT ![h] = call], mandate', paused)
  BY <1>1 DEF ReadMandate, Requested
<1>3. [Next]_vars
  BY DEF Next
<1>4. StandingActIsBounded' /\ MandateTypes'
  <2>1. TypeOK /\ StandingActIsBounded
    BY DEF AInv
  <2>2. TypeOK' /\ StandingActIsBounded'
    BY <1>3, <2>1, StandingStep, StepIsChange
  <2> QED
    BY <2>2 DEF TypeOK, MandateTypes
<1>5. handler[h].paused \/ handler[h].unpaused
  BY <1>1 DEF AInv, Sound
<1>6. handler'[h] = [call EXCEPT !.seen = @ \cup InForce(mandate'), !.unpaused = @ \/ ~paused]
  BY <1>1, <1>2 DEF Witnessed
<1>7. Sound(mandate', account'.mode, handler'[h])
  <2>0. /\ handler'[h].op = "DECIDE" /\ handler'[h].mandate = m
        /\ handler'[h].paused = handler[h].paused
        /\ handler'[h].unpaused = (handler[h].unpaused \/ ~paused)
        /\ handler'[h].seen = handler[h].seen \cup InForce(mandate')
        /\ handler'[h].status = IF m = NULL THEN NULL ELSE Expired[m].status
        /\ handler'[h].revision = IF m = NULL THEN 0 ELSE Len(Expired[m].revisions)
    BY <1>6
  <2>1. /\ handler'[h].op = "DECIDE" /\ handler'[h].mandate = m
        /\ handler'[h].paused \/ handler'[h].unpaused
        /\ InForce(mandate') \subseteq handler'[h].seen
        /\ m # NULL => /\ handler'[h].status = mandate'[m].status
                       /\ handler'[h].revision = Len(mandate'[m].revisions)
    <3>1. handler'[h].paused \/ handler'[h].unpaused
      BY <1>5, <2>0
    <3>2. InForce(mandate') \subseteq handler'[h].seen
      BY <2>0
    <3> QED
      BY <1>1, <2>0, <3>1, <3>2
  <2>2. m \in Mandates \cup {NULL}
    BY <1>1, CallTyped
  <2>3. ASSUME m # NULL, mandate'[m].status = "ACTIVE"
        PROVE  /\ Revision(mandate', m, Len(mandate'[m].revisions))
               /\ <<m, Len(mandate'[m].revisions)>> \in InForce(mandate')
               /\ mandate'[m].revisions[Len(mandate'[m].revisions)].level = "ACT_WITHIN_MANDATE" =>
                    account'.mode = "agent-account"
    <3>1. mandate'[m].revisions \in Seq(Policies) /\ mandate'[m].revisions # <<>>
      BY <1>4, <2>2, <2>3 DEF MandateTypes
    <3>2. Len(mandate'[m].revisions) \in 1 .. Len(mandate'[m].revisions)
      BY <3>1
    <3>3. m \in Mandates
      BY <2>2, <2>3
    <3>4. mandate'[m].revisions[Len(mandate'[m].revisions)].level = "ACT_WITHIN_MANDATE" =>
            account'.mode = "agent-account"
      BY <1>4, <2>3, <3>3 DEF StandingActIsBounded, Current
    <3>5. <<m, Len(mandate'[m].revisions)>> \in InForce(mandate')
      BY <2>3, <3>3 DEF InForce
    <3> QED
      BY <3>2, <3>3, <3>4, <3>5 DEF Revision
  <2>4. ASSUME handler'[h].status = "ACTIVE", m # NULL
        PROVE  /\ Revision(mandate', m, handler'[h].revision)
               /\ <<m, handler'[h].revision>> \in handler'[h].seen
               /\ mandate'[m].revisions[handler'[h].revision].level = "ACT_WITHIN_MANDATE" =>
                    account'.mode = "agent-account"
    BY <2>1, <2>3, <2>4
  <2> QED
    BY <2>1, <2>4 DEF Sound
<1>8. ASSUME NEW g \in Requested \ {h} PROVE Sound(mandate', account'.mode, handler'[g])
  <2>1. \A u \in Requested : Sound(mandate', account'.mode, handler[u])
    BY <1>3, StepIsChange, TypeParts, SoundStays DEF AInv
  <2>2. Sound(mandate', account'.mode, Witnessed(handler, mandate', paused)[g])
    BY <1>1, <2>1, WitnessedSound
  <2>3. handler'[g] = Witnessed(handler, mandate', paused)[g]
    BY <1>1, <1>2 DEF Witnessed
  <2> QED
    BY <2>2, <2>3
<1> QED
  BY <1>7, <1>8

\* An allowed execution is earned by what the request has read.
LEMMA AllowedIsEarned ==
  ASSUME AInv, NEW h \in Evaluators, evaluateAuthority(h)
  PROVE  EarnsOnly
<1> DEFINE r == handler[h]
           m == r.mandate
           p == mandate[m].revisions[r.revision]
           row == [mandate |-> m, revision |-> r.revision, envelope |-> r.envelope, used |-> NULL,
                   grounded |-> <<m, r.revision>> \in r.seen /\ r.unpaused]
<1>1. r.op = "DECIDE" /\ r \in Calls /\ Sound(mandate, account.mode, r) /\ MandateTypes
  BY TypeParts DEF evaluateAuthority, AInv, TypeOK, Requested
<1>2. mandate' = mandate /\ account' = account
  BY DEF evaluateAuthority
<1>3. CASE decisions' = decisions
  BY <1>3 DEF EarnsOnly
<1>4. CASE decisions' # decisions
  <2>1. m # NULL /\ decisions' = Append(decisions, row)
    BY <1>4 DEF evaluateAuthority, evaluateAuthorityPolicy
  <2>2. ~Denied(r.status, p, r.envelope, r.mode, Spent(m))
    BY <1>4, <2>1 DEF evaluateAuthority, evaluateAuthorityPolicy
  <2>3. ~NeedsApproval(p, r.envelope, r.mode, r.paused)
    BY <1>4, <2>1 DEF evaluateAuthority, evaluateAuthorityPolicy
  <2>4. r.status = "ACTIVE"
    BY <2>2 DEF Denied, Stands
  <2>5. Revision(mandate, m, r.revision) /\ <<m, r.revision>> \in r.seen
    BY <1>1, <2>1, <2>4 DEF Sound
  <2>6. p \in Policies
    BY <1>1, <2>5 DEF MandateTypes, Revision
  <2>7. ASSUME r.envelope.operation = "EXECUTE"
        PROVE  p.level = "ACT_WITHIN_MANDATE" /\ ~r.paused
    <3>1. p.level # "PREPARE" /\ ~r.paused
      BY <2>3, <2>7 DEF NeedsApproval
    <3>2. p.level # "OBSERVE"
      BY <2>2, <2>7 DEF Denied
    <3> QED
      BY <2>6, <3>1, <3>2, PoliciesAssumption
  <2>8. ASSUME r.envelope.operation = "EXECUTE"
        PROVE  r.unpaused /\ account.mode = "agent-account"
    BY <1>1, <2>1, <2>4, <2>7, <2>8 DEF Sound
  <2>9. /\ row.envelope = r.envelope /\ row.mandate = m /\ row.revision = r.revision
        /\ row.grounded = (<<m, r.revision>> \in r.seen /\ r.unpaused)
    OBVIOUS
  <2>10. Earned(mandate, account.mode, row)
    BY <2>5, <2>7, <2>8, <2>9 DEF Earned
  <2>11. row \in Allowances
    BY <1>1, <2>5, CallTyped DEF Allowances, Revision
  <2> QED
    BY <1>2, <2>1, <2>10, <2>11 DEF EarnsOnly
<1> QED
  BY <1>3, <1>4

LEMMA SoundStep ==
  ASSUME AInv, [Next]_vars
  PROVE  EarnsOnly /\ \A g \in Requested : Sound(mandate', account'.mode, handler'[g])
<1> DEFINE AllSound == \A g \in Requested : Sound(mandate', account'.mode, handler'[g])
<1>2. Idle \in Calls /\ Handlers \subseteq Requested /\ Evaluators \subseteq Requested
  BY DEF Calls, Requested
<1>3. CASE \/ listMandates \/ revokeAllMandates \/ setAutonomousExecutionPaused \/ NextDay \/ UNCHANGED vars
           \/ \E m \in Mandates, p \in Policies : \E status \in {"DRAFT", "ACTIVE"} : createMandate(m, p, status)
           \/ \E m \in Mandates, p \in Policies : reviseMandate(m, p)
  <2>1. decisions' = decisions
    BY <1>3 DEF listMandates, revokeAllMandates, setAutonomousExecutionPaused, NextDay, vars,
                createMandate, reviseMandate
  <2>2. \/ handler' = handler
        \/ handler' = Witnessed(handler, mandate', paused)
        \/ handler' = Witnessed(handler, mandate', paused')
    BY <1>3 DEF listMandates, revokeAllMandates, setAutonomousExecutionPaused, NextDay, vars,
                createMandate, reviseMandate
  <2> QED
    BY <2>1, <2>2, WritesSound DEF EarnsOnly
<1>4. ASSUME NEW h \in Handlers, NEW call \in Calls, call.op \notin {"EVALUATE", "DECIDE"},
             \/ handler' = [handler EXCEPT ![h] = call]
             \/ handler' = Witnessed([handler EXCEPT ![h] = call], mandate', paused)
      PROVE  AllSound
  BY <1>2, <1>4, OthersSound, CallsSound
<1>5. CASE \E h \in Handlers, m \in Mandates : \E to \in {"ACTIVE", "PAUSED", "REVOKED"} :
             BeginSetMandateStatus(h, m, to)
  <2>1. PICK h \in Handlers, m \in Mandates, to \in {"ACTIVE", "PAUSED", "REVOKED"} :
          BeginSetMandateStatus(h, m, to)
    BY <1>5
  <2> DEFINE call == [op |-> "STATUS", mandate |-> m, to |-> to, revision |-> Len(mandate[m].revisions)]
  <2>2. call \in Calls
    BY DEF AInv, TypeOK, Calls, Statuses
  <2>3. call.op = "STATUS"
    OBVIOUS
  <2>4. handler' = Witnessed([handler EXCEPT ![h] = call], mandate', paused) /\ decisions' = decisions
    BY <2>1 DEF BeginSetMandateStatus
  <2> HIDE DEF call
  <2> QED
    BY <1>4, <2>2, <2>3, <2>4 DEF EarnsOnly
<1>6. CASE \E h \in Handlers : setMandateStatus(h) \/ updateWallet(h) \/ observeWalletNetwork(h)
  <2>1. PICK h \in Handlers : setMandateStatus(h) \/ updateWallet(h) \/ observeWalletNetwork(h)
    BY <1>6
  <2>2. /\ \/ handler' = [handler EXCEPT ![h] = Idle]
           \/ handler' = Witnessed([handler EXCEPT ![h] = Idle], mandate', paused)
        /\ decisions' = decisions /\ Idle.op \notin {"EVALUATE", "DECIDE"}
    BY <2>1 DEF setMandateStatus, updateWallet, observeWalletNetwork, Idle
  <2> QED
    BY <1>2, <1>4, <2>2 DEF EarnsOnly
<1>7. CASE \E h \in Handlers : BeginObserveWallet(h) \/ \E listed \in BOOLEAN : BeginUpdateWallet(h, listed)
  <2>1. PICK h \in Handlers : BeginObserveWallet(h) \/ \E listed \in BOOLEAN : BeginUpdateWallet(h, listed)
    BY <1>7
  <2>2. [op |-> "OBSERVE"] \in Calls /\ \A listed \in BOOLEAN : [op |-> "WALLET", listed |-> listed] \in Calls
    BY DEF Calls
  <2>4. ASSUME BeginObserveWallet(h) PROVE AllSound
    <3>1. handler' = [handler EXCEPT ![h] = [op |-> "OBSERVE"]]
      BY <2>4 DEF BeginObserveWallet
    <3> QED
      BY <1>4, <2>2, <3>1
  <2>5. ASSUME NEW listed \in BOOLEAN, BeginUpdateWallet(h, listed) PROVE AllSound
    <3>1. handler' = [handler EXCEPT ![h] = [op |-> "WALLET", listed |-> listed]]
      BY <2>5 DEF BeginUpdateWallet
    <3> QED
      BY <1>4, <2>2, <3>1
  <2>3. decisions' = decisions
    BY <2>1 DEF BeginObserveWallet, BeginUpdateWallet
  <2>6. AllSound
    BY <2>1, <2>4, <2>5
  <2> QED
    BY <2>3, <2>6 DEF EarnsOnly
<1>8. CASE \E h \in Evaluators, e \in Envelopes : BeginEvaluate(h, e)
  <2>1. decisions' = decisions
    BY <1>8 DEF BeginEvaluate
  <2> QED
    BY <1>8, <2>1, EvaluateSound DEF EarnsOnly
<1>9. CASE \E h \in Evaluators : ReadMandate(h)
  <2>1. decisions' = decisions
    BY <1>9 DEF ReadMandate
  <2> QED
    BY <1>9, <2>1, ReadSound DEF EarnsOnly
<1>10. CASE \E h \in Evaluators : evaluateAuthority(h)
  <2>1. PICK h \in Evaluators : evaluateAuthority(h)
    BY <1>10
  <2>2. handler' = [handler EXCEPT ![h] = Idle] /\ Idle.op \notin {"EVALUATE", "DECIDE"}
    BY <2>1 DEF evaluateAuthority, Idle
  <2>3. AllSound
    BY <1>2, <2>2, OthersSound, CallsSound
  <2> QED
    BY <2>1, <2>3, AllowedIsEarned
<1>11. CASE \E i \in DOMAIN decisions : recordAuthorityUsage(i)
  <2>1. handler' = handler /\ EarnsOnly
    BY <1>11 DEF recordAuthorityUsage, EarnsOnly
  <2> QED
    BY <2>1, WritesSound
<1> QED
  BY <1>3, <1>5, <1>6, <1>7, <1>8, <1>9, <1>10, <1>11 DEF Next

LEMMA AuthorityStep == AInv /\ [Next]_vars => AInv'
<1> SUFFICES ASSUME AInv, [Next]_vars PROVE AInv'
  OBVIOUS
<1>1. TypeOK' /\ StandingActIsBounded'
  BY StepIsChange, StandingStep DEF AInv
<1> QED
  BY <1>1, SoundStep, DecisionsEarned DEF AInv

LEMMA AuthorityInvariant == Spec => []AInv
<1>1. Init => AInv
  <2> SUFFICES ASSUME Init PROVE AInv
    OBVIOUS
  <2>1. TypeOK /\ StandingActIsBounded
    BY TypeInit DEF Init, StandingActIsBounded
  <2>2. \A h \in Requested : Sound(mandate, account.mode, handler[h])
    BY OthersSound DEF Init, Requested, Idle
  <2>3. DOMAIN decisions = {}
    BY DEF Init
  <2> QED
    BY <2>1, <2>2, <2>3 DEF AInv
<1> QED
  BY <1>1, AuthorityStep, PTL DEF Spec

\* An allowed execution rests on a revision in force, with autonomy not paused,
\* at some time since it was asked for.
THEOREM AllowedRestsOnAuthority == Spec => []AllowedIsGrounded
<1>1. AInv => AllowedIsGrounded
  BY DEF AInv, AllowedIsGrounded, Earned
<1> QED
  BY <1>1, AuthorityInvariant, PTL

\* Only an ACT mandate over an Agent Account executes without a human.
THEOREM AgentAccountsActAlone == Spec => []OnlyAgentAccountsAct
<1>1. AInv => OnlyAgentAccountsAct
  BY DEF AInv, OnlyAgentAccountsAct, Earned
<1> QED
  BY <1>1, AuthorityInvariant, PTL

-----------------------------------------------------------------------------
(* What decisions consume                                                  *)

Rows(m) == {i \in DOMAIN decisions : decisions[i].mandate = m /\ decisions[i].used = today}

\* Only what has a value is consumed.
UsedIsValued ==
    \A i \in DOMAIN decisions : decisions[i].used # NULL => decisions[i].envelope.value # NULL

LEMMA ValueIsNat ==
  ASSUME TypeOK, NEW i \in DOMAIN decisions, decisions[i].envelope.value # NULL
  PROVE  decisions[i].envelope.value \in Nat
<1>1. decisions[i] \in Allowances
  BY DEF TypeOK
<1>2. decisions[i].envelope \in Envelopes
  BY <1>1 DEF Allowances
<1> QED
  BY <1>2, EnvelopesAssumption

LEMMA TodayIsNat == TypeOK => today \in Nat /\ today # NULL
  BY NullAssumption, LastDayAssumption DEF TypeOK

\* The rows of a mandate are finitely many, each with a value to add.
LEMMA RowsAreSummable ==
  ASSUME TypeOK, UsedIsValued, NEW m
  PROVE  /\ IsFiniteSet(Rows(m))
         /\ \A i \in Rows(m) : decisions[i].envelope.value \in Nat
         /\ Spent(m) = SumFunction([i \in Rows(m) |-> decisions[i].envelope.value])
         /\ Spent(m) \in Nat
<1> DEFINE f == [i \in Rows(m) |-> decisions[i].envelope.value]
<1>1. DOMAIN decisions = 1 .. Len(decisions) /\ Len(decisions) \in Nat
  BY LenProperties DEF TypeOK
<1>2. IsFiniteSet(DOMAIN decisions)
  BY <1>1, FS_Interval
<1>3. IsFiniteSet(Rows(m))
  BY <1>2, FS_Subset DEF Rows
<1>4. \A i \in Rows(m) : decisions[i].envelope.value \in Nat
  BY ValueIsNat, TodayIsNat DEF Rows, UsedIsValued
<1>5. Spent(m) = SumFunction(f)
  BY DEF Spent, Rows
<1>6. DOMAIN f = Rows(m) /\ \A i \in Rows(m) : f[i] = decisions[i].envelope.value
  OBVIOUS
<1> HIDE DEF f
<1>7. SumFunction(f) \in Nat
  BY <1>3, <1>4, <1>6, FunctionSumType
<1> QED
  BY <1>3, <1>4, <1>5, <1>7 DEF f

\* What a step does to the decisions.
LEMMA DecisionsStep ==
  ASSUME TypeOK, [Next]_vars
  PROVE  \/ UNCHANGED decisions
         \/ \E d \in Allowances : d.used = NULL /\ decisions' = Append(decisions, d) /\ UNCHANGED today
         \/ \E i \in DOMAIN decisions : recordAuthorityUsage(i)
<1>1. ASSUME NEW h \in Evaluators, evaluateAuthority(h), decisions' # decisions
      PROVE  \E d \in Allowances : d.used = NULL /\ decisions' = Append(decisions, d) /\ UNCHANGED today
  <2> DEFINE r == handler[h]
             m == r.mandate
             row == [mandate |-> m, revision |-> r.revision, envelope |-> r.envelope, used |-> NULL,
                     grounded |-> <<m, r.revision>> \in r.seen /\ r.unpaused]
  <2>1. r.op = "DECIDE" /\ r \in Calls /\ m # NULL /\ decisions' = Append(decisions, row) /\ UNCHANGED today
    BY <1>1 DEF evaluateAuthority, evaluateAuthorityPolicy, TypeOK
  <2>2. row \in Allowances /\ row.used = NULL
    BY <2>1, CallTyped DEF Allowances
  <2> HIDE DEF row
  <2> QED
    BY <2>1, <2>2
<1> QED
  BY <1>1 DEF Next, vars, listMandates, createMandate, reviseMandate, BeginSetMandateStatus,
     setMandateStatus, revokeAllMandates, setAutonomousExecutionPaused, BeginUpdateWallet, updateWallet,
     BeginObserveWallet, observeWalletNetwork, BeginEvaluate, ReadMandate, NextDay

\* One decision is consumed today, with its value.
Consumed(i) ==
    /\ decisions[i] \in Allowances /\ decisions[i].used = NULL
    /\ decisions[i].envelope.value \in Nat
    /\ DOMAIN decisions' = DOMAIN decisions
    /\ \A j \in DOMAIN decisions : j # i => decisions'[j] = decisions[j]
    /\ decisions'[i].mandate = decisions[i].mandate
    /\ decisions'[i].used = today
    /\ decisions'[i].envelope = decisions[i].envelope

LEMMA ConsumptionStep ==
  ASSUME TypeOK, NEW i \in DOMAIN decisions, recordAuthorityUsage(i)
  PROVE  Consumed(i)
<1>1. decisions \in Seq(Allowances) /\ decisions[i] \in Allowances
  BY DEF TypeOK
<1>2. /\ decisions[i].used = NULL /\ decisions[i].envelope.value # NULL
      /\ decisions' = [decisions EXCEPT ![i] = [decisions[i] EXCEPT !.used = today]]
  BY DEF recordAuthorityUsage
<1>3. /\ DOMAIN decisions' = DOMAIN decisions
      /\ decisions'[i] = [decisions[i] EXCEPT !.used = today]
      /\ \A j \in DOMAIN decisions : j # i => decisions'[j] = decisions[j]
  BY <1>1, <1>2
<1>4. /\ decisions'[i].mandate = decisions[i].mandate
      /\ decisions'[i].used = today
      /\ decisions'[i].envelope = decisions[i].envelope
  BY <1>1, <1>3 DEF Allowances
<1> QED
  BY <1>1, <1>2, <1>3, <1>4, ValueIsNat DEF Consumed

LEMMA UsedIsValuedStep ==
  ASSUME TypeOK, UsedIsValued, [Next]_vars
  PROVE  UsedIsValued'
<1>1. CASE UNCHANGED decisions
  BY <1>1 DEF UsedIsValued
<1>2. ASSUME NEW d \in Allowances, d.used = NULL, decisions' = Append(decisions, d)
      PROVE  UsedIsValued'
  BY <1>2 DEF UsedIsValued, TypeOK
<1>3. ASSUME NEW i \in DOMAIN decisions, recordAuthorityUsage(i)
      PROVE  UsedIsValued'
  <2>1. decisions[i].envelope.value # NULL /\ Consumed(i)
    BY <1>3, ConsumptionStep DEF recordAuthorityUsage
  <2> QED
    BY <2>1 DEF UsedIsValued, Consumed
<1> QED
  BY <1>1, <1>2, <1>3, DecisionsStep

\* A decision that is not consumed leaves what every mandate has spent.
LEMMA SameRowsSameSpent ==
  ASSUME TypeOK, TypeOK', UsedIsValued, UsedIsValued', NEW m,
         Rows(m)' = Rows(m),
         \A i \in Rows(m) : decisions'[i].envelope = decisions[i].envelope
  PROVE  Spent(m)' = Spent(m)
<1> DEFINE f == [i \in Rows(m) |-> decisions[i].envelope.value]
           g == [i \in Rows(m)' |-> decisions'[i].envelope.value]
<1>1. DOMAIN f = Rows(m) /\ DOMAIN g = Rows(m) /\ \A i \in Rows(m) : g[i] = f[i]
  OBVIOUS
<1>2. IsFiniteSet(Rows(m)) /\ Spent(m) = SumFunction(f)
  BY RowsAreSummable
<1>3. Spent(m)' = SumFunction(g)
  BY DEF Spent, Rows
<1> HIDE DEF f, g
<1> QED
  BY <1>1, <1>2, <1>3, FunctionSumSame

\* A decision that is consumed adds its value to what its mandate has spent,
\* and nothing else changes what is spent within a day.
LEMMA SpentStep ==
  ASSUME TypeOK, TypeOK', UsedIsValued, UsedIsValued', [Next]_vars, today' = today, NEW m \in Mandates
  PROVE  \/ Spent(m)' = Spent(m)
         \/ \E i \in DOMAIN decisions :
              /\ recordAuthorityUsage(i) /\ decisions[i].mandate = m
              /\ Spent(m)' = Spent(m) + decisions[i].envelope.value
<1>1. CASE UNCHANGED decisions
  <2>1. Rows(m)' = Rows(m)
    BY <1>1 DEF Rows
  <2> QED
    BY <1>1, <2>1, SameRowsSameSpent
<1>2. ASSUME NEW d \in Allowances, d.used = NULL, decisions' = Append(decisions, d)
      PROVE  Spent(m)' = Spent(m)
  <2>1. /\ DOMAIN decisions' = DOMAIN decisions \cup {Len(decisions) + 1}
        /\ decisions'[Len(decisions) + 1] = d
        /\ \A i \in DOMAIN decisions : decisions'[i] = decisions[i]
    BY <1>2 DEF TypeOK
  <2>2. Rows(m)' = Rows(m)
    BY <1>2, <2>1, TodayIsNat DEF Rows
  <2>3. \A i \in Rows(m) : decisions'[i].envelope = decisions[i].envelope
    BY <2>1 DEF Rows
  <2> QED
    BY <2>2, <2>3, SameRowsSameSpent
<1>3. ASSUME NEW i \in DOMAIN decisions, recordAuthorityUsage(i), decisions[i].mandate # m
      PROVE  Spent(m)' = Spent(m)
  <2>1. Consumed(i)
    BY <1>3, ConsumptionStep
  <2>2. Rows(m)' = Rows(m)
    BY <1>3, <2>1 DEF Rows, Consumed
  <2>3. \A j \in Rows(m) : decisions'[j].envelope = decisions[j].envelope
    BY <2>1 DEF Rows, Consumed
  <2> QED
    BY <2>2, <2>3, SameRowsSameSpent
<1>4. ASSUME NEW i \in DOMAIN decisions, recordAuthorityUsage(i), decisions[i].mandate = m
      PROVE  Spent(m)' = Spent(m) + decisions[i].envelope.value
  <2> DEFINE f == [j \in Rows(m) |-> decisions[j].envelope.value]
             g == [j \in Rows(m)' |-> decisions'[j].envelope.value]
  <2>0. Consumed(i)
    BY <1>4, ConsumptionStep
  <2>1. i \notin Rows(m) /\ Rows(m)' = Rows(m) \cup {i}
    BY <1>4, <2>0, TodayIsNat DEF Rows, Consumed
  <2>2. \A j \in Rows(m) : decisions'[j] = decisions[j]
    BY <2>0, <2>1 DEF Rows, Consumed
  <2>3. DOMAIN f = Rows(m) /\ DOMAIN g = Rows(m) \cup {i} /\ \A j \in Rows(m) : g[j] = f[j]
    BY <2>1, <2>2
  <2>4. g[i] = decisions[i].envelope.value /\ g[i] \in Nat
    BY <2>0, <2>1 DEF Consumed
  <2>5. IsFiniteSet(Rows(m)) /\ Spent(m) = SumFunction(f) /\ \A j \in Rows(m) : f[j] \in Nat
    BY RowsAreSummable
  <2>6. Spent(m)' = SumFunction(g)
    BY DEF Spent, Rows
  <2> HIDE DEF f, g
  <2>7. \A j \in DOMAIN g : g[j] \in Nat
    BY <2>3, <2>4, <2>5
  <2>8. SumFunction(g) = SumFunction(f) + g[i]
    BY <2>1, <2>3, <2>5, <2>7, FunctionSumAdd
  <2> QED
    BY <2>4, <2>5, <2>6, <2>8
<1> QED
  BY <1>1, <1>2, <1>3, <1>4, DecisionsStep

\* Whatever was read when the decisions were made, what they consume within a
\* day stays within the budget of the mandate: recordAuthorityUsage locks the
\* mandate and adds up again.
THEOREM UsageStaysWithinBudget == Spec => UsageWithinBudget
<1> DEFINE Within == \A m \in Mandates :
             Spent(m)' > Spent(m) /\ today' = today => ~Exceeds(Spent(m)', Current(m).budget)
<1>1. Init => TypeOK /\ UsedIsValued
  BY TypeInit DEF Init, UsedIsValued
<1>2. TypeOK /\ UsedIsValued /\ [Next]_vars => (TypeOK /\ UsedIsValued)'
  BY StepIsChange, UsedIsValuedStep
<1>3. TypeOK /\ UsedIsValued /\ (TypeOK /\ UsedIsValued)' /\ [Next]_vars => Within
  <2> SUFFICES ASSUME TypeOK, UsedIsValued, TypeOK', UsedIsValued', [Next]_vars, NEW m \in Mandates,
                      Spent(m)' > Spent(m), today' = today
               PROVE  ~Exceeds(Spent(m)', Current(m).budget)
    OBVIOUS
  <2>1. Spent(m) \in Nat
    BY RowsAreSummable
  <2>2. PICK i \in DOMAIN decisions :
          /\ recordAuthorityUsage(i) /\ decisions[i].mandate = m
          /\ Spent(m)' = Spent(m) + decisions[i].envelope.value
    BY <2>1, SpentStep
  <2>3. FitsBudget(decisions[i])
    BY <2>2 DEF recordAuthorityUsage
  <2> QED
    BY <2>2, <2>3 DEF FitsBudget
<1>4. TypeOK /\ UsedIsValued /\ (TypeOK /\ UsedIsValued)' /\ [Next]_vars => [Within]_vars
  BY <1>3
<1> QED
  BY <1>1, <1>2, <1>4, PTL DEF Spec, UsageWithinBudget
=============================================================================
