------------------------------ MODULE Authority ------------------------------
(***************************************************************************)
(* Standing authority (packages/authority/src/index.ts) over one account   *)
(* (packages/wallets/src/index.ts): mandates with immutable revisions, the *)
(* global autonomy pause, the deterministic evaluation of an action, and   *)
(* the usage a decision consumes. All mandates here compete for the same   *)
(* worker, account and environment.                                        *)
(*                                                                         *)
(* Days are the unit of time: a validity ends and a period budget starts   *)
(* with a day. The items of a policy and of an envelope stand for the      *)
(* capability, network, asset, protocol, destination, borrowing and        *)
(* leverage the lists and flags name.                                      *)
(***************************************************************************)
EXTENDS Naturals, Sequences, Functions

CONSTANTS
    Mandates,        \* mandate rows that may be created
    Handlers,        \* API requests being served that write
    Evaluators,      \* callers of evaluateAuthority: the API, preparations and starts
    Policies,        \* policies users write
    Envelopes,       \* actions to evaluate
    AccountModes,    \* modes the account may have
    MainnetAutonomyEnabled, \* FALSE: the environment is mainnet and gated
    MaxRevisions,    \* bound: revisions of all mandates together
    MaxDecisions,    \* bound: ALLOWED rows of authority_decision
    LastDay,         \* bound: the last day
    NULL

ASSUME MaxRevisionsAssumption == MaxRevisions \in Nat \ {0}
ASSUME LastDayAssumption == LastDay \in Nat
ASSUME AccountModesAssumption == AccountModes \subseteq {"watch-only", "connected", "agent-account"}
ASSUME NullAssumption == NULL \notin Nat
ASSUME EnvelopesAssumption == \A e \in Envelopes : e.value \in Nat \cup {NULL}
ASSUME PoliciesAssumption ==
    \A p \in Policies :
      /\ p.level \in {"OBSERVE", "PREPARE", "ACT_WITHIN_MANDATE"}
      /\ p.approval \in {"ALWAYS", "THRESHOLD", "WITHIN_LIMITS"}
      /\ \A limit \in {p.capital, p.perAction, p.budget, p.threshold, p.until} : limit \in Nat \cup {NULL}

VARIABLES
    mandate,    \* [status, revisions] by mandate; the last revision is the current one
    account,    \* wallet_resource: [mode, listed, removed]: its status is not
                \* "removed", its removed_at is set
    paused,     \* authority_control_state.autonomous_execution_paused
    today,
    decisions,  \* the ALLOWED rows of authority_decision, each with its usage row
    handler     \* what each request is doing

vars == <<mandate, account, paused, today, decisions, handler>>

Statuses == {"NONE", "DRAFT", "ACTIVE", "PAUSED", "EXPIRED", "REVOKED"}
\* Statuses that hold the one place of a worker and an account.
Standing == {"DRAFT", "ACTIVE", "PAUSED"}
Idle == [op |-> "IDLE"]

Calls ==
    {Idle} \cup [op : {"OBSERVE"}] \cup [op : {"WALLET"}, listed : BOOLEAN]
      \cup [op : {"STATUS"}, mandate : Mandates, to : Statuses, revision : Nat]
      \cup [op : {"EVALUATE"}, envelope : Envelopes, mandate : Mandates \cup {NULL},
             mode : AccountModes \cup {NULL}, paused : BOOLEAN,
             seen : SUBSET (Mandates \X Nat), unpaused : BOOLEAN]
      \cup [op : {"DECIDE"}, envelope : Envelopes, mandate : Mandates \cup {NULL},
             mode : AccountModes \cup {NULL}, paused : BOOLEAN,
             seen : SUBSET (Mandates \X Nat), unpaused : BOOLEAN,
             status : Statuses \cup {NULL}, revision : Nat]
Allowances ==
    [mandate : Mandates, revision : Nat, envelope : Envelopes, used : 0 .. LastDay \cup {NULL},
     grounded : BOOLEAN]

TypeOK ==
    /\ mandate \in [Mandates -> [status : Statuses, revisions : Seq(Policies)]]
    /\ \A m \in Mandates : mandate[m].status = "NONE" <=> mandate[m].revisions = <<>>
    /\ \A m, n \in Mandates : {mandate[m].status, mandate[n].status} \subseteq Standing => m = n
    /\ account \in [mode : AccountModes, listed : BOOLEAN, removed : BOOLEAN]
    /\ paused \in BOOLEAN
    /\ today \in 0 .. LastDay
    /\ decisions \in Seq(Allowances)
    /\ handler \in [Handlers \cup Evaluators -> Calls]

Init ==
    /\ mandate = [m \in Mandates |-> [status |-> "NONE", revisions |-> <<>>]]
    /\ account \in [mode : AccountModes, listed : {TRUE}, removed : {FALSE}]
    /\ paused = FALSE
    /\ today = 0
    /\ decisions = <<>>
    /\ handler = [h \in Handlers \cup Evaluators |-> Idle]

-----------------------------------------------------------------------------
(* Policies and what an evaluation answers                                 *)

Current(m) == mandate[m].revisions[Len(mandate[m].revisions)]
Lapsed(p) == p.until # NULL /\ p.until <= today
Written == SumFunction([m \in Mandates |-> Len(mandate[m].revisions)])
Exceeds(value, limit) == value # NULL /\ limit # NULL /\ value > limit

\* Slip: the limits of an ACT mandate may be added later.
ReadySlip(p) == p.level = "ACT_WITHIN_MANDATE" => p.assetList /\ account.mode = "agent-account"

\* normalizePolicy with requireActivationReady, and the database's own guard.
Ready(p) ==
    /\ ~Lapsed(p)
    /\ p.level = "ACT_WITHIN_MANDATE" =>
         /\ p.assetList
         /\ account.mode = "agent-account"
         /\ p.perAction # NULL /\ p.budget # NULL /\ p.until # NULL

\* validateMandateReferences
References(p) ==
    /\ account.listed /\ ~account.removed
    /\ p.level = "ACT_WITHIN_MANDATE" => account.mode = "agent-account"

Spent(m) ==
    LET rows == {i \in DOMAIN decisions : decisions[i].mandate = m /\ decisions[i].used = today}
    IN  SumFunction([i \in rows |-> decisions[i].envelope.value])

\* Slip: any status but a draft's stands until its end.
StandsSlip(status, p) == status # "DRAFT" /\ ~Lapsed(p) /\ p.from <= today

Stands(status, p) == status = "ACTIVE" /\ ~Lapsed(p) /\ p.from <= today

Denied(status, p, e, mode, spent) ==
    \/ ~Stands(status, p)
    \/ ~(e.needs \subseteq p.grants)
    \/ e.operation = "OBSERVE" /\ e.effect # "read"
    \/ e.operation = "EXECUTE" /\ e.effect = "read"
    \/ p.level = "OBSERVE" /\ e.operation # "OBSERVE"
    \/ e.operation = "EXECUTE" /\ (mode = "watch-only" \/ e.value = NULL)
    \/ Exceeds(e.value, p.capital)
    \/ Exceeds(e.value, p.perAction)
    \/ e.value # NULL /\ Exceeds(spent + e.value, p.budget)

\* Slip: the account tells who signs.
NeedsApprovalSlip(p, e, mode, autonomyPaused) ==
    e.operation = "EXECUTE" /\ (mode = "connected" \/ autonomyPaused \/ p.approval = "ALWAYS")

NeedsApproval(p, e, mode, autonomyPaused) ==
    /\ e.operation = "EXECUTE"
    /\ \/ p.level = "PREPARE"
       \/ mode = "connected"
       \/ autonomyPaused
       \/ ~MainnetAutonomyEnabled
       \/ p.approval = "ALWAYS"
       \/ p.approval = "THRESHOLD" /\ Exceeds(e.value, p.threshold)
       \/ ~(e.needs \subseteq p.familiar)

\* m is NULL when no mandate was found. "mode" is NULL when the account has
\* been removed: then neither the watch-only nor the connected rule applies.
evaluateAuthorityPolicy(m, status, p, e, mode, autonomyPaused) ==
    IF m = NULL \/ Denied(status, p, e, mode, Spent(m)) THEN "DENIED"
    ELSE IF NeedsApproval(p, e, mode, autonomyPaused) THEN "APPROVAL_REQUIRED"
    ELSE "ALLOWED"

-----------------------------------------------------------------------------
(* What an evaluation in flight could still find: kept for the properties, *)
(* by every action that changes a mandate or the pause.                    *)

InForce(ms) == {<<m, Len(ms[m].revisions)>> : m \in {n \in Mandates : ms[n].status = "ACTIVE"}}

Witnessed(handlers, ms, off) ==
    [h \in DOMAIN handlers |->
       IF handlers[h].op \in {"EVALUATE", "DECIDE"}
       THEN [handlers[h] EXCEPT !.seen = @ \cup InForce(ms), !.unpaused = @ \/ ~off]
       ELSE handlers[h]]

-----------------------------------------------------------------------------
(* Mandates                                                                *)

\* expireMandates, a transaction of its own that every operation runs first.
Expired ==
    [m \in Mandates |->
       IF mandate[m].status \in {"ACTIVE", "PAUSED"} /\ Lapsed(Current(m))
       THEN [mandate[m] EXCEPT !.status = "EXPIRED"] ELSE mandate[m]]

\* The unique index of drafts and standing mandates over a worker and account.
SlotIsFree(m) == \A n \in Mandates \ {m} : mandate[n].status \notin Standing

\* GET /authority, polled by every open screen.
listMandates ==
    /\ mandate' = Expired
    /\ mandate' # mandate
    /\ handler' = Witnessed(handler, mandate', paused)
    /\ UNCHANGED <<account, paused, today, decisions>>

createMandate(m, p, status) ==
    /\ mandate[m].status = "NONE" /\ SlotIsFree(m) /\ Written < MaxRevisions
    /\ References(p)
    /\ status = "ACTIVE" => Ready(p)
    /\ mandate' = [mandate EXCEPT ![m] = [status |-> status, revisions |-> <<p>>]]
    /\ handler' = Witnessed(handler, mandate', paused)
    /\ UNCHANGED <<account, paused, today, decisions>>

\* The caller's expectedRevision is the current one: every other is refused.
reviseMandate(m, p) ==
    /\ mandate[m].status \notin {"NONE", "REVOKED"}
    /\ Written < MaxRevisions
    /\ References(p)
    /\ mandate[m].status \in {"ACTIVE", "PAUSED"} => Ready(p)
    /\ mandate[m].status = "EXPIRED" => SlotIsFree(m)
    /\ mandate' = [mandate EXCEPT ![m] =
                     [status |-> IF @.status = "EXPIRED" THEN "DRAFT" ELSE @.status,
                      revisions |-> Append(@.revisions, p)]]
    /\ handler' = Witnessed(handler, mandate', paused)
    /\ UNCHANGED <<account, paused, today, decisions>>

\* The statement that locks the row has taken its snapshot, with the revision
\* the join found.
BeginSetMandateStatus(h, m, to) ==
    /\ handler[h] = Idle /\ mandate[m].status # "NONE"
    /\ mandate' = Expired
    /\ handler' = Witnessed([handler EXCEPT ![h] =
         [op |-> "STATUS", mandate |-> m, to |-> to, revision |-> Len(mandate[m].revisions)]], mandate', paused)
    /\ UNCHANGED <<account, paused, today, decisions>>

Transitions == {<<"DRAFT", "ACTIVE">>, <<"ACTIVE", "PAUSED">>, <<"ACTIVE", "REVOKED">>,
                <<"PAUSED", "ACTIVE">>, <<"PAUSED", "REVOKED">>, <<"EXPIRED", "REVOKED">>}

\* Slip: the screen that offers the change knows the status.
LockedStatusSlip(h) == IF handler[h].to = "ACTIVE" THEN "PAUSED" ELSE "ACTIVE"

\* The row is locked and read again.
LockedStatus(h) == mandate[handler[h].mandate].status

\* A revision committed since the snapshot no longer joins: the statement finds no row, nothing is written and the
\* caller is answered with the mandate as it is.
setMandateStatus(h) ==
    LET m == handler[h].mandate  to == handler[h].to IN
    /\ handler[h].op = "STATUS"
    /\ mandate' = IF /\ handler[h].revision = Len(mandate[m].revisions)
                     /\ <<LockedStatus(h), to>> \in Transitions
                     /\ ~Lapsed(Current(m))
                     /\ to = "ACTIVE" => Ready(Current(m))
                  THEN [mandate EXCEPT ![m].status = to] ELSE mandate
    /\ handler' = Witnessed([handler EXCEPT ![h] = Idle], mandate', paused)
    /\ UNCHANGED <<account, paused, today, decisions>>

revokeAllMandates ==
    /\ mandate' = [m \in Mandates |->
                     IF mandate[m].status \in {"ACTIVE", "PAUSED"}
                     THEN [mandate[m] EXCEPT !.status = "REVOKED"] ELSE mandate[m]]
    /\ mandate' # mandate
    /\ handler' = Witnessed(handler, mandate', paused)
    /\ UNCHANGED <<account, paused, today, decisions>>

setAutonomousExecutionPaused ==
    /\ paused' = ~paused
    /\ handler' = Witnessed(handler, mandate, paused')
    /\ UNCHANGED <<mandate, account, today, decisions>>

-----------------------------------------------------------------------------
(* The account                                                             *)

\* updateWallet: the row is read, then written without looking again. A rename
\* writes back the status it read, and clears removed_at with it.
BeginUpdateWallet(h, listed) ==
    /\ handler[h] = Idle /\ account.listed
    /\ handler' = [handler EXCEPT ![h] = [op |-> "WALLET", listed |-> listed]]
    /\ UNCHANGED <<mandate, account, paused, today, decisions>>

updateWallet(h) ==
    /\ handler[h].op = "WALLET"
    /\ account' = [account EXCEPT !.listed = handler[h].listed, !.removed = ~handler[h].listed]
    /\ handler' = [handler EXCEPT ![h] = Idle]
    /\ UNCHANGED <<mandate, paused, today, decisions>>

BeginObserveWallet(h) ==
    /\ handler[h] = Idle /\ account.mode = "connected" /\ account.listed
    /\ handler' = [handler EXCEPT ![h] = [op |-> "OBSERVE"]]
    /\ UNCHANGED <<mandate, account, paused, today, decisions>>

\* observeWalletNetwork writes the connection it saw and leaves removed_at.
observeWalletNetwork(h) ==
    /\ handler[h].op = "OBSERVE"
    /\ account' = [account EXCEPT !.listed = TRUE]
    /\ handler' = [handler EXCEPT ![h] = Idle]
    /\ UNCHANGED <<mandate, paused, today, decisions>>

-----------------------------------------------------------------------------
(* Evaluation                                                              *)

Rank(status) ==
    CASE status = "ACTIVE" -> 0 [] status = "PAUSED" -> 1 [] status = "EXPIRED" -> 2
      [] status = "DRAFT" -> 3 [] OTHER -> 4

\* The mandate that stands first in the order of status.
Candidates(ms) ==
    LET known == {m \in Mandates : ms[m].status # "NONE"}
    IN  IF known = {} THEN {NULL}
        ELSE {m \in known : \A n \in known : Rank(ms[m].status) <= Rank(ms[n].status)}

\* evaluateAuthority expires what has lapsed, then reads which mandate applies,
\* the account and the pause.
BeginEvaluate(h, e) ==
    /\ handler[h] = Idle
    /\ mandate' = Expired
    /\ \E m \in Candidates(mandate') :
         handler' = Witnessed([handler EXCEPT ![h] =
           [op |-> "EVALUATE", envelope |-> e, mandate |-> m,
            mode |-> IF account.removed THEN NULL ELSE account.mode,
            paused |-> paused, seen |-> {}, unpaused |-> FALSE]], mandate', paused)
    /\ UNCHANGED <<account, paused, today, decisions>>

\* getMandate: the status and the policy that decide are read here.
ReadMandate(h) ==
    LET m == handler[h].mandate  ms == Expired IN
    /\ handler[h].op = "EVALUATE"
    /\ mandate' = ms
    /\ handler' = Witnessed([handler EXCEPT ![h] =
         [op |-> "DECIDE", envelope |-> @.envelope, mandate |-> m, mode |-> @.mode,
          paused |-> @.paused, seen |-> @.seen, unpaused |-> @.unpaused,
          status |-> IF m = NULL THEN NULL ELSE ms[m].status,
          revision |-> IF m = NULL THEN 0 ELSE Len(ms[m].revisions)]], mandate', paused)
    /\ UNCHANGED <<account, paused, today, decisions>>

\* What was spent in the period is read, the policy decides, the decision is
\* recorded. "grounded" is no column: it says whether, since the request came,
\* the revision was ever in force and autonomy ever not paused.
evaluateAuthority(h) ==
    LET r == handler[h]  m == r.mandate
        p == IF m = NULL THEN NULL ELSE mandate[m].revisions[r.revision]
        allowed ==
          evaluateAuthorityPolicy(m, r.status, p, r.envelope, r.mode, r.paused) = "ALLOWED"
    IN  /\ r.op = "DECIDE"
        /\ allowed => Len(decisions) < MaxDecisions
        /\ decisions' =
             IF ~allowed THEN decisions
             ELSE Append(decisions,
                    [mandate |-> m, revision |-> r.revision, envelope |-> r.envelope, used |-> NULL,
                     grounded |-> <<m, r.revision>> \in r.seen /\ r.unpaused])
        /\ handler' = [handler EXCEPT ![h] = Idle]
        /\ UNCHANGED <<mandate, account, paused, today>>

\* Slip: the decision has looked at the budget already.
FitsBudgetSlip(d) == Current(d.mandate).budget # NULL

FitsBudget(d) ==
    /\ Current(d.mandate).budget # NULL
    /\ ~Exceeds(Spent(d.mandate) + d.envelope.value, Current(d.mandate).budget)

\* The decision and its mandate are locked, what was spent is added up again.
recordAuthorityUsage(i) ==
    LET d == decisions[i] IN
    /\ d.envelope.value # NULL /\ d.used = NULL
    /\ mandate[d.mandate].status = "ACTIVE"
    /\ Len(mandate[d.mandate].revisions) = d.revision
    /\ FitsBudget(d)
    /\ decisions' = [decisions EXCEPT ![i].used = today]
    /\ UNCHANGED <<mandate, account, paused, today, handler>>

NextDay ==
    /\ today < LastDay
    /\ today' = today + 1
    /\ UNCHANGED <<mandate, account, paused, decisions, handler>>

-----------------------------------------------------------------------------

Next ==
    \/ listMandates
    \/ \E m \in Mandates, p \in Policies : \E status \in {"DRAFT", "ACTIVE"} : createMandate(m, p, status)
    \/ \E m \in Mandates, p \in Policies : reviseMandate(m, p)
    \/ \E h \in Handlers, m \in Mandates : \E to \in {"ACTIVE", "PAUSED", "REVOKED"} :
         BeginSetMandateStatus(h, m, to)
    \/ \E h \in Handlers : setMandateStatus(h)
    \/ revokeAllMandates
    \/ setAutonomousExecutionPaused
    \/ \E h \in Handlers : \E listed \in BOOLEAN : BeginUpdateWallet(h, listed)
    \/ \E h \in Handlers : updateWallet(h)
    \/ \E h \in Handlers : BeginObserveWallet(h)
    \/ \E h \in Handlers : observeWalletNetwork(h)
    \/ \E h \in Evaluators, e \in Envelopes : BeginEvaluate(h, e)
    \/ \E h \in Evaluators : ReadMandate(h)
    \/ \E h \in Evaluators : evaluateAuthority(h)
    \/ \E i \in DOMAIN decisions : recordAuthorityUsage(i)
    \/ NextDay

Spec == Init /\ [][Next]_vars

-----------------------------------------------------------------------------
(* Properties                                                              *)

\* A mandate that may act on its own, or could after a resume, names its
\* assets, its limits and its end, and stands over an Agent Account: whichever
\* of creation, activation, resumption and revision led there, and however a
\* revision of the draft races its activation (MILESTONE-7.md:26).
StandingActIsBounded ==
    \A m \in Mandates :
      mandate[m].status \in {"ACTIVE", "PAUSED"} /\ Current(m).level = "ACT_WITHIN_MANDATE" =>
        /\ account.mode = "agent-account"
        /\ Current(m).assetList
        /\ NULL \notin {Current(m).perAction, Current(m).budget, Current(m).until}

\* An allowed execution rests on a revision that was in force at some time
\* since the request came, with autonomy not paused at some time since: a
\* decision is never made from an authority that had ended, or under a pause
\* that had begun, before it was asked for.
AllowedIsGrounded ==
    \A i \in DOMAIN decisions :
      decisions[i].envelope.operation = "EXECUTE" =>
        decisions[i].grounded

\* Without a human only an ACT mandate over an Agent Account executes, whether
\* or not the evaluation still found the account it is about.
OnlyAgentAccountsAct ==
    \A i \in DOMAIN decisions :
      decisions[i].envelope.operation = "EXECUTE" =>
        /\ account.mode = "agent-account"
        /\ mandate[decisions[i].mandate].revisions[decisions[i].revision].level = "ACT_WITHIN_MANDATE"

\* What decisions consume in a period stays within the budget of the revision
\* it was last consumed under, although decisions are made on what was spent
\* before any of them.
UsageWithinBudget ==
    [][\A m \in Mandates :
         Spent(m)' > Spent(m) /\ today' = today => ~Exceeds(Spent(m)', Current(m).budget)]_vars

\* A revoked mandate keeps its status and its revisions, whatever request was
\* in flight when it was revoked.
RevokedStaysRevoked ==
    [][\A m \in Mandates : mandate[m].status = "REVOKED" => mandate'[m] = mandate[m]]_vars

\* docs/MILESTONE-7-TESTING.md:42: a revoke that is accepted revokes.
RevokeTakesEffect ==
    [][\A h \in Handlers :
         /\ handler[h].op = "STATUS" /\ handler'[h] = Idle
         /\ handler[h].to = "REVOKED"
         /\ mandate[handler[h].mandate].status \in {"ACTIVE", "PAUSED"}
         /\ ~Lapsed(Current(handler[h].mandate))
         => mandate'[handler[h].mandate].status = "REVOKED"]_vars
=============================================================================
