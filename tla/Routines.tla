------------------------------ MODULE Routines -------------------------------
(***************************************************************************)
(* One routine, its runs and the scheduler (packages/routines/src/index.ts,*)
(* apps/scheduler/src/index.ts): drafts are activated, paused, resumed,    *)
(* stopped and revised by the API while scheduler replicas claim what is   *)
(* due, start jobs for it and take their results back. A replica may die   *)
(* between any two of its statements; its lease then runs out.             *)
(*                                                                         *)
(* Time is counted in occurrences: next_run_at is the tick at which the    *)
(* routine is due, and the next one lies at least a tick ahead. A pass of  *)
(* the scheduler looks at expiry, cooldowns, results, due routines and     *)
(* events in a fixed order; here each part may come at any time.           *)
(***************************************************************************)
EXTENDS Naturals, Sequences, FiniteSets, Functions

CONSTANTS
    Schedulers,     \* scheduler replicas
    Handlers,       \* API requests being served
    Triggers,       \* triggers the user may choose
    Cooldown,       \* cooldownMinutes > 0
    Budgets,        \* max_cost_per_run_usd and service_budget_limit_usd a revision may set
    Costs,          \* what a job may turn out to have cost
    MaxFailures,    \* failures that limit the routine: 3 in the code
    MaxNow,         \* bound: the last tick
    MaxEvents,      \* bound: domain events
    MaxRuns,        \* bound: runs before another is asked for by hand
    MaxRevision,    \* bound: revisions
    MaxCrashes,     \* bound: replicas that die
    NULL

ASSUME TriggersAssumption == Triggers \subseteq {"SCHEDULED", "CONDITION", "EVENT"}
ASSUME CostsAssumption == Costs \subseteq Nat
\* validateBudget
ASSUME BudgetAssumption ==
    Budgets \subseteq [max : Nat, limit : Nat] /\ \A budget \in Budgets : budget.max <= budget.limit
ASSUME BoundsAssumption ==
    /\ {MaxFailures, MaxNow, MaxEvents, MaxRuns, MaxRevision, MaxCrashes} \subseteq Nat
    /\ MaxFailures > 0

VARIABLES
    routine,    \* the row of routine with trigger, expiry and budget of its current revision
    runs,       \* routine_run in order of creation, with the budget of its revision and its job
    events,     \* domain events that have occurred
    now,
    crashes,
    proc        \* what each replica and request is doing

vars == <<routine, runs, events, now, crashes, proc>>

Idle == [stage |-> "IDLE"]
Halted == {"PAUSED", "LIMITED", "NEEDS_USER", "EXPIRED", "STOPPED"}
Automatic(trigger) ==
    CASE trigger = "SCHEDULED" -> "ACTIVE" [] trigger = "CONDITION" -> "WATCHING"
      [] OTHER -> "WAITING_FOR_EVENT"
AutomaticStatuses == {"ACTIVE", "WATCHING", "WAITING_FOR_EVENT", "COOLING_DOWN"}
Unfinished == {"QUEUED", "EVALUATING", "RUNNING"}

TypeOK ==
    /\ routine.status \in {"DRAFT"} \cup AutomaticStatuses \cup Halted
    /\ routine.trigger \in Triggers /\ routine.budget \in Budgets
    /\ routine.next \in 0 .. (MaxNow + 1) \cup {NULL}
    /\ routine.failures \in 0 .. (MaxFailures - 1)
    /\ routine.lease \in Schedulers \cup {NULL}
    /\ \A r \in DOMAIN runs :
         /\ runs[r].status \in Unfinished \cup {"COMPLETED", "NO_CHANGE", "BLOCKED", "NEEDS_USER", "FAILED"}
         /\ runs[r].budget \in Budgets
         /\ runs[r].job \in {"NONE", "RUNNING", "COMPLETED", "REQUIRES_USER", "FAILED_FINAL"}
    /\ events \in 0 .. MaxEvents /\ now \in 0 .. MaxNow /\ crashes \in 0 .. MaxCrashes

\* createRoutineDraft
Init ==
    /\ \E trigger \in Triggers, budget \in Budgets :
         routine = [status |-> "DRAFT", revision |-> 1, trigger |-> trigger, budget |-> budget,
                    next |-> NULL, failures |-> 0, lapsed |-> FALSE, lease |-> NULL, leaseLapsed |-> FALSE,
                    since |-> NULL]
    /\ runs = <<>>
    /\ events = 0 /\ now = 0 /\ crashes = 0
    /\ proc = [p \in Schedulers \cup Handlers |-> Idle]

HasActiveRun == \E r \in DOMAIN runs : runs[r].status \in Unfinished
\* The lease is released in a last statement, nothing of which depends on the
\* one before; it is one step with it here.
Freed(ro, p) == IF ro.lease = p THEN [ro EXCEPT !.lease = NULL, !.leaseLapsed = FALSE] ELSE ro
NextRun(trigger) == IF trigger = "EVENT" THEN NULL ELSE now + 1
Due == routine.next # NULL /\ routine.next <= now

-----------------------------------------------------------------------------
(* The API: the routine is read, then written by id                        *)

BeginChange(h, op) ==
    /\ proc[h] = Idle
    /\ \/ op = "activate" /\ routine.status = "DRAFT" /\ ~routine.lapsed
       \/ op = "resume" /\ routine.status \in {"PAUSED", "LIMITED", "NEEDS_USER"}
       \/ op = "revise" /\ routine.status # "STOPPED" /\ routine.revision < MaxRevision
    /\ proc' = [proc EXCEPT ![h] = [stage |-> op, status |-> routine.status,
                                    trigger |-> routine.trigger, revision |-> routine.revision]]
    /\ UNCHANGED <<routine, runs, events, now, crashes>>

activateRoutine(h) ==
    /\ proc[h].stage = "activate"
    /\ routine' = [routine EXCEPT !.status = Automatic(proc[h].trigger),
                                  !.next = NextRun(proc[h].trigger),
                                  !.since = IF @ = NULL THEN events ELSE @]
    /\ proc' = [proc EXCEPT ![h] = Idle]
    /\ UNCHANGED <<runs, events, now, crashes>>

resumeRoutine(h) ==
    /\ proc[h].stage = "resume"
    /\ routine' = [routine EXCEPT !.status = Automatic(proc[h].trigger),
                                  !.next = NextRun(proc[h].trigger), !.failures = 0]
    /\ proc' = [proc EXCEPT ![h] = Idle]
    /\ UNCHANGED <<runs, events, now, crashes>>

\* pauseRoutine and stopRoutine, whatever the status is.
setRoutineStatus(status) ==
    /\ routine.status # status
    /\ routine' = [routine EXCEPT !.status = status, !.next = NULL]
    /\ UNCHANGED <<runs, events, now, crashes, proc>>

\* A second revision of the same number is refused by the key. A routine that
\* was automatic when it was read is again, whatever it has become.
reviseRoutine(h, trigger, lapsed, budget) ==
    LET automatic == proc[h].status \in AutomaticStatuses IN
    /\ proc[h].stage = "revise"
    /\ routine' =
         IF routine.revision # proc[h].revision THEN routine
         ELSE [routine EXCEPT !.revision = @ + 1, !.trigger = trigger, !.lapsed = lapsed,
                              !.budget = budget,
                              !.status = IF automatic THEN Automatic(trigger) ELSE proc[h].status,
                              !.next = IF automatic THEN NextRun(trigger) ELSE NULL]
    /\ proc' = [proc EXCEPT ![h] = Idle]
    /\ UNCHANGED <<runs, events, now, crashes>>

\* runRoutineNow, by hand or as the retry of a limited routine.
BeginRunNow(h) ==
    /\ proc[h] = Idle /\ Len(runs) < MaxRuns
    /\ routine.status \in AutomaticStatuses \cup {"PAUSED", "LIMITED"}
    /\ ~HasActiveRun
    /\ proc' = [proc EXCEPT ![h] = [stage |-> "CREATE", source |-> "MANUAL", due |-> Len(runs) + 1,
                                    revision |-> routine.revision, budget |-> routine.budget,
                                    failures |-> 0]]
    /\ UNCHANGED <<routine, runs, events, now, crashes>>

-----------------------------------------------------------------------------
(* The start of a run, by a replica or a request                           *)

\* Slip: the occurrence of an event is told by the revision it fired, too.
SameOccurrenceSlip(r, p) ==
    /\ runs[r].source = proc[p].source /\ runs[r].due = proc[p].due
    /\ runs[r].revision = proc[p].revision

\* The unique keys of routine_run. A run by hand has a key of its own.
SameOccurrence(r, p) ==
    /\ runs[r].source = proc[p].source /\ runs[r].due = proc[p].due
    /\ proc[p].source # "MANUAL"
    /\ runs[r].revision = proc[p].revision \/ proc[p].source = "EVENT"

\* createRun; evaluateConditionRoutine marks the run EVALUATING at once. The
\* run of an occurrence that has one already is taken up while it is QUEUED;
\* an event's run under an earlier revision fails the pass.
createRun(p) ==
    LET source == proc[p].source
        same == {r \in DOMAIN runs : SameOccurrence(r, p)}
        new == [source |-> source, due |-> proc[p].due, revision |-> proc[p].revision,
                budget |-> proc[p].budget,
                status |-> IF source = "CONDITION" THEN "EVALUATING" ELSE "QUEUED",
                budgeted |-> FALSE, job |-> "NONE", cost |-> 0]
        next == IF source = "CONDITION" THEN "OBSERVE" ELSE "BUDGET"
    IN  /\ proc[p].stage = "CREATE"
        /\ IF same = {}
           THEN /\ runs' = Append(runs, new)
                /\ proc' = [proc EXCEPT ![p] = [stage |-> next, run |-> Len(runs) + 1, source |-> source,
                                                failures |-> @.failures]]
           ELSE \E r \in same :
                  /\ UNCHANGED runs
                  /\ proc' = [proc EXCEPT ![p] =
                       IF runs[r].status = "QUEUED" /\ runs[r].revision = @.revision
                       THEN [stage |-> next, run |-> r, source |-> source, failures |-> @.failures]
                       ELSE IF source = "SCHEDULED" THEN [stage |-> "RESCHEDULE"]
                       ELSE [stage |-> "RELEASE"]]
        /\ UNCHANGED <<routine, events, now, crashes>>

\* A condition that holds is launched; one that does not ends the run here and
\* the routine in a later statement.
Observe(p, matched) ==
    /\ proc[p].stage = "OBSERVE"
    /\ runs' = IF matched THEN runs ELSE [runs EXCEPT ![proc[p].run].status = "NO_CHANGE"]
    /\ proc' = [proc EXCEPT ![p] = IF matched THEN [@ EXCEPT !.stage = "BUDGET"]
                                   ELSE [stage |-> "WATCH", status |-> "WATCHING", failures |-> 0]]
    /\ UNCHANGED <<routine, events, now, crashes>>

SpentBy(rows) ==
    SumFunction([r \in {q \in DOMAIN rows : rows[q].status \notin Unfinished} |-> rows[r].cost])
Spent == SpentBy(runs)

Ceilings(rs) == SumFunction([q \in rs |-> runs[q].budget.max])

\* Slip: what is queued costs nothing yet.
ReservedSlip(r) == Ceilings({q \in DOMAIN runs \ {r} : runs[q].status = "RUNNING"})

Reserved(r) == Ceilings({q \in DOMAIN runs \ {r} : runs[q].status \in Unfinished})

\* serviceBudgetAvailable, under the lock of the routine: what was spent, what
\* every other unfinished run may still cost under its revision, and this run's
\* own ceiling. Limit and ceiling are those of the routine the launcher read,
\* whose revision is the run's, whatever the row says by now.
Affordable(r) ==
    LET budget == runs[r].budget IN
    Spent + Reserved(r) < budget.limit /\ Spent + Reserved(r) + budget.max <= budget.limit

CheckBudget(p) ==
    LET r == proc[p].run IN
    /\ proc[p].stage = "BUDGET"
    /\ runs' = [runs EXCEPT ![r] = IF Affordable(r) THEN [@ EXCEPT !.budgeted = TRUE]
                                   ELSE [@ EXCEPT !.status = "BLOCKED"]]
    /\ proc' = [proc EXCEPT ![p] = IF Affordable(r) THEN [@ EXCEPT !.stage = "LAUNCH"]
                                   ELSE [stage |-> "LIMIT", source |-> @.source]]
    /\ UNCHANGED <<routine, events, now, crashes>>

\* launchRoutineJob up to the run, for a routine the launcher read long ago: the
\* job, its conversation and its task are created once by their keys, and the
\* run is RUNNING whatever it has become.
LaunchJob(p) ==
    /\ proc[p].stage = "LAUNCH"
    /\ runs' = [runs EXCEPT ![proc[p].run].status = "RUNNING",
                            ![proc[p].run].job = IF @ = "NONE" THEN "RUNNING" ELSE @]
    /\ proc' = [proc EXCEPT ![p] =
         CASE @.source = "MANUAL" -> Idle
           [] @.source = "SCHEDULED" -> [stage |-> "RESCHEDULE"]
           [] @.source = "CONDITION" -> [@ EXCEPT !.stage = "LAUNCHED"]
           [] OTHER -> IF Cooldown THEN [stage |-> "COOL"] ELSE Idle]
    /\ UNCHANGED <<routine, events, now, crashes>>

\* The run is read again: what it became meanwhile decides whether the routine
\* moves on. Only evaluateConditionRoutine asks.
ReadLaunched(p) ==
    /\ proc[p].stage = "LAUNCHED"
    /\ proc' = [proc EXCEPT ![p] =
         IF runs[@.run].status # "RUNNING" THEN [stage |-> "RELEASE"]
         ELSE [stage |-> "WATCH", failures |-> NULL,
               status |-> IF Cooldown THEN "COOLING_DOWN" ELSE "WATCHING"]]
    /\ UNCHANGED <<routine, runs, events, now, crashes>>

TooMany(failures) == failures >= MaxFailures

\* The catch of evaluateConditionRoutine: the condition could not be read, or
\* the launch threw, before or after its job was there.
ConditionFails(p) ==
    LET r == proc[p].run  failures == proc[p].failures + 1 IN
    /\ proc[p].stage \in {"OBSERVE", "BUDGET", "LAUNCH", "LAUNCHED"} /\ proc[p].source = "CONDITION"
    /\ \E job \in {runs[r].job} \cup (IF proc[p].stage = "LAUNCH" THEN {"RUNNING"} ELSE {}) :
         runs' = [runs EXCEPT ![r].status = "FAILED", ![r].job = IF @ = "NONE" THEN job ELSE @]
    /\ proc' = [proc EXCEPT ![p] =
         IF TooMany(failures) THEN [stage |-> "LIMIT", source |-> "CONDITION"]
         ELSE [stage |-> "WATCH", status |-> "WATCHING", failures |-> failures]]
    /\ UNCHANGED <<routine, events, now, crashes>>

\* Slip: a limited routine keeps its next run.
LimitedSlip(ro) ==
    IF ro.status \in {"STOPPED", "PAUSED", "EXPIRED"} THEN ro ELSE [ro EXCEPT !.status = "LIMITED"]

Limited(ro) ==
    IF ro.status \in {"STOPPED", "PAUSED", "EXPIRED"} THEN ro
    ELSE [ro EXCEPT !.status = "LIMITED", !.next = NULL]

\* A scheduled run that was blocked still has its next one computed, and an
\* event's its cooldown begun.
markLimited(p) ==
    /\ proc[p].stage = "LIMIT"
    /\ routine' = IF proc[p].source = "CONDITION" THEN Freed(Limited(routine), p) ELSE Limited(routine)
    /\ proc' = [proc EXCEPT ![p] = CASE @.source = "SCHEDULED" -> [stage |-> "RESCHEDULE"]
                                     [] @.source = "EVENT" /\ Cooldown -> [stage |-> "COOL"]
                                     [] OTHER -> Idle]
    /\ UNCHANGED <<runs, events, now, crashes>>

-----------------------------------------------------------------------------
(* The scheduler                                                           *)

\* Slip: a lease never runs out.
ClaimableSlip == routine.lease = NULL

Claimable == routine.lease = NULL \/ routine.leaseLapsed

\* claimDueRoutineIds
claimDueRoutine(s) ==
    /\ proc[s] = Idle
    /\ routine.status \in {"ACTIVE", "WATCHING"} /\ Due
    /\ Claimable
    /\ routine' = [routine EXCEPT !.lease = s, !.leaseLapsed = FALSE]
    /\ proc' = [proc EXCEPT ![s] = [stage |-> "CLAIMED", due |-> routine.next]]
    /\ UNCHANGED <<runs, events, now, crashes>>

\* getRoutine and hasActiveRun.
ReadClaimed(s) ==
    /\ proc[s].stage = "CLAIMED"
    /\ proc' = [proc EXCEPT ![s] =
         IF routine.trigger = "EVENT" \/ routine.status # Automatic(routine.trigger)
         THEN [stage |-> "RELEASE"]
         ELSE IF ~HasActiveRun
         THEN [stage |-> "CREATE", source |-> routine.trigger, due |-> @.due,
               revision |-> routine.revision, budget |-> routine.budget,
               failures |-> routine.failures]
         ELSE IF routine.trigger = "SCHEDULED" THEN [stage |-> "RESCHEDULE"]
         ELSE [stage |-> "WATCH", status |-> "WATCHING", failures |-> NULL]]
    /\ UNCHANGED <<routine, runs, events, now, crashes>>

\* Slip: the next occurrence is written into the row as it is.
MayRescheduleSlip == TRUE

MayReschedule == routine.status \notin Halted

\* The end of processScheduledRoutine.
Reschedule(s) ==
    /\ proc[s].stage = "RESCHEDULE"
    /\ routine' = IF MayReschedule
                  THEN Freed([routine EXCEPT !.status = "ACTIVE", !.next = now + 1], s)
                  ELSE Freed(routine, s)
    /\ proc' = [proc EXCEPT ![s] = Idle]
    /\ UNCHANGED <<runs, events, now, crashes>>

\* Slip: a condition is taken for a schedule.
MayWatchSlip == routine.status = "ACTIVE"

MayWatch == routine.status = "WATCHING"

\* The last statement of evaluateConditionRoutine, for a routine that watches.
Watch(s) ==
    /\ proc[s].stage = "WATCH"
    /\ routine' = IF ~MayWatch THEN Freed(routine, s)
                  ELSE Freed([routine EXCEPT !.status = proc[s].status, !.next = now + 1,
                              !.failures = IF proc[s].failures = NULL THEN @ ELSE proc[s].failures], s)
    /\ proc' = [proc EXCEPT ![s] = Idle]
    /\ UNCHANGED <<runs, events, now, crashes>>

\* A claimed routine there is nothing to do for.
Release(s) ==
    /\ proc[s].stage = "RELEASE"
    /\ routine' = Freed(routine, s)
    /\ proc' = [proc EXCEPT ![s] = Idle]
    /\ UNCHANGED <<runs, events, now, crashes>>

\* processEventRoutines takes no lease: an event since the activation that no
\* run answers to.
ReadEvent(s, e) ==
    /\ proc[s] = Idle
    /\ routine.status = "WAITING_FOR_EVENT" /\ routine.trigger = "EVENT" /\ routine.since # NULL
    /\ e > routine.since
    /\ \A r \in DOMAIN runs : ~(runs[r].source = "EVENT" /\ runs[r].due = e)
    /\ ~HasActiveRun
    /\ proc' = [proc EXCEPT ![s] = [stage |-> "CREATE", source |-> "EVENT", due |-> e,
                                    revision |-> routine.revision, budget |-> routine.budget,
                                    failures |-> 0]]
    /\ UNCHANGED <<routine, runs, events, now, crashes>>

Cool(s) ==
    /\ proc[s].stage = "COOL"
    /\ routine' = IF routine.status # "WAITING_FOR_EVENT" THEN routine
                  ELSE [routine EXCEPT !.status = "COOLING_DOWN", !.next = now + 1]
    /\ proc' = [proc EXCEPT ![s] = Idle]
    /\ UNCHANGED <<runs, events, now, crashes>>

expireRoutines ==
    /\ routine.lapsed /\ routine.status \notin {"STOPPED", "EXPIRED"}
    /\ routine' = [routine EXCEPT !.status = "EXPIRED", !.next = NULL]
    /\ UNCHANGED <<runs, events, now, crashes, proc>>

releaseCooldowns ==
    /\ routine.status = "COOLING_DOWN" /\ Due
    /\ routine' = IF routine.trigger = "CONDITION"
                  THEN [routine EXCEPT !.status = "WATCHING", !.next = now]
                  ELSE [routine EXCEPT !.status = "WAITING_FOR_EVENT", !.next = NULL]
    /\ UNCHANGED <<runs, events, now, crashes, proc>>


HasResult(r) == runs[r].job # "RUNNING"

\* reconcileRuns: a running run whose job has ended, read with the failures.
ReadEnded(s, r) ==
    /\ proc[s] = Idle
    /\ runs[r].status = "RUNNING" /\ HasResult(r)
    /\ proc' = [proc EXCEPT ![s] = [stage |-> "RECONCILE", run |-> r, failures |-> routine.failures]]
    /\ UNCHANGED <<routine, runs, events, now, crashes>>

\* enforceCompletedRunBudget, by the budget of the run's revision.
Overspent(rows, r) ==
    rows[r].cost > rows[r].budget.max \/ SpentBy(rows) > rows[r].budget.limit

\* The run with what its job has cost and, in the next statements, the routine
\* and its limit.
Reconcile(s, cost) ==
    LET r == proc[s].run  job == runs[r].job  failures == proc[s].failures + 1 IN
    /\ proc[s].stage = "RECONCILE"
    /\ runs' = [runs EXCEPT ![r].cost = cost, ![r].status =
                  CASE job = "COMPLETED" -> "COMPLETED" [] job = "REQUIRES_USER" -> "NEEDS_USER"
                    [] OTHER -> "FAILED"]
    /\ routine' =
         CASE job = "COMPLETED" ->
                IF Overspent(runs', r) THEN Limited([routine EXCEPT !.failures = 0])
                ELSE [routine EXCEPT !.failures = 0]
           [] job = "REQUIRES_USER" ->
                IF routine.status \in {"PAUSED", "STOPPED", "EXPIRED"} THEN routine
                ELSE [routine EXCEPT !.status = "NEEDS_USER", !.next = NULL]
           [] OTHER ->
                IF TooMany(failures) THEN Limited(routine)
                ELSE [routine EXCEPT !.failures = failures]
    /\ proc' = [proc EXCEPT ![s] = Idle]
    /\ UNCHANGED <<events, now, crashes>>

-----------------------------------------------------------------------------
(* The world                                                               *)

EndJob(r, outcome) ==
    /\ runs[r].job = "RUNNING"
    /\ runs' = [runs EXCEPT ![r].job = outcome]
    /\ UNCHANGED <<routine, events, now, crashes, proc>>

Tick == now < MaxNow /\ now' = now + 1 /\ UNCHANGED <<routine, runs, events, crashes, proc>>
Event == events < MaxEvents /\ events' = events + 1 /\ UNCHANGED <<routine, runs, now, crashes, proc>>

\* expires_at of the current revision has passed.
Lapse ==
    /\ ~routine.lapsed /\ routine' = [routine EXCEPT !.lapsed = TRUE]
    /\ UNCHANGED <<runs, events, now, crashes, proc>>

\* A process dies and is started again, or one of its statements fails and it
\* gives up, which lets go of the lease.
Crash(p) ==
    /\ crashes < MaxCrashes /\ proc[p] # Idle
    /\ crashes' = crashes + 1
    /\ routine' \in {routine, Freed(routine, p)}
    /\ proc' = [proc EXCEPT ![p] = Idle]
    /\ UNCHANGED <<runs, events, now>>

\* Ninety seconds have passed since the claim.
LeaseLapses ==
    /\ routine.lease # NULL /\ ~routine.leaseLapsed
    /\ routine' = [routine EXCEPT !.leaseLapsed = TRUE]
    /\ UNCHANGED <<runs, events, now, crashes, proc>>

-----------------------------------------------------------------------------

Steps(p) ==
    \/ createRun(p)
    \/ \E matched \in BOOLEAN : Observe(p, matched)
    \/ CheckBudget(p) \/ LaunchJob(p) \/ ReadLaunched(p) \/ ConditionFails(p) \/ markLimited(p)

Scheduler(s) ==
    \/ claimDueRoutine(s) \/ ReadClaimed(s) \/ Steps(s)
    \/ Reschedule(s) \/ Watch(s) \/ Release(s) \/ Cool(s)
    \/ \E e \in 1 .. events : ReadEvent(s, e)
    \/ \E r \in DOMAIN runs : ReadEnded(s, r)
    \/ \E cost \in Costs : Reconcile(s, cost)

Handler(h) ==
    \/ \E op \in {"activate", "resume", "revise"} : BeginChange(h, op)
    \/ activateRoutine(h) \/ resumeRoutine(h)
    \/ \E trigger \in Triggers, lapsed \in {FALSE, routine.lapsed}, budget \in Budgets :
         reviseRoutine(h, trigger, lapsed, budget)
    \/ BeginRunNow(h) \/ Steps(h)

Next ==
    \/ \E s \in Schedulers : Scheduler(s)
    \/ \E h \in Handlers : Handler(h)
    \/ \E p \in Schedulers \cup Handlers : Crash(p)
    \/ \E status \in {"PAUSED", "STOPPED"} : setRoutineStatus(status)
    \/ expireRoutines \/ releaseCooldowns \/ LeaseLapses
    \/ \E r \in DOMAIN runs, outcome \in {"COMPLETED", "REQUIRES_USER", "FAILED_FINAL"} : EndJob(r, outcome)
    \/ Tick \/ Event \/ Lapse

Spec == Init /\ [][Next]_vars

\* Every replica keeps polling and finishes what it began unless it dies, a
\* lease runs out, and a job ends (the queue of intelligence tasks sees to it).
Fairness ==
    /\ \A s \in Schedulers :
         /\ WF_vars(proc[s].stage # "IDLE" /\ Scheduler(s))
         /\ SF_vars(claimDueRoutine(s))
         /\ SF_vars(\E r \in DOMAIN runs : ReadEnded(s, r))
    /\ WF_vars(LeaseLapses)
    /\ WF_vars(\E r \in DOMAIN runs : EndJob(r, "COMPLETED"))

FairSpec == Spec /\ Fairness

-----------------------------------------------------------------------------
(* Properties                                                              *)

\* Nothing is due of a routine that is halted: whoever halted it, and whatever
\* a replica was still doing for it, its next run stays unset until it is
\* resumed or revised ("Pause across a due time: no automatic Job",
\* docs/MILESTONE-11-TESTING.md:29).
HaltedIsNotScheduled == routine.status \in Halted => routine.next = NULL

\* Only a request of the user brings a halted routine back: a replica that was
\* at work for it when it was halted never does, however late it writes
\* (MILESTONE-11.md:73, "AgentPlace stops future automatic work").
OnlyUserResumes ==
    [][routine.status \in Halted /\ routine'.status \notin Halted
         => \E h \in Handlers : proc[h].stage \in {"activate", "resume", "revise"} /\ proc'[h] = Idle]_vars

\* An event fires the routine at most once, through replicas that die, replicas
\* that look at the same time and revisions made meanwhile (MILESTONE-11.md:47).
EventFiresOnce ==
    \A q, r \in DOMAIN runs :
      q # r /\ runs[q].source = "EVENT" /\ runs[r].source = "EVENT" => runs[q].due # runs[r].due

Committed == Spent + Ceilings({r \in DOMAIN runs : runs[r].budgeted /\ runs[r].status \in Unfinished})

\* A run is let through only while what has been spent and what every run let
\* through before it may still cost, each under its own revision, leave room for
\* it: two starts never share the last of the budget. The limit is the one of the
\* revision the run was created under, which may have been revised since
\* (serviceBudgetAvailable).
StartsWithinBudget ==
    [][\A r \in DOMAIN runs :
         runs'[r].budgeted /\ ~runs[r].budgeted => Committed' <= runs[r].budget.limit]_vars

\* A due scheduled routine moves on to a later run, or stops being automatic,
\* even if the replica that claimed it dies.
ScheduleAdvances ==
    (routine.trigger = "SCHEDULED" /\ routine.status = "ACTIVE" /\ Due) ~>
      ~(routine.trigger = "SCHEDULED" /\ routine.status = "ACTIVE" /\ Due)


CheckDue == routine.trigger = "CONDITION" /\ routine.status = "WATCHING" /\ Due

\* The run of the occurrence that is due has ended.
Checked ==
    \E r \in DOMAIN runs : /\ runs[r].source = "CONDITION" /\ runs[r].due = routine.next
                           /\ runs[r].revision = routine.revision
                           /\ runs[r].status \notin Unfinished

\* A condition that is due is checked, though replicas die or the launch throws:
\* it moves on to a later check, or the run of this one has come to an end. In
\* the second case it may stay where it is for ever: see ConditionAdvances.
ConditionIsChecked == CheckDue ~> (~CheckDue \/ Checked)

\* A condition that is due moves on ("Expected: background NO_CHANGE checks",
\* docs/MILESTONE-11-TESTING.md:33).
ConditionAdvances == CheckDue ~> ~CheckDue
=============================================================================
