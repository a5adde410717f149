---------------------------- MODULE RoutinesProofs ----------------------------
(* Proofs about Routines, for any number of replicas, requests, runs, events *)
(* and revisions.                                                            *)
EXTENDS Routines, SumLemmas, SequenceTheorems, TLAPS

-----------------------------------------------------------------------------
(* The invariant                                                           *)

Statuses == {"DRAFT"} \cup AutomaticStatuses \cup Halted
NextRuns == 0 .. (MaxNow + 1) \cup {NULL}
Failures == 0 .. (MaxFailures - 1)
Sources == {"SCHEDULED", "CONDITION", "EVENT", "MANUAL"}
Dues == Nat \cup {NULL}

RoutineRows ==
    [status : Statuses, revision : Nat, trigger : Triggers, next : NextRuns, failures : Failures,
     budget : Budgets, lapsed : BOOLEAN, lease : Schedulers \cup {NULL}, leaseLapsed : BOOLEAN,
     since : Nat \cup {NULL}]

RunRows ==
    [source : Sources, due : Dues, revision : Nat, budget : Budgets,
     status : Unfinished \cup {"COMPLETED", "NO_CHANGE", "BLOCKED", "NEEDS_USER", "FAILED"},
     budgeted : BOOLEAN,
     job : {"NONE", "RUNNING", "COMPLETED", "REQUIRES_USER", "FAILED_FINAL"},
     cost : Costs \cup {0}]

Changing == [stage : {"activate", "resume", "revise"}, status : Statuses, trigger : Triggers,
             revision : Nat]
Creating == [stage : {"CREATE"}, source : Sources, due : Dues, revision : Nat, budget : Budgets,
             failures : Failures]
Starting == [stage : {"OBSERVE", "BUDGET", "LAUNCH", "LAUNCHED"}, run : Nat, source : Sources,
             failures : Failures]
Limiting == [stage : {"LIMIT"}, source : Sources]
Ending == [stage : {"IDLE", "RESCHEDULE", "RELEASE", "COOL"}]
Watching == [stage : {"WATCH"}, status : {"WATCHING", "COOLING_DOWN"},
             failures : Failures \cup {NULL}]
Claimed == [stage : {"CLAIMED"}, due : NextRuns]
Reconciling == [stage : {"RECONCILE"}, run : Nat, failures : Failures]

ProcStates ==
    Changing \cup Creating \cup Starting \cup Limiting \cup Ending \cup Watching \cup Claimed
      \cup Reconciling

Processes == Schedulers \cup Handlers

Counters == events \in 0 .. MaxEvents /\ now \in 0 .. MaxNow /\ crashes \in 0 .. MaxCrashes

RInv ==
    /\ routine \in RoutineRows /\ HaltedIsNotScheduled
    /\ runs \in Seq(RunRows) /\ EventFiresOnce
    /\ proc \in [Processes -> ProcStates]
    /\ Counters

LEMMA InitRInv == Init => RInv
<1> SUFFICES ASSUME Init PROVE RInv
  OBVIOUS
<1> USE DEF Init
<1>1. routine \in RoutineRows
  BY BoundsAssumption DEF RoutineRows, Statuses, Failures, NextRuns
<1>2. HaltedIsNotScheduled
  BY DEF HaltedIsNotScheduled
<1>3. runs \in Seq(RunRows) /\ EventFiresOnce
  BY EmptySeq DEF EventFiresOnce
<1>4. proc \in [Processes -> ProcStates]
  BY DEF Processes, ProcStates, Ending, Idle
<1>5. Counters
  BY BoundsAssumption DEF Counters
<1> QED
  BY <1>1, <1>2, <1>3, <1>4, <1>5 DEF RInv

-----------------------------------------------------------------------------
(* What a step may do to the routine                                       *)

LEMMA AutomaticIsNotHalted ==
  ASSUME NEW trigger
  PROVE  Automatic(trigger) \in Statuses /\ Automatic(trigger) \notin Halted
  BY DEF Automatic, Statuses, AutomaticStatuses, Halted

\* A row whose lease is released is the same in all else.
LEMMA FreedRow ==
  ASSUME NEW row \in RoutineRows, NEW p
  PROVE  /\ Freed(row, p) \in RoutineRows
         /\ Freed(row, p).status = row.status /\ Freed(row, p).next = row.next
  BY DEF Freed, RoutineRows

LEMMA LimitedRow ==
  ASSUME NEW row \in RoutineRows
  PROVE  /\ Limited(row) \in RoutineRows
         /\ Limited(row).status = row.status \/ Limited(row).status = "LIMITED"
         /\ Limited(row) = row \/ Limited(row).next = NULL
  BY DEF Limited, RoutineRows, Statuses, Halted, NextRuns

-----------------------------------------------------------------------------
(* What is left alone                                                      *)

RowKept == routine' \in RoutineRows /\ HaltedIsNotScheduled'
RunsKept == runs' \in Seq(RunRows) /\ EventFiresOnce'

LEMMA SameRow ==
  ASSUME RInv, UNCHANGED routine PROVE RowKept
  BY DEF RInv, RowKept, HaltedIsNotScheduled

LEMMA SameRuns ==
  ASSUME RInv, UNCHANGED runs PROVE RunsKept
  BY DEF RInv, RunsKept, EventFiresOnce

\* Runs whose origin and occurrence stay.
LEMMA RewrittenRuns ==
  ASSUME RInv, NEW r, NEW row,
         runs' = [runs EXCEPT ![r] = row],
         r \in DOMAIN runs =>
           row \in RunRows /\ row.source = runs[r].source /\ row.due = runs[r].due
  PROVE  RunsKept
<1>0. runs \in [1 .. Len(runs) -> RunRows] /\ DOMAIN runs = 1 .. Len(runs)
  BY LenProperties DEF RInv
<1>1. CASE r \notin DOMAIN runs
  <2>1. runs' = runs
    BY <1>0, <1>1
  <2> QED
    BY <2>1, SameRuns
<1>2. CASE r \in DOMAIN runs
  <2>1. runs' \in Seq(RunRows)
    BY <1>0, <1>2, ExceptSeq DEF RInv
  <2>2. ASSUME NEW q \in DOMAIN runs
        PROVE  runs'[q].source = runs[q].source /\ runs'[q].due = runs[q].due
    <3>1. runs'[q] = IF q = r THEN row ELSE runs[q]
      BY <1>0
    <3> QED
      BY <1>2, <3>1
  <2>3. DOMAIN runs' = DOMAIN runs
    BY <1>0
  <2>4. EventFiresOnce'
    BY <2>2, <2>3 DEF RInv, EventFiresOnce
  <2> QED
    BY <2>1, <2>4 DEF RunsKept
<1> QED
  BY <1>1, <1>2

LEMMA ProcMoves ==
  ASSUME RInv, NEW p, NEW state \in ProcStates, proc' = [proc EXCEPT ![p] = state]
  PROVE  proc' \in [Processes -> ProcStates]
  BY DEF RInv

LEMMA ProcIdles ==
  ASSUME RInv, NEW p, proc' = [proc EXCEPT ![p] = Idle]
  PROVE  proc' \in [Processes -> ProcStates]
<1>1. Idle \in ProcStates
  BY DEF Idle, ProcStates, Ending
<1> QED
  BY <1>1, ProcMoves

LEMMA CountersStay ==
  ASSUME RInv, UNCHANGED <<events, now, crashes>> PROVE Counters'
  BY DEF RInv, Counters

\* The next run lies at most one tick behind the last.
LEMMA NextRunTyped ==
  ASSUME RInv, NEW trigger
  PROVE  NextRun(trigger) \in NextRuns /\ now + 1 \in NextRuns /\ now \in NextRuns
  BY BoundsAssumption DEF RInv, Counters, NextRun, NextRuns

-----------------------------------------------------------------------------
(* The API                                                                 *)

LEMMA ChangeBegins ==
  ASSUME RInv, NEW h \in Handlers,
         (\E op \in {"activate", "resume", "revise"} : BeginChange(h, op)) \/ BeginRunNow(h)
  PROVE  RInv'
<1>1. RowKept /\ RunsKept /\ Counters'
  BY SameRow, SameRuns, CountersStay DEF BeginChange, BeginRunNow
<1>2. proc' \in [Processes -> ProcStates]
  <2>1. ASSUME NEW op \in {"activate", "resume", "revise"}, BeginChange(h, op)
        PROVE  proc' \in [Processes -> ProcStates]
    <3>1. [stage |-> op, status |-> routine.status, trigger |-> routine.trigger,
           revision |-> routine.revision] \in Changing
      BY DEF RInv, RoutineRows, Changing
    <3> QED
      BY <2>1, <3>1, ProcMoves DEF BeginChange, ProcStates
  <2>2. CASE BeginRunNow(h)
    <3>1. [stage |-> "CREATE", source |-> "MANUAL", due |-> Len(runs) + 1,
           revision |-> routine.revision, budget |-> routine.budget, failures |-> 0] \in Creating
      BY BoundsAssumption, LenProperties DEF RInv, RoutineRows, Creating, Sources, Dues, Failures
    <3> QED
      BY <2>2, <3>1, ProcMoves DEF BeginRunNow, ProcStates
  <2> QED
    BY <2>1, <2>2
<1> QED
  BY <1>1, <1>2 DEF RInv, RowKept, RunsKept

LEMMA ChangeWrites ==
  ASSUME RInv, NEW h \in Handlers,
         \/ activateRoutine(h) \/ resumeRoutine(h)
         \/ \E trigger \in Triggers, lapsed \in {FALSE, routine.lapsed}, budget \in Budgets :
              reviseRoutine(h, trigger, lapsed, budget)
  PROVE  RInv'
<1>1. RunsKept /\ Counters'
  BY SameRuns, CountersStay DEF activateRoutine, resumeRoutine, reviseRoutine
<1>2. proc' \in [Processes -> ProcStates]
  BY ProcIdles DEF activateRoutine, resumeRoutine, reviseRoutine
<1>3. RowKept
  <2>1. CASE activateRoutine(h)
    <3>1. PICK status \in Statuses \ Halted, next \in NextRuns, since \in Nat \cup {NULL} :
            routine' = [routine EXCEPT !.status = status, !.next = next, !.since = since]
      <4>1. routine.since \in Nat \cup {NULL} /\ events \in Nat
        BY BoundsAssumption DEF RInv, RoutineRows, Counters
      <4> QED
        BY <2>1, <4>1, AutomaticIsNotHalted, NextRunTyped DEF activateRoutine
    <3> QED
      BY <3>1 DEF RInv, RoutineRows, RowKept, HaltedIsNotScheduled
  <2>2. CASE resumeRoutine(h)
    <3>1. PICK status \in Statuses \ Halted, next \in NextRuns :
            routine' = [routine EXCEPT !.status = status, !.next = next, !.failures = 0]
      BY <2>2, AutomaticIsNotHalted, NextRunTyped DEF resumeRoutine
    <3>2. 0 \in Failures
      BY BoundsAssumption DEF Failures
    <3> QED
      BY <3>1, <3>2 DEF RInv, RoutineRows, RowKept, HaltedIsNotScheduled
  <2>3. ASSUME NEW trigger \in Triggers, NEW lapsed \in {FALSE, routine.lapsed},
               NEW budget \in Budgets, reviseRoutine(h, trigger, lapsed, budget)
        PROVE  RowKept
    <3>1. CASE UNCHANGED routine
      BY <3>1, SameRow
    <3>2. CASE routine.revision = proc[h].revision
      <4>1. proc[h].status \in Statuses
        <5>1. proc[h] \in ProcStates /\ proc[h].stage = "revise"
          BY <2>3 DEF reviseRoutine, RInv, Processes
        <5> QED
          BY <5>1 DEF ProcStates, Changing, Creating, Starting, Limiting, Ending, Watching,
             Claimed, Reconciling
      <4>2. PICK status \in Statuses, next \in NextRuns :
              /\ status \in Halted => next = NULL
              /\ routine' = [routine EXCEPT !.revision = @ + 1, !.trigger = trigger,
                               !.lapsed = lapsed, !.budget = budget, !.status = status, !.next = next]
        <5>1. CASE proc[h].status \in AutomaticStatuses
          BY <2>3, <3>2, <5>1, AutomaticIsNotHalted, NextRunTyped DEF reviseRoutine
        <5>2. CASE proc[h].status \notin AutomaticStatuses
          BY <2>3, <3>2, <4>1, <5>2 DEF reviseRoutine, NextRuns
        <5> QED
          BY <5>1, <5>2
      <4>3. lapsed \in BOOLEAN
        BY DEF RInv, RoutineRows
      <4>4. routine' \in RoutineRows
        <5>1. routine' = [status |-> status, revision |-> routine.revision + 1,
                          trigger |-> trigger, budget |-> budget, next |-> next,
                          failures |-> routine.failures,
                          lapsed |-> lapsed, lease |-> routine.lease,
                          leaseLapsed |-> routine.leaseLapsed, since |-> routine.since]
          BY <4>2 DEF RInv, RoutineRows
        <5>2. routine.revision + 1 \in Nat
          BY DEF RInv, RoutineRows
        <5> QED
          BY <4>3, <5>1, <5>2 DEF RInv, RoutineRows
      <4>5. routine'.status = status /\ routine'.next = next
        BY <4>2 DEF RInv, RoutineRows
      <4> QED
        BY <4>2, <4>4, <4>5 DEF RowKept, HaltedIsNotScheduled
    <3> QED
      BY <2>3, <3>1, <3>2 DEF reviseRoutine
  <2> QED
    BY <2>1, <2>2, <2>3
<1> QED
  BY <1>1, <1>2, <1>3 DEF RInv, RowKept, RunsKept

-----------------------------------------------------------------------------
(* The start of a run                                                      *)

\* The stage tells what a process holds.
LEMMA ProcAt ==
  ASSUME RInv, NEW p \in Processes
  PROVE  /\ proc[p].stage = "CREATE" => proc[p] \in Creating
         /\ proc[p].stage \in {"OBSERVE", "BUDGET", "LAUNCH", "LAUNCHED"} => proc[p] \in Starting
         /\ proc[p].stage = "LIMIT" => proc[p] \in Limiting
         /\ proc[p].stage = "WATCH" => proc[p] \in Watching
         /\ proc[p].stage = "CLAIMED" => proc[p] \in Claimed
         /\ proc[p].stage = "RECONCILE" => proc[p] \in Reconciling
<1>1. proc[p] \in ProcStates
  BY DEF RInv
<1> QED
  BY <1>1 DEF ProcStates, Changing, Creating, Starting, Limiting, Ending, Watching, Claimed,
     Reconciling

LEMMA EndingStates ==
  /\ [stage |-> "RESCHEDULE"] \in ProcStates /\ [stage |-> "RELEASE"] \in ProcStates
  /\ [stage |-> "COOL"] \in ProcStates /\ Idle \in ProcStates
  BY DEF Idle, ProcStates, Ending

\* An occurrence that has no run yet is given one, the first of it.
LEMMA CreateInv ==
  ASSUME RInv, NEW p \in Processes, createRun(p)
  PROVE  RInv'
<1> DEFINE new == [source |-> proc[p].source, due |-> proc[p].due, revision |-> proc[p].revision,
                   budget |-> proc[p].budget,
                   status |-> IF proc[p].source = "CONDITION" THEN "EVALUATING" ELSE "QUEUED",
                   budgeted |-> FALSE, job |-> "NONE", cost |-> 0]
           next == IF proc[p].source = "CONDITION" THEN "OBSERVE" ELSE "BUDGET"
           same == {r \in DOMAIN runs : SameOccurrence(r, p)}
<1>1. proc[p] \in Creating
  BY ProcAt DEF createRun
<1>2. RowKept /\ Counters'
  BY SameRow, CountersStay DEF createRun
<1>3. Len(runs) \in Nat /\ DOMAIN runs = 1 .. Len(runs)
  BY LenProperties DEF RInv
<1>4. CASE same = {}
  <2>1. /\ runs' = Append(runs, new)
        /\ proc' = [proc EXCEPT ![p] = [stage |-> next, run |-> Len(runs) + 1,
                                        source |-> proc[p].source, failures |-> proc[p].failures]]
    BY <1>4 DEF createRun
  <2>2. [stage |-> next, run |-> Len(runs) + 1, source |-> proc[p].source,
         failures |-> proc[p].failures] \in Starting
    BY <1>1, <1>3 DEF Starting, Creating
  <2>3. proc' \in [Processes -> ProcStates]
    BY <2>1, <2>2, ProcMoves DEF ProcStates
  <2>4. new \in RunRows
    BY <1>1 DEF RunRows, Creating, Unfinished
  <2>5. /\ runs' \in Seq(RunRows)
        /\ Len(runs') = Len(runs) + 1
        /\ \A r \in 1 .. Len(runs) : runs'[r] = runs[r]
        /\ runs'[Len(runs) + 1] = new
    BY <2>1, <2>4, AppendProperties DEF RInv
  <2>6. DOMAIN runs' = 1 .. (Len(runs) + 1)
    BY <2>5, LenProperties
  <2>7. proc[p].source = "EVENT" =>
          \A r \in DOMAIN runs : runs[r].source = "EVENT" => runs[r].due # proc[p].due
    BY <1>4 DEF SameOccurrence
  <2>8. new.source = proc[p].source /\ new.due = proc[p].due
    OBVIOUS
  <2>9. ASSUME NEW q \in DOMAIN runs', NEW r \in DOMAIN runs', q # r,
               runs'[q].source = "EVENT", runs'[r].source = "EVENT"
        PROVE  runs'[q].due # runs'[r].due
    <3> HIDE DEF new
    <3>1. CASE q # Len(runs) + 1 /\ r # Len(runs) + 1
      BY <1>3, <2>5, <2>6, <2>9, <3>1 DEF RInv, EventFiresOnce
    <3>2. CASE q = Len(runs) + 1
      <4>1. r \in DOMAIN runs
        BY <1>3, <2>6, <2>9, <3>2
      <4> QED
        BY <1>3, <2>5, <2>7, <2>8, <2>9, <3>2, <4>1
    <3>3. CASE r = Len(runs) + 1
      <4>1. q \in DOMAIN runs
        BY <1>3, <2>6, <2>9, <3>3
      <4> QED
        BY <1>3, <2>5, <2>7, <2>8, <2>9, <3>3, <4>1
    <3> QED
      BY <3>1, <3>2, <3>3
  <2> QED
    BY <1>2, <2>3, <2>5, <2>9 DEF RInv, RowKept, EventFiresOnce
<1>5. CASE same # {}
  <2>1. RunsKept
    BY <1>5, SameRuns DEF createRun
  <2>2. PICK r \in same : proc' = [proc EXCEPT ![p] =
          IF runs[r].status = "QUEUED" /\ runs[r].revision = proc[p].revision
          THEN [stage |-> next, run |-> r, source |-> proc[p].source, failures |-> proc[p].failures]
          ELSE IF proc[p].source = "SCHEDULED" THEN [stage |-> "RESCHEDULE"]
          ELSE [stage |-> "RELEASE"]]
    BY <1>5 DEF createRun
  <2>3. [stage |-> next, run |-> r, source |-> proc[p].source,
         failures |-> proc[p].failures] \in Starting
    BY <1>1, <1>3 DEF Starting, Creating
  <2>4. proc' \in [Processes -> ProcStates]
    <3> HIDE DEF next
    <3>1. [stage |-> next, run |-> r, source |-> proc[p].source,
           failures |-> proc[p].failures] \in ProcStates
      BY <2>3 DEF ProcStates
    <3> QED
      BY <2>2, <3>1, EndingStates DEF RInv
  <2> QED
    BY <1>2, <2>1, <2>4 DEF RInv, RowKept, RunsKept
<1> QED
  BY <1>4, <1>5

\* What a start writes into its run.
LEMMA StartWrites ==
  ASSUME RInv, NEW p \in Processes,
         \/ \E matched \in BOOLEAN : Observe(p, matched)
         \/ CheckBudget(p) \/ LaunchJob(p) \/ ConditionFails(p)
  PROVE  RunsKept
<1> DEFINE r == proc[p].run
           OfRun(row) == [runs EXCEPT ![r] = row]
<1>1. CASE UNCHANGED runs
  BY <1>1, SameRuns
<1>2. CASE r \notin DOMAIN runs
  <2>1. runs \in [DOMAIN runs -> RunRows]
    BY LenProperties DEF RInv
  <2>2. \A row : OfRun(row) = runs
    BY <1>2, <2>1
  <2>3. UNCHANGED runs \/ \E row : runs' = OfRun(row)
    <3>1. CASE \E matched \in BOOLEAN : Observe(p, matched)
      BY <3>1 DEF Observe
    <3>2. CASE CheckBudget(p)
      BY <3>2 DEF CheckBudget
    <3>3. CASE LaunchJob(p)
      BY <3>3 DEF LaunchJob
    <3>4. CASE ConditionFails(p)
      <4>1. PICK job : runs' = OfRun([runs[r] EXCEPT !.status = "FAILED",
                                        !.job = IF runs[r].job = "NONE" THEN job ELSE runs[r].job])
        BY <3>4 DEF ConditionFails
      <4> QED
        BY <4>1
    <3> QED
      BY <3>1, <3>2, <3>3, <3>4
  <2>4. UNCHANGED runs
    BY <2>2, <2>3
  <2> QED
    BY <2>4, <1>1
<1>3. CASE r \in DOMAIN runs
  <2>1. runs[r] \in RunRows
    BY <1>3, ElementOfSeq, LenProperties DEF RInv
  <2>2. ASSUME NEW matched \in BOOLEAN, Observe(p, matched) PROVE RunsKept
    <3> DEFINE row == [runs[r] EXCEPT !.status = "NO_CHANGE"]
    <3>1. UNCHANGED runs \/ runs' = OfRun(row)
      BY <2>2 DEF Observe
    <3>2. row \in RunRows /\ row.source = runs[r].source /\ row.due = runs[r].due
      BY <2>1 DEF RunRows
    <3> QED
      BY <1>1, <3>1, <3>2, RewrittenRuns
  <2>3. CASE CheckBudget(p)
    <3> DEFINE row == IF Affordable(r) THEN [runs[r] EXCEPT !.budgeted = TRUE]
                      ELSE [runs[r] EXCEPT !.status = "BLOCKED"]
    <3>1. runs' = OfRun(row)
      BY <2>3 DEF CheckBudget
    <3>2. row \in RunRows /\ row.source = runs[r].source /\ row.due = runs[r].due
      BY <2>1 DEF RunRows
    <3> QED
      BY <3>1, <3>2, RewrittenRuns
  <2>4. CASE LaunchJob(p)
    <3> DEFINE row == [runs[r] EXCEPT !.status = "RUNNING",
                         !.job = IF runs[r].job = "NONE" THEN "RUNNING" ELSE runs[r].job]
    <3>1. runs' = OfRun(row)
      BY <2>4 DEF LaunchJob
    <3>2. row \in RunRows /\ row.source = runs[r].source /\ row.due = runs[r].due
      BY <2>1 DEF RunRows, Unfinished
    <3> QED
      BY <3>1, <3>2, RewrittenRuns
  <2>5. CASE ConditionFails(p)
    <3>1. PICK job \in {runs[r].job, "RUNNING"} :
            runs' = OfRun([runs[r] EXCEPT !.status = "FAILED",
                             !.job = IF runs[r].job = "NONE" THEN job ELSE runs[r].job])
      BY <2>5 DEF ConditionFails
    <3> DEFINE row == [runs[r] EXCEPT !.status = "FAILED",
                         !.job = IF runs[r].job = "NONE" THEN job ELSE runs[r].job]
    <3>2. row \in RunRows /\ row.source = runs[r].source /\ row.due = runs[r].due
      BY <2>1 DEF RunRows
    <3> QED
      BY <3>1, <3>2, RewrittenRuns
  <2> QED
    BY <2>2, <2>3, <2>4, <2>5
<1> QED
  BY <1>2, <1>3

LEMMA StartInv ==
  ASSUME RInv, NEW p \in Processes,
         \/ \E matched \in BOOLEAN : Observe(p, matched)
         \/ CheckBudget(p) \/ LaunchJob(p) \/ ReadLaunched(p) \/ ConditionFails(p)
  PROVE  RInv'
<1>1. RowKept /\ Counters'
  BY SameRow, CountersStay DEF Observe, CheckBudget, LaunchJob, ReadLaunched, ConditionFails
<1>2. proc[p] \in Starting
  BY ProcAt DEF Observe, CheckBudget, LaunchJob, ReadLaunched, ConditionFails
<1>3. RunsKept
  <2>1. CASE ReadLaunched(p)
    BY <2>1, SameRuns DEF ReadLaunched
  <2> QED
    BY <2>1, StartWrites
<1>4. proc' \in [Processes -> ProcStates]
  <2>1. \A stage \in {"BUDGET", "LAUNCH", "LAUNCHED"} : [proc[p] EXCEPT !.stage = stage] \in Starting
    BY <1>2 DEF Starting
  <2>2. \A source \in Sources : [stage |-> "LIMIT", source |-> source] \in ProcStates
    BY DEF ProcStates, Limiting
  <2>3. \A status \in {"WATCHING", "COOLING_DOWN"}, failures \in Failures \cup {NULL} :
          [stage |-> "WATCH", status |-> status, failures |-> failures] \in Watching
    BY DEF Watching
  <2>4. Starting \subseteq ProcStates /\ Watching \subseteq ProcStates
    BY DEF ProcStates
  <2>5. 0 \in Failures /\ (~TooMany(proc[p].failures + 1) => proc[p].failures + 1 \in Failures)
    BY <1>2, BoundsAssumption DEF Starting, Failures, TooMany
  <2>6. ASSUME NEW matched \in BOOLEAN, Observe(p, matched)
        PROVE  proc' \in [Processes -> ProcStates]
    <3> DEFINE state == IF matched THEN [proc[p] EXCEPT !.stage = "BUDGET"]
                        ELSE [stage |-> "WATCH", status |-> "WATCHING", failures |-> 0]
    <3>1. proc' = [proc EXCEPT ![p] = state]
      BY <2>6 DEF Observe
    <3>2. state \in ProcStates
      BY <2>1, <2>3, <2>4, <2>5
    <3> QED
      BY <3>1, <3>2, ProcMoves
  <2>7. CASE CheckBudget(p)
    <3>1. proc[p].source \in Sources
      BY <1>2 DEF Starting
    <3> DEFINE state == IF Affordable(proc[p].run) THEN [proc[p] EXCEPT !.stage = "LAUNCH"]
                        ELSE [stage |-> "LIMIT", source |-> proc[p].source]
    <3>2. proc' = [proc EXCEPT ![p] = state]
      BY <2>7 DEF CheckBudget
    <3>3. state \in ProcStates
      BY <2>1, <2>2, <2>4, <3>1
    <3> QED
      BY <3>2, <3>3, ProcMoves
  <2>8. CASE LaunchJob(p)
    <3> DEFINE state == CASE proc[p].source = "MANUAL" -> Idle
             [] proc[p].source = "SCHEDULED" -> [stage |-> "RESCHEDULE"]
             [] proc[p].source = "CONDITION" -> [proc[p] EXCEPT !.stage = "LAUNCHED"]
             [] OTHER -> IF Cooldown THEN [stage |-> "COOL"] ELSE Idle
    <3>1. proc' = [proc EXCEPT ![p] = state]
      BY <2>8 DEF LaunchJob
    <3>2. state \in ProcStates
      BY <2>1, <2>4, EndingStates
    <3> QED
      BY <3>1, <3>2, ProcMoves
  <2>9. CASE ReadLaunched(p)
    <3> DEFINE state == IF runs[proc[p].run].status # "RUNNING" THEN [stage |-> "RELEASE"]
                        ELSE [stage |-> "WATCH", failures |-> NULL,
                              status |-> IF Cooldown THEN "COOLING_DOWN" ELSE "WATCHING"]
    <3>1. proc' = [proc EXCEPT ![p] = state]
      BY <2>9 DEF ReadLaunched
    <3>2. state \in ProcStates
      BY <2>3, <2>4, EndingStates
    <3> QED
      BY <3>1, <3>2, ProcMoves
  <2>10. CASE ConditionFails(p)
    <3> DEFINE state == IF TooMany(proc[p].failures + 1) THEN [stage |-> "LIMIT", source |-> "CONDITION"]
                        ELSE [stage |-> "WATCH", status |-> "WATCHING", failures |-> proc[p].failures + 1]
    <3>1. proc' = [proc EXCEPT ![p] = state]
      BY <2>10 DEF ConditionFails
    <3>2. state \in ProcStates
      BY <2>2, <2>3, <2>4, <2>5 DEF Sources
    <3> QED
      BY <3>1, <3>2, ProcMoves
  <2> QED
    BY <2>6, <2>7, <2>8, <2>9, <2>10
<1> QED
  BY <1>1, <1>3, <1>4 DEF RInv, RowKept, RunsKept

LEMMA LimitInv ==
  ASSUME RInv, NEW p \in Processes, markLimited(p)
  PROVE  RInv'
<1>1. RunsKept /\ Counters'
  BY SameRuns, CountersStay DEF markLimited
<1>2. proc' \in [Processes -> ProcStates]
  BY EndingStates DEF markLimited, RInv
<1>3. RowKept
  <2>1. routine' = Limited(routine) \/ routine' = Freed(Limited(routine), p)
    BY DEF markLimited
  <2>2. /\ routine' \in RoutineRows
        /\ routine'.status = Limited(routine).status /\ routine'.next = Limited(routine).next
    BY <2>1, FreedRow, LimitedRow DEF RInv
  <2> QED
    BY <2>2, LimitedRow DEF RInv, RowKept, HaltedIsNotScheduled
<1> QED
  BY <1>1, <1>2, <1>3 DEF RInv, RowKept, RunsKept

-----------------------------------------------------------------------------
(* The scheduler                                                           *)

LEMMA ReadInv ==
  ASSUME RInv, NEW s \in Schedulers,
         \/ claimDueRoutine(s) \/ ReadClaimed(s)
         \/ \E e \in 1 .. events : ReadEvent(s, e)
         \/ \E r \in DOMAIN runs : ReadEnded(s, r)
  PROVE  RInv'
<1>1. RunsKept /\ Counters'
  BY SameRuns, CountersStay DEF claimDueRoutine, ReadClaimed, ReadEvent, ReadEnded
<1>2. CASE claimDueRoutine(s)
  <2>1. RowKept
    BY <1>2 DEF claimDueRoutine, RInv, RowKept, RoutineRows, HaltedIsNotScheduled
  <2>2. [stage |-> "CLAIMED", due |-> routine.next] \in ProcStates
    BY DEF RInv, RoutineRows, ProcStates, Claimed
  <2>3. proc' \in [Processes -> ProcStates]
    BY <1>2, <2>2, ProcMoves DEF claimDueRoutine
  <2> QED
    BY <1>1, <2>1, <2>3 DEF RInv, RowKept, RunsKept
<1>3. CASE ReadClaimed(s)
  <2> DEFINE create == [stage |-> "CREATE", source |-> routine.trigger, due |-> proc[s].due,
                        revision |-> routine.revision, budget |-> routine.budget,
                        failures |-> routine.failures]
             watch == [stage |-> "WATCH", status |-> "WATCHING", failures |-> NULL]
  <2>1. proc[s].due \in Dues
    <3>1. proc[s] \in Claimed
      BY <1>3, ProcAt DEF ReadClaimed, Processes
    <3> QED
      BY <3>1, BoundsAssumption DEF Claimed, NextRuns, Dues
  <2>2. create \in Creating
    BY <2>1, TriggersAssumption DEF RInv, RoutineRows, Creating, Sources
  <2>3. watch \in Watching
    BY DEF Watching
  <2>4. create \in ProcStates /\ watch \in ProcStates
    BY <2>2, <2>3 DEF ProcStates
  <2>5. \E state \in {[stage |-> "RELEASE"], [stage |-> "RESCHEDULE"], create, watch} :
          proc' = [proc EXCEPT ![s] = state]
    BY <1>3 DEF ReadClaimed
  <2>6. proc' \in [Processes -> ProcStates]
    <3> HIDE DEF create, watch
    <3> QED
      BY <2>4, <2>5, EndingStates DEF RInv
  <2>7. RowKept
    BY <1>3, SameRow DEF ReadClaimed
  <2> QED
    BY <1>1, <2>6, <2>7 DEF RInv, RowKept, RunsKept
<1>4. ASSUME NEW e \in 1 .. events, ReadEvent(s, e) PROVE RInv'
  <2>1. [stage |-> "CREATE", source |-> "EVENT", due |-> e, revision |-> routine.revision,
         budget |-> routine.budget, failures |-> 0] \in Creating
    BY BoundsAssumption DEF RInv, Counters, RoutineRows, Creating, Sources, Dues, Failures
  <2>2. proc' \in [Processes -> ProcStates]
    BY <1>4, <2>1, ProcMoves DEF ReadEvent, ProcStates
  <2>3. RowKept
    BY <1>4, SameRow DEF ReadEvent
  <2> QED
    BY <1>1, <2>2, <2>3 DEF RInv, RowKept, RunsKept
<1>5. ASSUME NEW r \in DOMAIN runs, ReadEnded(s, r) PROVE RInv'
  <2>1. [stage |-> "RECONCILE", run |-> r, failures |-> routine.failures] \in Reconciling
    BY LenProperties DEF RInv, RoutineRows, Reconciling
  <2>2. proc' \in [Processes -> ProcStates]
    BY <1>5, <2>1, ProcMoves DEF ReadEnded, ProcStates
  <2>3. RowKept
    BY <1>5, SameRow DEF ReadEnded
  <2> QED
    BY <1>1, <2>2, <2>3 DEF RInv, RowKept, RunsKept
<1> QED
  BY <1>2, <1>3, <1>4, <1>5

LEMMA WriteInv ==
  ASSUME RInv, NEW s \in Schedulers, Reschedule(s) \/ Watch(s) \/ Release(s) \/ Cool(s)
  PROVE  RInv'
<1>1. RunsKept /\ Counters'
  BY SameRuns, CountersStay DEF Reschedule, Watch, Release, Cool
<1>2. proc' \in [Processes -> ProcStates]
  BY ProcIdles DEF Reschedule, Watch, Release, Cool
<1>3. \E row \in RoutineRows :
        /\ row.status \in Halted => row.next = NULL
        /\ routine' = row \/ routine' = Freed(row, s)
  <2>1. routine.status \in Halted => routine.next = NULL
    BY DEF RInv, HaltedIsNotScheduled
  <2>2. CASE Reschedule(s)
    <3> DEFINE row == [routine EXCEPT !.status = "ACTIVE", !.next = now + 1]
    <3>1. row \in RoutineRows /\ row.status = "ACTIVE"
      BY NextRunTyped DEF RInv, RoutineRows, Statuses, AutomaticStatuses
    <3>2. routine' = Freed(row, s) \/ routine' = Freed(routine, s)
      BY <2>2 DEF Reschedule
    <3>3. row.status \notin Halted
      BY <3>1 DEF Halted
    <3> HIDE DEF row
    <3> QED
      BY <2>1, <3>1, <3>2, <3>3 DEF RInv
  <2>3. CASE Watch(s)
    <3>1. proc[s] \in Watching
      BY <2>3, ProcAt DEF Watch, Processes
    <3>2. PICK failures \in Failures :
            \/ routine' = Freed(routine, s)
            \/ routine' = Freed([routine EXCEPT !.status = proc[s].status, !.next = now + 1,
                                                !.failures = failures], s)
      BY <2>3, <3>1 DEF Watch, Watching, RInv, RoutineRows
    <3> DEFINE row == [routine EXCEPT !.status = proc[s].status, !.next = now + 1,
                                      !.failures = failures]
    <3>3. proc[s].status \in Statuses \ Halted
      BY <3>1 DEF Watching, Statuses, AutomaticStatuses, Halted
    <3>4. row \in RoutineRows /\ row.status \notin Halted
      BY <3>3, NextRunTyped DEF RInv, RoutineRows
    <3> HIDE DEF row
    <3>5. routine' = Freed(routine, s) \/ routine' = Freed(row, s)
      BY <3>2 DEF row
    <3> QED
      BY <2>1, <3>4, <3>5 DEF RInv
  <2>4. CASE Release(s)
    BY <2>1, <2>4 DEF Release, RInv
  <2>5. CASE Cool(s)
    <3> DEFINE row == [routine EXCEPT !.status = "COOLING_DOWN", !.next = now + 1]
    <3>1. row \in RoutineRows /\ row.status \notin Halted
      BY NextRunTyped DEF RInv, RoutineRows, Statuses, AutomaticStatuses, Halted
    <3>2. routine' = row \/ routine' = routine
      BY <2>5 DEF Cool
    <3> HIDE DEF row
    <3> QED
      BY <2>1, <3>1, <3>2 DEF RInv
  <2> QED
    BY <2>2, <2>3, <2>4, <2>5
<1>4. RowKept
  BY <1>3, FreedRow DEF RowKept, HaltedIsNotScheduled
<1> QED
  BY <1>1, <1>2, <1>4 DEF RInv, RowKept, RunsKept

LEMMA ReconcileInv ==
  ASSUME RInv, NEW s \in Schedulers, NEW cost \in Costs, Reconcile(s, cost)
  PROVE  RInv'
<1> DEFINE r == proc[s].run
           job == runs[r].job
           failures == proc[s].failures + 1
<1>1. Counters' /\ proc' \in [Processes -> ProcStates]
  BY CountersStay, ProcIdles DEF Reconcile
<1>2. RunsKept
  <2> DEFINE row == [runs[r] EXCEPT !.cost = cost, !.status =
               CASE job = "COMPLETED" -> "COMPLETED" [] job = "REQUIRES_USER" -> "NEEDS_USER"
                 [] OTHER -> "FAILED"]
  <2>1. runs' = [runs EXCEPT ![r] = row]
    BY DEF Reconcile
  <2>2. r \in DOMAIN runs => runs[r] \in RunRows
    BY ElementOfSeq, LenProperties DEF RInv
  <2>3. r \in DOMAIN runs => row \in RunRows /\ row.source = runs[r].source /\ row.due = runs[r].due
    BY <2>2 DEF RunRows
  <2> QED
    BY <2>1, <2>3, RewrittenRuns
<1>3. RowKept
  <2>1. proc[s] \in Reconciling
    BY ProcAt DEF Reconcile, Processes
  <2>2. \/ UNCHANGED routine
        \/ \E n \in Failures :
             routine' = [routine EXCEPT !.failures = n] \/ routine' = Limited([routine EXCEPT !.failures = n])
        \/ routine' = Limited(routine)
        \/ routine' = [routine EXCEPT !.status = "NEEDS_USER", !.next = NULL]
    <3>1. 0 \in Failures /\ (~TooMany(failures) => failures \in Failures)
      BY <2>1, BoundsAssumption DEF Reconciling, Failures, TooMany
    <3> QED
      BY <3>1 DEF Reconcile
  <2>3. CASE UNCHANGED routine
    BY <2>3, SameRow
  <2>4. ASSUME NEW n \in Failures,
               routine' = [routine EXCEPT !.failures = n] \/ routine' = Limited([routine EXCEPT !.failures = n])
        PROVE  RowKept
    <3> DEFINE row == [routine EXCEPT !.failures = n]
    <3>1. row \in RoutineRows /\ row.status = routine.status /\ row.next = routine.next
      BY DEF RInv, RoutineRows
    <3>2. routine' = row \/ routine' = Limited(row)
      BY <2>4
    <3> HIDE DEF row
    <3> QED
      BY <3>1, <3>2, LimitedRow DEF RInv, RowKept, HaltedIsNotScheduled
  <2>5. CASE routine' = Limited(routine)
    BY <2>5, LimitedRow DEF RInv, RowKept, HaltedIsNotScheduled
  <2>6. CASE routine' = [routine EXCEPT !.status = "NEEDS_USER", !.next = NULL]
    BY <2>6 DEF RInv, RoutineRows, Statuses, Halted, NextRuns, RowKept, HaltedIsNotScheduled
  <2> QED
    BY <2>2, <2>3, <2>4, <2>5, <2>6
<1> QED
  BY <1>1, <1>2, <1>3 DEF RInv, RowKept, RunsKept

-----------------------------------------------------------------------------
(* The user, the clock and the jobs                                        *)

LEMMA RowInv ==
  ASSUME RInv,
         \/ \E status \in {"PAUSED", "STOPPED"} : setRoutineStatus(status)
         \/ expireRoutines \/ releaseCooldowns \/ LeaseLapses \/ Lapse
  PROVE  RInv'
<1>1. RunsKept /\ Counters'
  BY SameRuns, CountersStay DEF setRoutineStatus, expireRoutines, releaseCooldowns, LeaseLapses, Lapse
<1>2. proc' \in [Processes -> ProcStates]
  BY DEF RInv, setRoutineStatus, expireRoutines, releaseCooldowns, LeaseLapses, Lapse
<1>3. RowKept
  <2>1. ASSUME NEW status \in {"PAUSED", "STOPPED", "EXPIRED"},
               routine' = [routine EXCEPT !.status = status, !.next = NULL]
        PROVE  RowKept
    BY <2>1 DEF RInv, RoutineRows, Statuses, Halted, NextRuns, RowKept, HaltedIsNotScheduled
  <2>2. CASE releaseCooldowns
    <3>1. PICK status \in Statuses \ Halted, next \in NextRuns :
            routine' = [routine EXCEPT !.status = status, !.next = next]
      BY <2>2, NextRunTyped DEF releaseCooldowns, Statuses, AutomaticStatuses, Halted, NextRuns
    <3> QED
      BY <3>1 DEF RInv, RoutineRows, RowKept, HaltedIsNotScheduled
  <2>3. CASE LeaseLapses
    BY <2>3 DEF LeaseLapses, RInv, RoutineRows, RowKept, HaltedIsNotScheduled
  <2>4. CASE Lapse
    BY <2>4 DEF Lapse, RInv, RoutineRows, RowKept, HaltedIsNotScheduled
  <2> QED
    BY <2>1, <2>2, <2>3, <2>4 DEF setRoutineStatus, expireRoutines
<1> QED
  BY <1>1, <1>2, <1>3 DEF RInv, RowKept, RunsKept

LEMMA WorldInv ==
  ASSUME RInv,
         \/ \E r \in DOMAIN runs, outcome \in {"COMPLETED", "REQUIRES_USER", "FAILED_FINAL"} : EndJob(r, outcome)
         \/ Tick \/ Event \/ \E p \in Processes : Crash(p)
  PROVE  RInv'
<1>1. RowKept
  <2>1. UNCHANGED routine \/ \E p : routine' = Freed(routine, p)
    BY DEF EndJob, Tick, Event, Crash
  <2> QED
    BY <2>1, SameRow, FreedRow DEF RInv, RowKept, HaltedIsNotScheduled
<1>2. Counters'
  <2>1. MaxEvents \in Nat /\ MaxNow \in Nat /\ MaxCrashes \in Nat
    BY BoundsAssumption
  <2>2. /\ UNCHANGED events \/ (events < MaxEvents /\ events' = events + 1)
        /\ UNCHANGED now \/ (now < MaxNow /\ now' = now + 1)
        /\ UNCHANGED crashes \/ (crashes < MaxCrashes /\ crashes' = crashes + 1)
    BY DEF EndJob, Tick, Event, Crash
  <2> QED
    BY <2>1, <2>2 DEF RInv, Counters
<1>3. proc' \in [Processes -> ProcStates]
  BY ProcIdles DEF EndJob, Tick, Event, Crash, RInv
<1>4. RunsKept
  <2>1. CASE UNCHANGED runs
    BY <2>1, SameRuns
  <2>2. ASSUME NEW r \in DOMAIN runs, NEW outcome \in {"COMPLETED", "REQUIRES_USER", "FAILED_FINAL"},
               EndJob(r, outcome)
        PROVE  RunsKept
    <3> DEFINE row == [runs[r] EXCEPT !.job = outcome]
    <3>1. runs' = [runs EXCEPT ![r] = row]
      BY <2>2 DEF EndJob
    <3>2. runs[r] \in RunRows
      BY ElementOfSeq, LenProperties DEF RInv
    <3>3. row \in RunRows /\ row.source = runs[r].source /\ row.due = runs[r].due
      BY <3>2 DEF RunRows
    <3> QED
      BY <3>1, <3>3, RewrittenRuns
  <2> QED
    BY <2>1, <2>2 DEF Tick, Event, Crash
<1> QED
  BY <1>1, <1>2, <1>3, <1>4 DEF RInv, RowKept, RunsKept

-----------------------------------------------------------------------------
(* The theorems                                                            *)

LEMMA NextRInv == RInv /\ [Next]_vars => RInv'
<1> SUFFICES ASSUME RInv, [Next]_vars PROVE RInv'
  OBVIOUS
<1>1. CASE UNCHANGED vars
  <2>1. RowKept /\ RunsKept /\ Counters'
    BY <1>1, SameRow, SameRuns, CountersStay DEF vars
  <2> QED
    BY <1>1, <2>1 DEF RInv, RowKept, RunsKept, vars
<1>2. ASSUME NEW p \in Processes, Steps(p) PROVE RInv'
  BY <1>2, CreateInv, StartInv, LimitInv DEF Steps
<1>3. ASSUME NEW s \in Schedulers, Scheduler(s) PROVE RInv'
  <2>1. CASE Steps(s)
    BY <1>2, <2>1 DEF Processes
  <2>2. CASE \/ claimDueRoutine(s) \/ ReadClaimed(s)
             \/ \E e \in 1 .. events : ReadEvent(s, e)
             \/ \E r \in DOMAIN runs : ReadEnded(s, r)
    BY <2>2, ReadInv
  <2>3. CASE Reschedule(s) \/ Watch(s) \/ Release(s) \/ Cool(s)
    BY <2>3, WriteInv
  <2>4. CASE \E cost \in Costs : Reconcile(s, cost)
    BY <2>4, ReconcileInv
  <2> QED
    BY <1>3, <2>1, <2>2, <2>3, <2>4 DEF Scheduler
<1>4. ASSUME NEW h \in Handlers, Handler(h) PROVE RInv'
  <2>1. CASE Steps(h)
    BY <1>2, <2>1 DEF Processes
  <2>2. CASE (\E op \in {"activate", "resume", "revise"} : BeginChange(h, op)) \/ BeginRunNow(h)
    BY <2>2, ChangeBegins
  <2>3. CASE \/ activateRoutine(h) \/ resumeRoutine(h)
             \/ \E trigger \in Triggers, lapsed \in {FALSE, routine.lapsed}, budget \in Budgets :
                  reviseRoutine(h, trigger, lapsed, budget)
    BY <2>3, ChangeWrites
  <2> QED
    BY <1>4, <2>1, <2>2, <2>3 DEF Handler
<1>5. CASE \/ \E status \in {"PAUSED", "STOPPED"} : setRoutineStatus(status)
           \/ expireRoutines \/ releaseCooldowns \/ LeaseLapses \/ Lapse
  BY <1>5, RowInv
<1>6. CASE \/ \E r \in DOMAIN runs, outcome \in {"COMPLETED", "REQUIRES_USER", "FAILED_FINAL"} :
                EndJob(r, outcome)
           \/ Tick \/ Event \/ \E p \in Processes : Crash(p)
  BY <1>6, WorldInv
<1> QED
  BY <1>1, <1>3, <1>4, <1>5, <1>6 DEF Next, Processes

LEMMA Invariant == Spec => []RInv
<1> QED
  BY InitRInv, NextRInv, PTL DEF Spec

\* The routine's row, its runs and the counters have their types.
THEOREM TypeCorrect == Spec => []TypeOK
<1>1. RInv => TypeOK
  <2> SUFFICES ASSUME RInv PROVE TypeOK
    OBVIOUS
  <2>1. ASSUME NEW r \in DOMAIN runs
        PROVE  /\ runs[r].status \in Unfinished \cup {"COMPLETED", "NO_CHANGE", "BLOCKED", "NEEDS_USER", "FAILED"}
               /\ runs[r].budget \in Budgets
               /\ runs[r].job \in {"NONE", "RUNNING", "COMPLETED", "REQUIRES_USER", "FAILED_FINAL"}
    <3>1. runs[r] \in RunRows
      BY ElementOfSeq, LenProperties DEF RInv
    <3> QED
      BY <3>1 DEF RunRows
  <2>2. /\ routine.status \in Statuses /\ routine.trigger \in Triggers /\ routine.budget \in Budgets
        /\ routine.next \in NextRuns /\ routine.failures \in Failures
        /\ routine.lease \in Schedulers \cup {NULL}
    BY DEF RInv, RoutineRows
  <2> QED
    BY <2>1, <2>2 DEF RInv, TypeOK, Counters, Statuses, NextRuns, Failures
<1> QED
  BY Invariant, <1>1, PTL

\* A halted routine is never due, whatever a replica or a request that read it
\* before still writes (setRoutineStatus, markLimited, reviseRoutine).
THEOREM HaltedStaysUnscheduled == Spec => []HaltedIsNotScheduled
<1>1. RInv => HaltedIsNotScheduled
  BY DEF RInv
<1> QED
  BY Invariant, <1>1, PTL

\* However many replicas see an event, and whoever of them dies, it has one run
\* (createRun, the unique keys of routine_run).
THEOREM EventsFireOnce == Spec => []EventFiresOnce
<1>1. RInv => EventFiresOnce
  BY DEF RInv
<1> QED
  BY Invariant, <1>1, PTL

\* No replica brings a halted routine back; a request to activate, resume or
\* revise it is what does (processScheduledRoutine, evaluateConditionRoutine).
THEOREM ReplicasDoNotResume == Spec => OnlyUserResumes
<1> DEFINE Resumes == \E h \in Handlers :
             proc[h].stage \in {"activate", "resume", "revise"} /\ proc'[h] = Idle
           OnlyUser == routine.status \in Halted /\ routine'.status \notin Halted => Resumes
<1>1. RInv /\ [Next]_vars => OnlyUser
  <2> SUFFICES ASSUME RInv, [Next]_vars, routine.status \in Halted, routine'.status \notin Halted
               PROVE  Resumes
    OBVIOUS
  <2>1. routine' # routine
    OBVIOUS
  <2>2. ASSUME NEW p, NEW row \in RoutineRows, row.status \in Halted, routine' = Freed(row, p) \/ routine' = row
        PROVE  FALSE
    BY <2>2, FreedRow
  <2>3. Limited(routine) \in RoutineRows /\ Limited(routine).status \in Halted
    BY LimitedRow DEF RInv, Halted
  <2>4. ASSUME NEW p, markLimited(p) PROVE FALSE
    BY <2>2, <2>3, <2>4 DEF markLimited
  <2>5. ASSUME NEW s, Reschedule(s) \/ Watch(s) \/ Release(s) \/ Cool(s) PROVE FALSE
    <3>1. routine' = Freed(routine, s) \/ routine' = routine
      BY <2>5 DEF Reschedule, Watch, Release, Cool, MayReschedule, MayWatch, Halted
    <3> QED
      BY <2>2, <3>1 DEF RInv
  <2>6. ASSUME NEW s, NEW cost, Reconcile(s, cost) PROVE FALSE
    <3>1. \/ routine'.status = routine.status
          \/ \E row \in {routine, [routine EXCEPT !.failures = 0]} : routine' = Limited(row)
          \/ routine'.status = "NEEDS_USER"
      BY <2>6 DEF Reconcile, RInv, RoutineRows
    <3>2. /\ [routine EXCEPT !.failures = 0] \in RoutineRows
          /\ [routine EXCEPT !.failures = 0].status = routine.status
      BY BoundsAssumption DEF RInv, RoutineRows, Failures
    <3>3. ASSUME NEW row \in RoutineRows, row.status = routine.status, routine' = Limited(row)
          PROVE  FALSE
      BY <3>3, LimitedRow DEF Halted
    <3> QED
      BY <3>1, <3>2, <3>3 DEF RInv, Halted
  <2>7. ASSUME NEW s, claimDueRoutine(s) PROVE FALSE
    BY <2>7 DEF claimDueRoutine, Halted
  <2>8. ~(setRoutineStatus("PAUSED") \/ setRoutineStatus("STOPPED") \/ expireRoutines)
    BY DEF setRoutineStatus, expireRoutines, RInv, RoutineRows, Halted
  <2>9. ~(releaseCooldowns \/ LeaseLapses \/ Lapse)
    BY DEF releaseCooldowns, LeaseLapses, Lapse, RInv, RoutineRows, Halted
  <2>10. ASSUME NEW p, Crash(p) PROVE FALSE
    BY <2>1, <2>2, <2>10 DEF Crash, RInv
  <2>11. PICK h \in Handlers : \/ activateRoutine(h) \/ resumeRoutine(h)
                               \/ \E trigger \in Triggers, lapsed \in {FALSE, routine.lapsed},
                                     budget \in Budgets : reviseRoutine(h, trigger, lapsed, budget)
    BY <2>1, <2>4, <2>5, <2>6, <2>7, <2>8, <2>9, <2>10 DEF Next, vars, Scheduler, Handler, Steps,
       createRun, Observe, CheckBudget, LaunchJob, ReadLaunched, ConditionFails, ReadClaimed, ReadEvent,
       ReadEnded, BeginChange, BeginRunNow, EndJob, Tick, Event
  <2>12. proc'[h] = Idle /\ proc[h].stage \in {"activate", "resume", "revise"}
    BY <2>11 DEF activateRoutine, resumeRoutine, reviseRoutine, RInv, Processes
  <2> QED
    BY <2>12
<1>2. RInv /\ [Next]_vars => [OnlyUser]_vars
  BY <1>1
<1> QED
  BY Invariant, <1>2, PTL DEF Spec, OnlyUserResumes

-----------------------------------------------------------------------------
(* The budget                                                              *)

LEMMA RunsFinite ==
  ASSUME RInv
  PROVE  IsFiniteSet(DOMAIN runs)
<1>1. DOMAIN runs = 1 .. Len(runs) /\ Len(runs) \in Nat
  BY LenProperties DEF RInv
<1> QED
  BY <1>1, FS_Interval

\* What a run has cost and may cost are numbers.
LEMMA RunAmounts ==
  ASSUME RInv, NEW r \in DOMAIN runs
  PROVE  runs[r].cost \in Nat /\ runs[r].budget.max \in Nat /\ runs[r].budget.limit \in Nat
<1>1. runs[r] \in RunRows
  BY ElementOfSeq, LenProperties DEF RInv
<1>2. runs[r].cost \in Costs \cup {0} /\ runs[r].budget \in Budgets
  BY <1>1 DEF RunRows
<1>3. runs[r].cost \in Nat
  BY <1>2, CostsAssumption
<1>4. runs[r].budget \in [max : Nat, limit : Nat]
  BY <1>2, BudgetAssumption
<1> QED
  BY <1>3, <1>4

LEMMA SpentType ==
  ASSUME RInv
  PROVE  Spent \in Nat
<1> DEFINE Ended == {q \in DOMAIN runs : runs[q].status \notin Unfinished}
           f == [r \in Ended |-> runs[r].cost]
<1>1. \A r \in Ended : runs[r].cost \in Nat
  BY RunAmounts
<1>2. IsFiniteSet(Ended)
  BY RunsFinite, FS_Subset
<1>3. DOMAIN f = Ended /\ \A r \in Ended : f[r] = runs[r].cost
  OBVIOUS
<1> HIDE DEF f, Ended
<1>4. SumFunction(f) \in Nat
  BY <1>1, <1>2, <1>3, FunctionSumType
<1> QED
  BY <1>4 DEF Spent, SpentBy, f, Ended

\* The ceilings of fewer runs sum to less, whatever else of the runs changes.
LEMMA CeilingsGrow ==
  ASSUME RInv, NEW S \in SUBSET DOMAIN runs, NEW T \in SUBSET S,
         \A q \in T : runs'[q].budget = runs[q].budget
  PROVE  Ceilings(S) \in Nat /\ SumFunction([q \in T |-> runs'[q].budget.max]) <= Ceilings(S)
<1> DEFINE f == [q \in T |-> runs'[q].budget.max]
           g == [q \in S |-> runs[q].budget.max]
<1>1. IsFiniteSet(S)
  BY RunsFinite, FS_Subset
<1>2. DOMAIN f = T /\ DOMAIN g = S /\ T \subseteq S
  OBVIOUS
<1>3. (\A q \in S : g[q] \in Nat) /\ \A q \in T : g[q] = f[q]
  BY RunAmounts
<1>4. Ceilings(S) = SumFunction(g)
  BY DEF Ceilings
<1>5. SumFunction([q \in T |-> runs'[q].budget.max]) = SumFunction(f)
  OBVIOUS
<1> HIDE DEF f, g
<1>6. SumFunction(g) \in Nat
  BY <1>1, <1>2, <1>3, FunctionSumType
<1>7. SumFunction(f) <= SumFunction(g)
  BY <1>1, <1>2, <1>3, FunctionSumGrows
<1> QED
  BY <1>4, <1>6, <1>7, <1>5

\* The ceiling of one run more is added.
LEMMA CeilingsAdd ==
  ASSUME RInv, NEW S \in SUBSET DOMAIN runs, NEW r \in DOMAIN runs \ S
  PROVE  Ceilings(S \cup {r}) = Ceilings(S) + runs[r].budget.max
<1> DEFINE f == [q \in S |-> runs[q].budget.max]
           g == [q \in S \cup {r} |-> runs[q].budget.max]
<1>1. IsFiniteSet(S)
  BY RunsFinite, FS_Subset
<1>2. DOMAIN f = S /\ DOMAIN g = S \cup {r} /\ g[r] = runs[r].budget.max
  OBVIOUS
<1>3. (\A q \in S \cup {r} : g[q] \in Nat) /\ \A q \in S : g[q] = f[q]
  BY RunAmounts
<1>4. Ceilings(S) = SumFunction(f) /\ Ceilings(S \cup {r}) = SumFunction(g)
  BY DEF Ceilings
<1> HIDE DEF f, g
<1>5. SumFunction(g) = SumFunction(f) + g[r]
  BY <1>1, <1>2, <1>3, FunctionSumAdd
<1> QED
  BY <1>2, <1>4, <1>5

\* Only the check of the budget lets a run through.
LEMMA OnlyCheckLetsThrough ==
  ASSUME RInv, [Next]_vars, NEW r \in DOMAIN runs, runs'[r].budgeted, ~runs[r].budgeted
  PROVE  \E p \in Processes : CheckBudget(p) /\ proc[p].run = r /\ Affordable(r)
<1>1. runs \in [DOMAIN runs -> RunRows] /\ DOMAIN runs = 1 .. Len(runs) /\ Len(runs) \in Nat
  BY LenProperties DEF RInv
<1>2. runs[r] \in RunRows /\ runs' # runs
  BY <1>1
<1>3. ASSUME NEW q, NEW row, runs' = [runs EXCEPT ![q] = row], q = r => row.budgeted = runs[r].budgeted
      PROVE  FALSE
  BY <1>1, <1>3
<1>4. ASSUME NEW p \in Processes, createRun(p) PROVE FALSE
  <2>1. \E new : runs' = Append(runs, new)
    BY <1>2, <1>4 DEF createRun
  <2> QED
    BY <1>1, <2>1
<1>5. ASSUME NEW p \in Processes, NEW matched, Observe(p, matched) PROVE FALSE
  <2> DEFINE row == [runs[proc[p].run] EXCEPT !.status = "NO_CHANGE"]
  <2>1. runs' = [runs EXCEPT ![proc[p].run] = row]
    BY <1>2, <1>5 DEF Observe
  <2>2. proc[p].run = r => row.budgeted = runs[r].budgeted
    BY <1>2 DEF RunRows
  <2> QED
    BY <1>3, <2>1, <2>2
<1>6. ASSUME NEW p \in Processes, LaunchJob(p) PROVE FALSE
  <2> DEFINE q == proc[p].run
             row == [runs[q] EXCEPT !.status = "RUNNING",
                       !.job = IF runs[q].job = "NONE" THEN "RUNNING" ELSE runs[q].job]
  <2>1. runs' = [runs EXCEPT ![q] = row]
    BY <1>6 DEF LaunchJob
  <2>2. q = r => row.budgeted = runs[r].budgeted
    BY <1>2 DEF RunRows
  <2> QED
    BY <1>3, <2>1, <2>2
<1>7. ASSUME NEW p \in Processes, ConditionFails(p) PROVE FALSE
  <2> DEFINE q == proc[p].run
             row(job) == [runs[q] EXCEPT !.status = "FAILED",
                            !.job = IF runs[q].job = "NONE" THEN job ELSE runs[q].job]
  <2>1. PICK job : runs' = [runs EXCEPT ![q] = row(job)]
    BY <1>7 DEF ConditionFails
  <2>2. q = r => row(job).budgeted = runs[r].budgeted
    BY <1>2 DEF RunRows
  <2> QED
    BY <1>3, <2>1, <2>2
<1>8. ASSUME NEW s \in Schedulers, NEW cost, Reconcile(s, cost) PROVE FALSE
  <2> DEFINE q == proc[s].run
             row == [runs[q] EXCEPT !.cost = cost, !.status =
                       CASE runs[q].job = "COMPLETED" -> "COMPLETED"
                         [] runs[q].job = "REQUIRES_USER" -> "NEEDS_USER" [] OTHER -> "FAILED"]
  <2>1. runs' = [runs EXCEPT ![q] = row]
    BY <1>8 DEF Reconcile
  <2>2. q = r => row.budgeted = runs[r].budgeted
    BY <1>2 DEF RunRows
  <2> QED
    BY <1>3, <2>1, <2>2
<1>9. ASSUME NEW q \in DOMAIN runs, NEW outcome, EndJob(q, outcome) PROVE FALSE
  <2> DEFINE row == [runs[q] EXCEPT !.job = outcome]
  <2>1. runs' = [runs EXCEPT ![q] = row]
    BY <1>9 DEF EndJob
  <2>2. q = r => row.budgeted = runs[r].budgeted
    BY <1>2 DEF RunRows
  <2> QED
    BY <1>3, <2>1, <2>2
<1>10. PICK p \in Processes : CheckBudget(p)
  <2>1. \/ UNCHANGED runs
        \/ \E p \in Processes : createRun(p)
        \/ \E p \in Processes, matched \in BOOLEAN : Observe(p, matched)
        \/ \E p \in Processes : CheckBudget(p) \/ LaunchJob(p) \/ ConditionFails(p)
        \/ \E s \in Schedulers, cost \in Costs : Reconcile(s, cost)
        \/ \E q \in DOMAIN runs, outcome \in {"COMPLETED", "REQUIRES_USER", "FAILED_FINAL"} :
             EndJob(q, outcome)
    BY DEF Processes, Next, vars, Scheduler, Handler, Steps, claimDueRoutine, ReadClaimed, markLimited,
           ReadLaunched, Reschedule, Watch, Release, Cool, ReadEvent, ReadEnded, BeginChange,
           activateRoutine, resumeRoutine, reviseRoutine, BeginRunNow, Crash, setRoutineStatus,
           expireRoutines, releaseCooldowns, LeaseLapses, Tick, Event, Lapse
  <2> QED
    BY <1>2, <1>4, <1>5, <1>6, <1>7, <1>8, <1>9, <2>1
<1>11. proc[p].run = r /\ Affordable(r)
  <2> DEFINE q == proc[p].run
             row == IF Affordable(q) THEN [runs[q] EXCEPT !.budgeted = TRUE]
                    ELSE [runs[q] EXCEPT !.status = "BLOCKED"]
  <2>1. runs' = [runs EXCEPT ![q] = row]
    BY <1>10 DEF CheckBudget
  <2>2. ~(q = r /\ Affordable(q)) => (q = r => row.budgeted = runs[r].budgeted)
    BY <1>2 DEF RunRows
  <2> HIDE DEF row
  <2> QED
    BY <1>3, <2>1, <2>2
<1> QED
  BY <1>10, <1>11

\* A run is let through only while what has been spent and what every run let
\* through before it may still cost leave room for it, however the checks of
\* replicas and requests and the revisions of the budget interleave: each check
\* counts every unfinished run, under the ceiling of that run's own revision.
THEOREM StartsStayWithinBudget == Spec => StartsWithinBudget
<1> DEFINE Within == \A r \in DOMAIN runs :
             runs'[r].budgeted /\ ~runs[r].budgeted => Committed' <= runs[r].budget.limit
<1>1. RInv /\ [Next]_vars => Within
  <2> SUFFICES ASSUME RInv, [Next]_vars, NEW r \in DOMAIN runs, runs'[r].budgeted, ~runs[r].budgeted
               PROVE  Committed' <= runs[r].budget.limit
    OBVIOUS
  <2> DEFINE Others == {q \in DOMAIN runs \ {r} : runs[q].status \in Unfinished}
             max == runs[r].budget.max
             limit == runs[r].budget.limit
  <2>1. PICK p \in Processes : CheckBudget(p) /\ proc[p].run = r /\ Affordable(r)
    BY OnlyCheckLetsThrough
  <2>2. runs' = [runs EXCEPT ![r] = [runs[r] EXCEPT !.budgeted = TRUE]]
    BY <2>1 DEF CheckBudget
  <2>3. runs \in [DOMAIN runs -> RunRows]
    BY LenProperties DEF RInv
  <2>4. /\ DOMAIN runs' = DOMAIN runs
        /\ \A q \in DOMAIN runs : /\ runs'[q].status = runs[q].status /\ runs'[q].cost = runs[q].cost
                                  /\ runs'[q].budget = runs[q].budget
                                  /\ q # r => runs'[q] = runs[q]
    BY <2>2, <2>3 DEF RunRows
  <2>5. Spent' = Spent
    <3>1. {q \in DOMAIN runs' : runs'[q].status \notin Unfinished}
            = {q \in DOMAIN runs : runs[q].status \notin Unfinished}
      BY <2>4
    <3>2. [q \in {x \in DOMAIN runs' : runs'[x].status \notin Unfinished} |-> runs'[q].cost]
            = [q \in {x \in DOMAIN runs : runs[x].status \notin Unfinished} |-> runs[q].cost]
      BY <2>4, <3>1
    <3> QED
      BY <3>2 DEF Spent, SpentBy
  <2> DEFINE T == {q \in DOMAIN runs' : runs'[q].budgeted /\ runs'[q].status \in Unfinished}
             S == Others \cup {r}
  <2>6. T \subseteq S /\ Others \subseteq DOMAIN runs /\ r \notin Others
    BY <2>4
  <2>7. Spent + Ceilings(Others) + max <= limit
    BY <2>1 DEF Affordable, Reserved
  <2>8. Committed' = Spent + SumFunction([q \in T |-> runs'[q].budget.max])
    BY <2>5 DEF Committed, Ceilings
  <2> HIDE DEF Others, T
  <2>9. S \in SUBSET DOMAIN runs /\ T \in SUBSET S /\ \A q \in T : runs'[q].budget = runs[q].budget
    BY <2>4, <2>6
  <2>10. /\ Ceilings(S) \in Nat
         /\ SumFunction([q \in T |-> runs'[q].budget.max]) <= Ceilings(S)
    BY <2>9, CeilingsGrow
  <2>11. Spent \in Nat /\ SumFunction([q \in T |-> runs'[q].budget.max]) \in Nat
    <3>1. IsFiniteSet(T)
      BY <2>9, RunsFinite, FS_Subset
    <3>2. \A q \in T : runs'[q].budget.max \in Nat
      BY <2>9, RunAmounts
    <3> DEFINE f == [q \in T |-> runs'[q].budget.max]
    <3>3. DOMAIN f = T /\ \A q \in T : f[q] \in Nat
      BY <3>2
    <3> HIDE DEF f
    <3>4. SumFunction(f) \in Nat
      BY <3>1, <3>3, FunctionSumType
    <3> QED
      BY <3>4, SpentType DEF f
  <2>12. Ceilings(S) = Ceilings(Others) + max
    BY <2>6, CeilingsAdd
  <2>13. Ceilings(Others) \in Nat
    <3>1. {} \in SUBSET Others /\ Others \in SUBSET DOMAIN runs
      BY <2>6
    <3> QED
      BY <3>1, CeilingsGrow
  <2> QED
    BY <2>7, <2>8, <2>10, <2>12, <2>11, <2>13, RunAmounts
<1>2. RInv /\ [Next]_vars => [Within]_vars
  BY <1>1
<1> QED
  BY <1>2, Invariant, PTL DEF Spec, StartsWithinBudget
=============================================================================
