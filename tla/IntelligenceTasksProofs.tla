----------------------- MODULE IntelligenceTasksProofs -----------------------
(* Proofs about IntelligenceTasks, for any number of tasks, workers, claims  *)
(* and calls.                                                                *)
EXTENDS IntelligenceTasks, TLAPS

TaskRows == [status : {"NONE", "queued", "running", "completed", "failed"},
             attempts : 0 .. MaxAttempts, lease : {"NONE", "HELD", "LAPSED"}, plan : {"NONE", "ANSWER", "JOB"}]
StepStatuses == {"NONE", "pending", "running", "completed", "failed", "skipped"}
Busy == [stage : Stages, task : Tasks, claim : 1 .. MaxAttempts, size : 0 .. 4, next : 0 .. 5,
         allowed : 0 .. 3, answer : Answers, late : Nat]

-----------------------------------------------------------------------------
(* The invariant                                                           *)

RowTypes ==
    /\ task \in [Tasks -> TaskRows]
    /\ runs \in [Tasks -> Nat]
    /\ job \in [Tasks -> {"NONE", "RUNNING", "COMPLETED", "FAILED_FINAL"}]
    /\ recorded \in [Tasks -> SUBSET Specialists]
    /\ synthesis \in [Tasks -> Answers]
    /\ report \in [Tasks -> Answers]

StepTypes == step \in [Tasks -> [Steps -> StepStatuses]]

Specialist == {"SPECIALIST", "ANSWERED", "COUNTED"}
Answering == {"PUBLISH", "CORRECTING", "COVERED"}

\* What a worker may hold, given the reports: it looks at the steps of its team
\* only, and has an answer when it publishes one.
Fits(r, reports) ==
    /\ r \in Busy \cup {IdleReplica}
    /\ r.stage \in {"TEAM"} \cup Specialist => r.next >= 1
    /\ r.stage \in Specialist => r.next <= r.size
    /\ r.stage \in {"SYNTHESISED", "RECORDED"} \cup Answering => r.answer # 0
    /\ r.stage = "PUBLISHED" => reports[r.task] # 0

WorkersFit ==
    /\ replica = [w \in Replicas |-> replica[w]]
    /\ \A w \in Replicas : Fits(replica[w], report)

\* The lead's step is completed together with its saved answer.
SavedTogether == \A t \in Tasks : step[t][0] = "completed" <=> synthesis[t] # 0

TInv == RowTypes /\ StepTypes /\ WorkersFit /\ SavedTogether /\ CompletedHasReport

LEMMA InitTInv == Init => TInv
<1> SUFFICES ASSUME Init PROVE TInv
  OBVIOUS
<1> USE DEF Init
<1>1. RowTypes
  BY MaxAttemptsAssumption DEF RowTypes, TaskRows, Answers
<1>2. StepTypes
  BY DEF StepTypes, StepStatuses
<1>3. WorkersFit
  BY DEF WorkersFit, Fits, IdleReplica, Specialist, Answering
<1>4. SavedTogether
  BY DEF SavedTogether, Steps
<1>5. CompletedHasReport
  BY DEF CompletedHasReport
<1> QED
  BY <1>1, <1>2, <1>3, <1>4, <1>5 DEF TInv

-----------------------------------------------------------------------------
(* What a worker's step does to itself                                     *)

Moves(w) == replica' = [replica EXCEPT ![w] = replica'[w]]
ReportsStay == \A t \in Tasks : report[t] # 0 => report'[t] # 0

LEMMA OneMoves ==
  ASSUME WorkersFit, NEW w \in Replicas, Moves(w), ReportsStay, Fits(replica'[w], report')
  PROVE  WorkersFit'
<1>1. ASSUME NEW v \in Replicas PROVE Fits(replica'[v], report')
  <2>1. CASE v = w
    BY <2>1
  <2>2. CASE v # w
    <3>1. replica'[v] = replica[v]
      BY <2>2 DEF Moves, WorkersFit
    <3>2. Fits(replica[v], report)
      BY DEF WorkersFit
    <3>3. replica[v].stage = "PUBLISHED" => replica[v].task \in Tasks
      BY <3>2 DEF Fits, Busy, IdleReplica
    <3> QED
      BY <3>1, <3>2, <3>3 DEF Fits, ReportsStay
  <2> QED
    BY <2>1, <2>2
<1>2. replica' = [v \in Replicas |-> replica'[v]]
  BY DEF Moves, WorkersFit
<1> QED
  BY <1>1, <1>2 DEF WorkersFit

\* A worker that is not idle has a task and a claim.
LEMMA BusyWorker ==
  ASSUME WorkersFit, NEW w \in Replicas, replica[w].stage # "IDLE"
  PROVE  replica[w] \in Busy /\ replica[w].task \in Tasks
  BY DEF WorkersFit, Fits, IdleReplica, Busy

\* Stages of which Fits asks nothing.
Plain == Stages \ ({"TEAM", "SYNTHESISED", "RECORDED", "PUBLISHED"} \cup Specialist \cup Answering)

\* Going on to a stage, also with a call counted, changes nothing else a worker
\* remembers.
Keeps(r, q) ==
    /\ r.task = q.task /\ r.claim = q.claim /\ r.size = q.size
    /\ r.next = q.next /\ r.allowed = q.allowed /\ r.answer = q.answer

LEMMA GoesOn ==
  ASSUME WorkersFit, NEW w \in Replicas, replica[w].stage # "IDLE", NEW stage \in Stages,
         Goto(w, stage) \/ CountCall(w, stage)
  PROVE  /\ Moves(w) /\ replica'[w] \in Busy /\ replica'[w].stage = stage
         /\ Keeps(replica'[w], replica[w])
<1>1. replica[w] \in Busy
  BY BusyWorker
<1>2. PICK late \in Nat : replica' = [replica EXCEPT ![w].stage = stage, ![w].late = late]
  <2>1. CASE Goto(w, stage)
    <3>1. [replica[w] EXCEPT !.stage = stage] = [replica[w] EXCEPT !.stage = stage, !.late = replica[w].late]
      BY <1>1 DEF Busy
    <3>2. replica' = [replica EXCEPT ![w] = [replica[w] EXCEPT !.stage = stage, !.late = replica[w].late]]
      BY <2>1, <3>1 DEF Goto
    <3>3. replica[w].late \in Nat
      BY <1>1 DEF Busy
    <3> QED
      BY <3>2, <3>3
  <2>2. CASE CountCall(w, stage)
    <3>1. replica[w].late \in Nat /\ replica[w].late + 1 \in Nat
      BY <1>1 DEF Busy
    <3> QED
      BY <2>2, <3>1 DEF CountCall
  <2> QED
    BY <2>1, <2>2
<1>3. Moves(w) /\ replica'[w] = [replica[w] EXCEPT !.stage = stage, !.late = late]
  BY <1>2 DEF Moves, WorkersFit
<1> QED
  BY <1>1, <1>3 DEF Busy, Keeps

LEMMA PlainFits ==
  ASSUME WorkersFit, NEW w \in Replicas, replica[w].stage # "IDLE",
         \E stage \in Plain : Goto(w, stage) \/ CountCall(w, stage), ReportsStay
  PROVE  WorkersFit'
<1>1. PICK stage \in Plain : Goto(w, stage) \/ CountCall(w, stage)
  OBVIOUS
<1>2. stage \in Stages
  BY DEF Plain
<1>3. replica'[w] \in Busy /\ replica'[w].stage = stage /\ Moves(w)
  BY <1>1, <1>2, GoesOn
<1>4. Fits(replica'[w], report')
  BY <1>3 DEF Fits, Plain
<1> QED
  BY <1>3, <1>4, OneMoves

LEMMA IdleFits ==
  ASSUME WorkersFit, NEW w \in Replicas, replica' = [replica EXCEPT ![w] = IdleReplica], ReportsStay
  PROVE  WorkersFit'
<1>1. Moves(w) /\ replica'[w] = IdleReplica
  BY DEF Moves, WorkersFit
<1>2. Fits(IdleReplica, report')
  BY DEF Fits, IdleReplica, Specialist, Answering
<1> QED
  BY <1>1, <1>2, OneMoves

-----------------------------------------------------------------------------
(* The steps of a team                                                     *)

LEMMA StepWritten ==
  ASSUME StepTypes, NEW t \in Tasks, NEW i \in Steps, NEW status \in StepStatuses
  PROVE  /\ WriteStep(t, i, status) \in [Tasks -> [Steps -> StepStatuses]]
         /\ \A s \in Tasks : \A j \in Steps :
              WriteStep(t, i, status)[s][j] =
                IF s = t /\ j = i /\ step[t][i] # "completed" THEN status ELSE step[s][j]
<1>1. CASE step[t][i] = "completed"
  BY <1>1 DEF StepTypes, WriteStep
<1>2. CASE step[t][i] # "completed"
  <2>1. WriteStep(t, i, status) = [step EXCEPT ![t] = [step[t] EXCEPT ![i] = status]]
    BY <1>2 DEF WriteStep
  <2>2. step[t] \in [Steps -> StepStatuses]
    BY DEF StepTypes
  <2> QED
    BY <1>2, <2>1, <2>2 DEF StepTypes
<1> QED
  BY <1>1, <1>2

\* Whatever is written, a completed step stays.
StepsKept ==
    \A t \in Tasks : \A i \in Steps : step[t][i] = "completed" => step'[t][i] = "completed"

LEMMA WrittenSteps ==
  ASSUME StepTypes, NEW t \in Tasks, NEW i \in Steps, NEW status \in StepStatuses,
         step' = WriteStep(t, i, status)
  PROVE  /\ StepTypes' /\ StepsKept
         /\ \A s \in Tasks : s # t \/ i # 0 => step'[s][0] = step[s][0]
<1>1. StepTypes'
  BY StepWritten DEF StepTypes
<1>2. \A s \in Tasks : \A j \in Steps :
        step'[s][j] = IF s = t /\ j = i /\ step[t][i] # "completed" THEN status ELSE step[s][j]
  BY StepWritten
<1>3. StepsKept
  BY <1>2 DEF StepsKept
<1>4. 0 \in Steps
  BY DEF Steps
<1>5. \A s \in Tasks : s # t \/ i # 0 => step'[s][0] = step[s][0]
  BY <1>2, <1>4
<1> QED
  BY <1>1, <1>3, <1>5

-----------------------------------------------------------------------------
(* The invariant is inductive                                              *)

LEMMA SameSteps ==
  ASSUME TInv, UNCHANGED <<step, synthesis>>
  PROVE  StepTypes' /\ SavedTogether' /\ StepsKept
  BY DEF TInv, StepTypes, SavedTogether, StepsKept

LEMMA SameReports ==
  ASSUME TInv, UNCHANGED report,
         \A j \in Tasks : job'[j] = "COMPLETED" =>
            job[j] = "COMPLETED" \/ \E t \in Tasks : JobOf[t] = j /\ report[t] # 0
  PROVE  CompletedHasReport' /\ ReportsStay
  BY DEF TInv, CompletedHasReport, ReportsStay

\* Steps that move a worker to a plain stage and write no row.
LEMMA OnlyMoves ==
  ASSUME TInv, NEW w \in Replicas, replica[w].stage # "IDLE",
         \E stage \in Plain : Goto(w, stage),
         UNCHANGED <<task, runs, job, recorded, step, synthesis, report>>
  PROVE  TInv'
<1>1. StepTypes' /\ SavedTogether'
  BY SameSteps
<1>2. CompletedHasReport' /\ ReportsStay
  BY SameReports
<1>3. WorkersFit'
  BY <1>2, PlainFits DEF TInv
<1>4. RowTypes'
  BY DEF TInv, RowTypes
<1> QED
  BY <1>1, <1>2, <1>3, <1>4 DEF TInv

\* The queue.
LEMMA AskInv ==
  ASSUME TInv, NEW t \in Tasks, Ask(t) \/ LeaseLapses(t)
  PROVE  TInv'
<1>1. StepTypes' /\ SavedTogether'
  BY SameSteps DEF Ask, LeaseLapses
<1>2. CompletedHasReport'
  BY SameReports DEF Ask, LeaseLapses, TInv, RowTypes
<1>3. WorkersFit'
  BY DEF Ask, LeaseLapses, TInv, WorkersFit, Fits
<1>4. RowTypes'
  <2>1. PICK status \in {"queued", "running", "completed", "failed", "NONE"},
             lease \in {"NONE", "HELD", "LAPSED"} :
          task' = [task EXCEPT ![t] = [task[t] EXCEPT !.status = status, !.lease = lease]]
    <3>1. task[t] \in TaskRows
      BY DEF TInv, RowTypes
    <3>2. /\ [task[t] EXCEPT !.status = "queued"] =
                [task[t] EXCEPT !.status = "queued", !.lease = task[t].lease]
          /\ [task[t] EXCEPT !.lease = "LAPSED"] =
                [task[t] EXCEPT !.status = task[t].status, !.lease = "LAPSED"]
      BY <3>1 DEF TaskRows
    <3>3. \/ task' = [task EXCEPT ![t] = [task[t] EXCEPT !.status = "queued"]]
          \/ task' = [task EXCEPT ![t] = [task[t] EXCEPT !.lease = "LAPSED"]]
      BY DEF Ask, LeaseLapses
    <3>4. /\ task[t].status \in {"queued", "running", "completed", "failed", "NONE"}
          /\ task[t].lease \in {"NONE", "HELD", "LAPSED"}
      BY <3>1 DEF TaskRows
    <3> QED
      BY <3>2, <3>3, <3>4
  <2>2. [task[t] EXCEPT !.status = status, !.lease = lease] \in TaskRows
    BY DEF TInv, RowTypes, TaskRows
  <2>3. task' \in [Tasks -> TaskRows]
    BY <2>1, <2>2 DEF TInv, RowTypes
  <2> QED
    BY <2>3 DEF Ask, LeaseLapses, TInv, RowTypes
<1> QED
  BY <1>1, <1>2, <1>3, <1>4 DEF TInv

LEMMA QueueInv ==
  ASSUME TInv, NEW w \in Replicas,
         Claim(w) \/ CompleteTask(w) \/ FailTask(w) \/ FailJob(w) \/ Crash(w)
  PROVE  TInv'
<1>1. UNCHANGED <<step, synthesis, report>>
  BY DEF Claim, CompleteTask, FailTask, FailJob, Crash
<1>2. StepTypes' /\ SavedTogether'
  BY <1>1, SameSteps
<1>3. CompletedHasReport' /\ ReportsStay
  <2>1. CASE UNCHANGED job
    BY <1>1, <2>1, SameReports
  <2>2. CASE FailJob(w)
    BY <1>1, <2>2, SameReports DEF FailJob, TInv, RowTypes
  <2> QED
    BY <2>1, <2>2 DEF Claim, CompleteTask, FailTask, FailJob, Crash
<1>4. RowTypes' /\ WorkersFit'
  <2>2. CASE Claim(w)
    <3>1. PICK s \in Tasks :
            /\ task[s].attempts < MaxAttempts
            /\ task' = [task EXCEPT ![s].status = "running", ![s].attempts = @ + 1, ![s].lease = "HELD"]
            /\ replica' = [replica EXCEPT ![w] = [IdleReplica EXCEPT
                             !.stage = "CLAIMED", !.task = s, !.claim = task[s].attempts + 1]]
      BY <2>2 DEF Claim, Claimable
    <3>2. task[s].attempts + 1 \in 1 .. MaxAttempts
      BY <3>1, MaxAttemptsAssumption DEF TInv, RowTypes, TaskRows
    <3>3. task' \in [Tasks -> TaskRows]
      BY <3>1, <3>2, MaxAttemptsAssumption DEF TInv, RowTypes, TaskRows
    <3>4. RowTypes'
      BY <2>2, <3>3 DEF Claim, TInv, RowTypes
    <3>5. Moves(w) /\ replica'[w] = [IdleReplica EXCEPT
                        !.stage = "CLAIMED", !.task = s, !.claim = task[s].attempts + 1]
      BY <3>1 DEF Moves, TInv, WorkersFit
    <3>6. replica'[w] \in Busy /\ replica'[w].stage = "CLAIMED"
      <4>1. PICK claim \in 1 .. MaxAttempts : replica'[w] = [IdleReplica EXCEPT
              !.stage = "CLAIMED", !.task = s, !.claim = claim]
        BY <3>2, <3>5
      <4>2. replica'[w] = [stage |-> "CLAIMED", task |-> s, claim |-> claim, size |-> 0,
                           next |-> 0, allowed |-> 0, answer |-> 0, late |-> 0]
        BY <4>1 DEF IdleReplica
      <4>3. "CLAIMED" \in Stages /\ 0 \in Answers
        BY MaxAttemptsAssumption DEF Stages, Answers
      <4> QED
        BY <4>2, <4>3 DEF Busy
    <3>7. Fits(replica'[w], report')
      BY <3>6 DEF Fits, Specialist, Answering
    <3> QED
      BY <1>3, <3>4, <3>5, <3>7, OneMoves DEF TInv
  <2>3. CASE CompleteTask(w)
    <3>1. WorkersFit'
      BY <1>3, <2>3, IdleFits DEF CompleteTask, TInv
    <3> QED
      BY <2>3, <3>1 DEF CompleteTask, TInv, RowTypes, TaskRows
  <2>4. CASE FailTask(w)
    <3>1. replica[w].stage # "IDLE"
      BY <2>4 DEF FailTask
    <3>2. WorkersFit'
      <4>1. CASE Goto(w, "GIVE_UP")
        BY <1>3, <3>1, <4>1, PlainFits DEF TInv, Plain, Stages, Specialist, Answering
      <4>2. CASE replica' = [replica EXCEPT ![w] = IdleReplica]
        BY <1>3, <4>2, IdleFits DEF TInv
      <4> QED
        BY <2>4, <4>1, <4>2 DEF FailTask
    <3>3. task' \in [Tasks -> TaskRows]
      <4>1. PICK status \in {"queued", "failed"} :
              \/ UNCHANGED task
              \/ task' = [task EXCEPT ![replica[w].task].lease = "NONE",
                                      ![replica[w].task].status = status]
        BY <2>4 DEF FailTask
      <4>2. replica[w].task \in Tasks
        BY <3>1, BusyWorker DEF TInv
      <4>3. [task[replica[w].task] EXCEPT !.lease = "NONE", !.status = status] \in TaskRows
        <5>1. task[replica[w].task] \in TaskRows
          BY <4>2 DEF TInv, RowTypes
        <5> QED
          BY <5>1 DEF TaskRows
      <4>4. \/ UNCHANGED task
            \/ task' = [task EXCEPT ![replica[w].task] =
                          [task[replica[w].task] EXCEPT !.lease = "NONE", !.status = status]]
        BY <4>1
      <4> QED
        BY <4>3, <4>4 DEF TInv, RowTypes
    <3> QED
      BY <2>4, <3>2, <3>3 DEF FailTask, TInv, RowTypes
  <2>5. CASE FailJob(w)
    <3>1. WorkersFit'
      BY <1>3, <2>5, IdleFits DEF FailJob, TInv
    <3> QED
      BY <2>5, <3>1 DEF FailJob, TInv, RowTypes
  <2>6. CASE Crash(w)
    <3>1. WorkersFit'
      BY <1>3, <2>6, IdleFits DEF Crash, TInv
    <3> QED
      BY <2>6, <3>1 DEF Crash, TInv, RowTypes
  <2> QED
    BY <2>2, <2>3, <2>4, <2>5, <2>6
<1> QED
  BY <1>2, <1>3, <1>4 DEF TInv

\* From the claim to the job.
LEMMA PlanningInv ==
  ASSUME TInv, NEW w \in Replicas,
         CheckFinished(w) \/ Decide(w) \/ PlanMade(w) \/ AnswerInChat(w) \/ Throws(w)
  PROVE  TInv'
<1>1. replica[w].stage # "IDLE"
  BY DEF CheckFinished, Decide, PlanMade, AnswerInChat, Throws, At, Stages
<1>2. \E stage \in Plain : Goto(w, stage) \/ CountCall(w, stage)
  <2>1. {"FINISH", "PLAN", "ROUTE", "PLANNING", "REFUSED", "THROWN"} \subseteq Plain
    BY DEF Plain, Stages, Specialist, Answering
  <2> QED
    BY <2>1 DEF CheckFinished, Decide, PlanMade, AnswerInChat, Throws
<1>3. CASE CheckFinished(w) \/ Decide(w) \/ AnswerInChat(w) \/ Throws(w)
  <2>1. {"FINISH", "PLAN", "ROUTE", "PLANNING", "REFUSED", "THROWN"} \subseteq Plain
    BY DEF Plain, Stages, Specialist, Answering
  <2>2. \E stage \in Plain : Goto(w, stage)
    BY <1>3, <2>1 DEF CheckFinished, Decide, AnswerInChat, Throws
  <2> QED
    BY <1>1, <1>3, <2>2, OnlyMoves DEF CheckFinished, Decide, AnswerInChat, Throws
<1>4. CASE PlanMade(w)
  <2>1. StepTypes' /\ SavedTogether'
    BY <1>4, SameSteps DEF PlanMade
  <2>2. CompletedHasReport' /\ ReportsStay
    BY <1>4, SameReports DEF PlanMade
  <2>3. WorkersFit'
    BY <1>1, <1>2, <2>2, PlainFits DEF TInv
  <2>4. replica[w].task \in Tasks
    BY <1>1, BusyWorker DEF TInv
  <2>5. RowTypes'
    <3>1. task' \in [Tasks -> TaskRows]
      <4>1. PICK plan \in {"ANSWER", "JOB"} :
              task' = task \/ task' = [task EXCEPT ![replica[w].task].plan = plan]
        BY <1>4 DEF PlanMade
      <4>2. [task[replica[w].task] EXCEPT !.plan = plan] \in TaskRows
        <5>1. task[replica[w].task] \in TaskRows
          BY <2>4 DEF TInv, RowTypes
        <5> QED
          BY <5>1 DEF TaskRows
      <4>3. task' = task \/ task' = [task EXCEPT ![replica[w].task] =
                                       [task[replica[w].task] EXCEPT !.plan = plan]]
        BY <4>1
      <4> QED
        BY <4>2, <4>3 DEF TInv, RowTypes
    <3>2. runs' \in [Tasks -> Nat]
      BY <1>4, <2>4 DEF PlanMade, CountCall, TInv, RowTypes
    <3> QED
      BY <1>4, <3>1, <3>2 DEF PlanMade, TInv, RowTypes
  <2> QED
    BY <2>1, <2>2, <2>3, <2>5 DEF TInv
<1> QED
  BY <1>3, <1>4

\* The Router's team and the job.
LEMMA CreateJobInv ==
  ASSUME TInv, NEW w \in Replicas, CreateJob(w)
  PROVE  TInv'
<1>1. replica[w].stage # "IDLE" /\ replica[w] \in Busy /\ replica[w].task \in Tasks
  BY BusyWorker DEF CreateJob, At, TInv
<1>2. PICK team \in Teams :
        /\ replica' = [replica EXCEPT ![w].stage = "RESEARCH", ![w].size = Cardinality(team)]
        /\ \/ UNCHANGED <<job, recorded>>
           \/ /\ UNCHANGED job \/ job' = [job EXCEPT ![replica[w].task] = "RUNNING"]
              /\ recorded' = [recorded EXCEPT ![replica[w].task] = @ \cup team]
  BY DEF CreateJob
<1>3. StepTypes' /\ SavedTogether'
  BY SameSteps DEF CreateJob
<1>4. CompletedHasReport' /\ ReportsStay
  BY <1>2, SameReports DEF CreateJob, TInv, RowTypes
<1>5. team \subseteq Specialists /\ Cardinality(team) \in 0 .. 4
  BY DEF Teams
<1>6. RowTypes'
  <2>1. job' \in [Tasks -> {"NONE", "RUNNING", "COMPLETED", "FAILED_FINAL"}]
    BY <1>2 DEF TInv, RowTypes
  <2>2. recorded' \in [Tasks -> SUBSET Specialists]
    <3>1. CASE UNCHANGED recorded
      BY <3>1 DEF TInv, RowTypes
    <3>2. CASE recorded' = [recorded EXCEPT ![replica[w].task] = @ \cup team]
      <4>1. recorded[replica[w].task] \cup team \in SUBSET Specialists
        BY <1>1, <1>5 DEF TInv, RowTypes
      <4> QED
        BY <3>2, <4>1 DEF TInv, RowTypes
    <3> QED
      BY <1>2, <3>1, <3>2
  <2> QED
    BY <2>1, <2>2 DEF CreateJob, TInv, RowTypes
<1>7. WorkersFit'
  <2>1. Moves(w) /\ replica'[w] = [replica[w] EXCEPT !.stage = "RESEARCH", !.size = Cardinality(team)]
    BY <1>2 DEF Moves, TInv, WorkersFit
  <2>2. replica'[w] \in Busy /\ replica'[w].stage = "RESEARCH"
    BY <1>1, <1>5, <2>1 DEF Busy, Stages
  <2>3. Fits(replica'[w], report')
    BY <2>2 DEF Fits, Specialist, Answering
  <2> QED
    BY <1>4, <2>1, <2>3, OneMoves DEF TInv
<1> QED
  BY <1>3, <1>4, <1>6, <1>7 DEF TInv

\* A step that is not the lead's, or not completed by the write, leaves the
\* lead's step and its answer together.
LEMMA TogetherKept ==
  ASSUME TInv, NEW t \in Tasks, NEW i \in Steps, NEW status \in StepStatuses,
         i # 0 \/ status # "completed",
         step' = WriteStep(t, i, status), UNCHANGED synthesis
  PROVE  StepTypes' /\ SavedTogether' /\ StepsKept
<1>1. /\ StepTypes' /\ StepsKept
      /\ \A s \in Tasks : s # t \/ i # 0 => step'[s][0] = step[s][0]
  BY WrittenSteps DEF TInv
<1>2. i = 0 => (step'[t][0] = "completed" <=> step[t][0] = "completed")
  BY StepWritten DEF TInv
<1> QED
  BY <1>1, <1>2 DEF TInv, SavedTogether

LEMMA NextFits ==
  ASSUME WorkersFit, NEW w \in Replicas, NextStep(w), ReportsStay,
         replica[w].stage \in {"TEAM"} \cup Specialist, replica[w].next <= replica[w].size
  PROVE  WorkersFit'
<1>1. replica[w] \in Busy /\ replica[w].task \in Tasks /\ replica[w].next >= 1
  BY BusyWorker DEF WorkersFit, Fits, Specialist
<1>2. Moves(w) /\ replica'[w] = [replica[w] EXCEPT !.stage = "TEAM", !.next = @ + 1]
  BY DEF NextStep, Moves, WorkersFit
<1>3. replica[w].next + 1 \in 0 .. 5 /\ replica[w].next + 1 >= 1
  BY <1>1 DEF Busy
<1>4. replica'[w] \in Busy /\ replica'[w].stage = "TEAM" /\ replica'[w].next >= 1
  BY <1>1, <1>2, <1>3 DEF Busy, Stages
<1>5. Fits(replica'[w], report')
  BY <1>4 DEF Fits, Specialist, Answering
<1> QED
  BY <1>2, <1>5, OneMoves

LEMMA ResearchInv ==
  ASSUME TInv, NEW w \in Replicas, StartResearch(w)
  PROVE  TInv' /\ StepsKept
<1> DEFINE t == replica[w].task
           size == replica[w].size
<1>1. replica[w] \in Busy /\ t \in Tasks /\ size \in 0 .. 4
  BY BusyWorker DEF TInv, StartResearch, At, Busy
<1>2. CASE ~CallsLeft(t)
  <2>1. Goto(w, "REFUSED") /\ UNCHANGED <<task, runs, job, recorded, step, synthesis, report>>
    BY <1>2 DEF StartResearch
  <2>2. "REFUSED" \in Plain /\ replica[w].stage # "IDLE"
    BY DEF StartResearch, At, Plain, Stages, Specialist, Answering
  <2> QED
    BY <2>1, <2>2, OnlyMoves, SameSteps
<1>3. CASE CallsLeft(t)
  <2>1. CompletedHasReport' /\ ReportsStay
    BY <1>1, <1>3, JobOfAssumption, SameReports DEF StartResearch, TInv, RowTypes
  <2>2. RowTypes'
    BY <1>3 DEF StartResearch, TInv, RowTypes
  <2>3. StepTypes' /\ SavedTogether' /\ StepsKept
    <3>1. CASE size = 0
      BY <1>3, <3>1, SameSteps DEF StartResearch
    <3>2. CASE size # 0
      <4>1. step' = [step EXCEPT ![t] = PlannedSteps(t, size)]
        BY <1>1, <1>3, <3>2 DEF StartResearch
      <4>2. \A s \in Tasks : step'[s] = IF s = t THEN PlannedSteps(t, size) ELSE step[s]
        BY <4>1 DEF TInv, StepTypes
      <4>3. PlannedSteps(t, size) \in [Steps -> StepStatuses]
        BY <1>1 DEF PlannedSteps, TInv, StepTypes, StepStatuses
      <4>4. StepTypes'
        BY <4>1, <4>3 DEF TInv, StepTypes
      <4>5. \A i \in Steps : PlannedSteps(t, size)[i] = "completed" <=> step[t][i] = "completed"
        BY DEF PlannedSteps
      <4>6. 0 \in Steps
        BY DEF Steps
      <4>7. SavedTogether'
        BY <4>2, <4>5, <4>6 DEF StartResearch, TInv, SavedTogether
      <4>8. StepsKept
        BY <4>2, <4>5 DEF StepsKept
      <4> QED
        BY <4>4, <4>7, <4>8
    <3> QED
      BY <3>1, <3>2
  <2>4. WorkersFit'
    <3>1. Allowed(t) \in 0 .. 3
      BY <1>1, <1>3, MaxCallsAssumption DEF Allowed, AtMost, CallsLeft, TInv, RowTypes
    <3>2. PICK stage \in {"TEAM", "LEAD"}, allowed \in 0 .. 3 :
            replica' = [replica EXCEPT ![w].stage = stage, ![w].next = 1, ![w].allowed = allowed]
      BY <1>3, <3>1 DEF StartResearch
    <3>3. Moves(w) /\ replica'[w] = [replica[w] EXCEPT !.stage = stage, !.next = 1, !.allowed = allowed]
      BY <3>2 DEF Moves, TInv, WorkersFit
    <3>4. replica'[w] \in Busy /\ replica'[w].stage = stage /\ replica'[w].next = 1
      <4>1. replica'[w] = [stage |-> stage, task |-> t, claim |-> replica[w].claim, size |-> size,
                           next |-> 1, allowed |-> allowed, answer |-> replica[w].answer,
                           late |-> replica[w].late]
        BY <1>1, <3>3 DEF Busy
      <4>2. /\ stage \in Stages /\ replica[w].claim \in 1 .. MaxAttempts
            /\ replica[w].answer \in Answers /\ replica[w].late \in Nat
        BY <1>1 DEF Busy, Stages
      <4> QED
        BY <1>1, <4>1, <4>2 DEF Busy
    <3>5. Fits(replica'[w], report')
      BY <3>4 DEF Fits, Specialist, Answering
    <3> QED
      BY <2>1, <3>3, <3>5, OneMoves DEF TInv
  <2> QED
    BY <2>1, <2>2, <2>3, <2>4 DEF TInv
<1> QED
  BY <1>2, <1>3

\* The supporting workers.
LEMMA TeamInv ==
  ASSUME TInv, NEW w \in Replicas,
         \/ PassSpecialist(w) \/ StartSpecialist(w) \/ SpecialistAnswers(w)
         \/ CountSpecialist(w) \/ SpecialistReports(w) \/ SpecialistFails(w)
  PROVE  TInv' /\ StepsKept
<1> USE DEF PassSpecialist, StartSpecialist, SpecialistAnswers, CountSpecialist,
            SpecialistReports, SpecialistFails
<1> DEFINE t == replica[w].task
           i == replica[w].next
<1>1. replica[w].stage \in {"TEAM"} \cup Specialist /\ replica[w].stage # "IDLE"
  BY DEF At, Specialist
<1>2. replica[w] \in Busy /\ t \in Tasks /\ i \in Nat /\ i >= 1 /\ replica[w].size \in 0 .. 4
  BY <1>1, BusyWorker DEF TInv, WorkersFit, Fits, Busy
<1>3. i <= replica[w].size
  BY <1>1 DEF At, TInv, WorkersFit, Fits
<1>4. i \in Steps /\ i # 0
  BY <1>2, <1>3 DEF Steps
<1>5. CompletedHasReport' /\ ReportsStay
  BY SameReports
<1>6. RowTypes'
  <2>1. runs' \in [Tasks -> Nat]
    BY <1>2 DEF CountCall, TInv, RowTypes
  <2>2. UNCHANGED <<task, job, recorded, synthesis, report>>
    OBVIOUS
  <2> QED
    BY <2>1, <2>2 DEF TInv, RowTypes
<1>7. StepTypes' /\ SavedTogether' /\ StepsKept
  <2>1. UNCHANGED step \/ \E status \in StepStatuses : step' = WriteStep(t, i, status)
    BY DEF StepStatuses
  <2>2. UNCHANGED synthesis
    OBVIOUS
  <2> QED
    BY <1>2, <1>4, <2>1, <2>2, SameSteps, TogetherKept
<1>8. WorkersFit'
  <2>1. CASE NextStep(w)
    BY <1>1, <1>3, <1>5, <2>1, NextFits DEF TInv
  <2>2. CASE \E stage \in Specialist : Goto(w, stage) \/ CountCall(w, stage)
    <3>1. PICK stage \in Specialist : Goto(w, stage) \/ CountCall(w, stage)
      BY <2>2
    <3>2. stage \in Stages
      BY DEF Stages, Specialist
    <3>3. /\ Moves(w) /\ replica'[w] \in Busy /\ replica'[w].stage = stage
          /\ Keeps(replica'[w], replica[w])
      BY <1>1, <3>1, <3>2, GoesOn DEF TInv
    <3>4. Fits(replica'[w], report')
      BY <1>2, <1>3, <3>3 DEF Fits, Keeps, Specialist, Answering
    <3> QED
      BY <1>5, <3>3, <3>4, OneMoves DEF TInv
  <2>3. CASE Goto(w, "THROWN")
    BY <1>1, <1>5, <2>3, PlainFits DEF TInv, Plain, Stages, Specialist, Answering
  <2> QED
    BY <2>1, <2>2, <2>3 DEF Specialist
<1> QED
  BY <1>5, <1>6, <1>7, <1>8 DEF TInv

LEMMA TeamDoneInv ==
  ASSUME TInv, NEW w \in Replicas, TeamDone(w)
  PROVE  TInv' /\ StepsKept
<1> DEFINE t == replica[w].task
<1>1. replica[w].stage # "IDLE" /\ t \in Tasks
  BY BusyWorker DEF TeamDone, At, TInv
<1>2. CompletedHasReport' /\ ReportsStay
  BY <1>1, JobOfAssumption, SameReports DEF TeamDone, TInv, RowTypes
<1>3. StepTypes' /\ SavedTogether' /\ StepsKept
  <2>1. 0 \in Steps /\ "running" \in StepStatuses
    BY DEF Steps, StepStatuses
  <2> QED
    BY <1>1, <2>1, TogetherKept DEF TeamDone
<1>4. WorkersFit'
  BY <1>1, <1>2, PlainFits DEF TeamDone, TInv, Plain, Stages, Specialist, Answering
<1>5. RowTypes'
  BY <1>1 DEF TeamDone, TInv, RowTypes
<1> QED
  BY <1>2, <1>3, <1>4, <1>5 DEF TInv

-----------------------------------------------------------------------------
(* The lead and the report                                                 *)

\* A worker that goes on with the answer it holds.
LEMMA AnswerFits ==
  ASSUME WorkersFit, NEW w \in Replicas, ReportsStay,
         replica[w].stage \in {"SYNTHESISED", "RECORDED"} \cup Answering,
         \E stage \in {"RECORDED"} \cup Answering : Goto(w, stage) \/ CountCall(w, stage)
  PROVE  WorkersFit'
<1>1. PICK stage \in {"RECORDED"} \cup Answering : Goto(w, stage) \/ CountCall(w, stage)
  OBVIOUS
<1>2. replica[w].stage # "IDLE" /\ replica[w].answer # 0 /\ stage \in Stages
  BY DEF WorkersFit, Fits, Answering, Stages
<1>3. /\ Moves(w) /\ replica'[w] \in Busy /\ replica'[w].stage = stage
      /\ Keeps(replica'[w], replica[w])
  BY <1>1, <1>2, GoesOn
<1>4. Fits(replica'[w], report')
  BY <1>2, <1>3 DEF Fits, Keeps, Specialist, Answering
<1> QED
  BY <1>3, <1>4, OneMoves

LEMMA SynthesisInv ==
  ASSUME TInv, NEW w \in Replicas, StartSynthesis(w) \/ Synthesised(w) \/ CountSynthesis(w)
  PROVE  TInv'
<1> DEFINE t == replica[w].task
<1>1. replica[w].stage # "IDLE" /\ replica[w] \in Busy /\ t \in Tasks
  BY BusyWorker DEF StartSynthesis, Synthesised, CountSynthesis, At, TInv
<1>2. StepTypes' /\ SavedTogether'
  BY SameSteps DEF StartSynthesis, Synthesised, CountSynthesis
<1>3. CompletedHasReport' /\ ReportsStay
  BY SameReports DEF StartSynthesis, Synthesised, CountSynthesis
<1>4. RowTypes'
  BY <1>1 DEF StartSynthesis, Synthesised, CountSynthesis, CountCall, TInv, RowTypes
<1>5. WorkersFit'
  <2>1. CASE \E stage \in {"SYNTHESIS", "THROWN"} : Goto(w, stage)
    BY <1>1, <1>3, <2>1, PlainFits DEF TInv, Plain, Stages, Specialist, Answering
  <2>2. CASE \E stage \in {"PUBLISH", "SYNTHESISED"}, answer \in Answers \ {0} :
               replica' = [replica EXCEPT ![w].stage = stage, ![w].answer = answer]
    <3>1. PICK stage \in {"PUBLISH", "SYNTHESISED"}, answer \in Answers \ {0} :
               replica' = [replica EXCEPT ![w].stage = stage, ![w].answer = answer]
      BY <2>2
    <3>2. Moves(w) /\ replica'[w] = [replica[w] EXCEPT !.stage = stage, !.answer = answer]
      BY <3>1 DEF Moves, TInv, WorkersFit
    <3>3. replica'[w] \in Busy /\ replica'[w].stage = stage /\ replica'[w].answer = answer
      BY <1>1, <3>2 DEF Busy, Stages
    <3>4. Fits(replica'[w], report')
      BY <3>3 DEF Fits, Specialist, Answering
    <3> QED
      BY <1>3, <3>2, <3>4, OneMoves DEF TInv
  <2>3. synthesis[t] \in Answers /\ (Checkpointed(t) => synthesis[t] # 0)
    BY <1>1 DEF TInv, RowTypes, SavedTogether, Checkpointed
  <2>4. replica[w].claim \in Answers \ {0}
    BY <1>1, MaxAttemptsAssumption DEF Busy, Answers
  <2>5. CASE CountSynthesis(w)
    BY <1>3, <2>5, AnswerFits DEF CountSynthesis, At, TInv
  <2> QED
    BY <2>1, <2>2, <2>3, <2>4, <2>5 DEF StartSynthesis, Synthesised
<1> QED
  BY <1>2, <1>3, <1>4, <1>5 DEF TInv

LEMMA SaveSynthesisInv ==
  ASSUME TInv, NEW w \in Replicas, SaveSynthesis(w)
  PROVE  TInv' /\ StepsKept
<1> DEFINE t == replica[w].task
<1>1. /\ replica[w].stage = "RECORDED" /\ replica[w] \in Busy /\ t \in Tasks
      /\ replica[w].answer \in Answers \ {0}
  BY BusyWorker DEF SaveSynthesis, At, TInv, WorkersFit, Fits, Busy
<1>2. CompletedHasReport' /\ ReportsStay
  BY SameReports DEF SaveSynthesis
<1>3. RowTypes'
  BY <1>1 DEF SaveSynthesis, TInv, RowTypes
<1>4. StepTypes' /\ SavedTogether' /\ StepsKept
  <2>1. CASE UNCHANGED <<step, synthesis>>
    BY <2>1, SameSteps
  <2>2. CASE /\ step[t][0] # "completed"
             /\ step' = WriteStep(t, 0, "completed")
             /\ synthesis' = [synthesis EXCEPT ![t] = replica[w].answer]
    <3>1. 0 \in Steps /\ "completed" \in StepStatuses
      BY DEF Steps, StepStatuses
    <3>2. StepTypes' /\ StepsKept /\ \A s \in Tasks : s # t => step'[s][0] = step[s][0]
      BY <1>1, <2>2, <3>1, WrittenSteps DEF TInv
    <3>3. step'[t][0] = "completed"
      BY <1>1, <2>2, <3>1, StepWritten DEF TInv
    <3>4. \A s \in Tasks : synthesis'[s] = IF s = t THEN replica[w].answer ELSE synthesis[s]
      BY <2>2 DEF TInv, RowTypes
    <3>5. SavedTogether'
      BY <1>1, <3>2, <3>3, <3>4 DEF TInv, SavedTogether
    <3> QED
      BY <3>2, <3>5
  <2> QED
    BY <2>1, <2>2 DEF SaveSynthesis
<1>5. WorkersFit'
  BY <1>1, <1>2, AnswerFits DEF SaveSynthesis, TInv, Answering
<1> QED
  BY <1>2, <1>3, <1>4, <1>5 DEF TInv

LEMMA ReportInv ==
  ASSUME TInv, NEW w \in Replicas,
         CorrectCoverage(w) \/ CoverageCorrected(w) \/ Publish(w) \/ CompleteJob(w)
  PROVE  TInv'
<1> DEFINE t == replica[w].task
<1>1. replica[w].stage # "IDLE" /\ replica[w] \in Busy /\ t \in Tasks
  BY BusyWorker DEF CorrectCoverage, CoverageCorrected, Publish, CompleteJob, At, TInv
<1>2. StepTypes' /\ SavedTogether'
  BY SameSteps DEF CorrectCoverage, CoverageCorrected, Publish, CompleteJob
<1>3. CASE CorrectCoverage(w) \/ CoverageCorrected(w)
  <2>1. CompletedHasReport' /\ ReportsStay
    BY <1>1, <1>3, JobOfAssumption, SameReports DEF CorrectCoverage, CoverageCorrected, TInv, RowTypes
  <2>2. RowTypes'
    BY <1>1, <1>3 DEF CorrectCoverage, CoverageCorrected, CountCall, TInv, RowTypes
  <2>3. WorkersFit'
    BY <1>3, <2>1, AnswerFits DEF CorrectCoverage, CoverageCorrected, At, TInv, Answering
  <2> QED
    BY <1>2, <2>1, <2>2, <2>3 DEF TInv
<1>4. CASE Publish(w)
  <2>1. replica[w].answer \in Answers \ {0}
    BY <1>1, <1>4 DEF Publish, At, TInv, WorkersFit, Fits, Busy, Answering
  <2>2. \A s \in Tasks : report'[s] = IF s = t THEN replica[w].answer ELSE report[s]
    BY <1>4 DEF Publish, TInv, RowTypes
  <2>3. RowTypes'
    BY <1>1, <1>4, <2>1 DEF Publish, TInv, RowTypes
  <2>4. CompletedHasReport' /\ ReportsStay
    BY <1>4, <2>1, <2>2 DEF Publish, TInv, CompletedHasReport, ReportsStay
  <2>5. Goto(w, "PUBLISHED") /\ "PUBLISHED" \in Stages
    BY <1>4 DEF Publish, Stages
  <2>6. /\ Moves(w) /\ replica'[w] \in Busy /\ replica'[w].stage = "PUBLISHED"
        /\ replica'[w].task = t
    BY <1>1, <2>5, GoesOn DEF TInv, Keeps
  <2>7. Fits(replica'[w], report')
    BY <1>1, <2>1, <2>2, <2>6 DEF Fits, Specialist, Answering
  <2> QED
    BY <1>2, <2>3, <2>4, <2>6, <2>7, OneMoves DEF TInv
<1>5. CASE CompleteJob(w)
  <2>1. report[t] # 0
    BY <1>5 DEF CompleteJob, At, TInv, WorkersFit, Fits
  <2>2. CompletedHasReport' /\ ReportsStay
    <3>1. \A j \in Tasks : job'[j] = "COMPLETED" => job[j] = "COMPLETED" \/ JobOf[t] = j
      BY <1>5 DEF CompleteJob, TInv, RowTypes
    <3> QED
      BY <1>1, <1>5, <2>1, <3>1, SameReports DEF CompleteJob
  <2>3. RowTypes'
    BY <1>1, <1>5 DEF CompleteJob, TInv, RowTypes
  <2>4. WorkersFit'
    BY <1>1, <1>5, <2>2, PlainFits DEF CompleteJob, TInv, Plain, Stages, Specialist, Answering
  <2> QED
    BY <1>2, <2>2, <2>3, <2>4 DEF TInv
<1> QED
  BY <1>3, <1>4, <1>5

-----------------------------------------------------------------------------
(* The theorems                                                            *)

LEMMA StutterInv == TInv /\ UNCHANGED vars => TInv'
<1> SUFFICES ASSUME TInv, UNCHANGED vars PROVE TInv'
  OBVIOUS
<1>1. StepTypes' /\ SavedTogether' /\ CompletedHasReport' /\ ReportsStay
  BY SameSteps, SameReports DEF vars
<1>2. RowTypes' /\ WorkersFit'
  BY DEF TInv, RowTypes, WorkersFit, Fits, vars
<1> QED
  BY <1>1, <1>2 DEF TInv

LEMMA NextInv == TInv /\ [Next]_vars => TInv'
<1> SUFFICES ASSUME TInv, [Next]_vars PROVE TInv'
  OBVIOUS
<1>1. CASE UNCHANGED vars
  BY <1>1, StutterInv
<1>2. ASSUME NEW t \in Tasks, Ask(t) \/ LeaseLapses(t) PROVE TInv'
  BY <1>2, AskInv
<1>3. ASSUME NEW w \in Replicas, Claim(w) \/ Works(w) \/ Throws(w) \/ Crash(w) PROVE TInv'
  <2>2. CASE Claim(w) \/ CompleteTask(w) \/ FailTask(w) \/ FailJob(w) \/ Crash(w)
    BY <2>2, QueueInv
  <2>3. CASE CheckFinished(w) \/ Decide(w) \/ PlanMade(w) \/ AnswerInChat(w) \/ Throws(w)
    BY <2>3, PlanningInv
  <2>4. CASE CreateJob(w) \/ StartResearch(w) \/ TeamDone(w) \/ SaveSynthesis(w)
    BY <2>4, CreateJobInv, ResearchInv, TeamDoneInv, SaveSynthesisInv
  <2>5. CASE \/ PassSpecialist(w) \/ StartSpecialist(w) \/ SpecialistAnswers(w)
             \/ CountSpecialist(w) \/ SpecialistReports(w) \/ SpecialistFails(w)
    BY <2>5, TeamInv
  <2>6. CASE StartSynthesis(w) \/ Synthesised(w) \/ CountSynthesis(w)
    BY <2>6, SynthesisInv
  <2>7. CASE CorrectCoverage(w) \/ CoverageCorrected(w) \/ Publish(w) \/ CompleteJob(w)
    BY <2>7, ReportInv
  <2> QED
    BY <1>3, <2>2, <2>3, <2>4, <2>5, <2>6, <2>7 DEF Works
<1> QED
  BY <1>1, <1>2, <1>3 DEF Next

LEMMA Invariant == Spec => []TInv
<1> QED
  BY InitTInv, NextInv, PTL DEF Spec

\* Every row and every worker's state has its type.
THEOREM TypeCorrect == Spec => []TypeOK
<1>1. TInv => TypeOK
  <2> SUFFICES ASSUME TInv PROVE TypeOK
    OBVIOUS
  <2>1. replica \in [Replicas -> Busy \cup {IdleReplica}]
    BY DEF TInv, WorkersFit, Fits
  <2> QED
    BY <2>1 DEF TInv, TypeOK, RowTypes, TaskRows, StepTypes, StepStatuses, Busy
<1> QED
  BY Invariant, <1>1, PTL

\* A job is completed only after its report was published, whoever of the
\* workers on its task comes late (executeResearch).
THEOREM CompletedJobsReported == Spec => []CompletedHasReport
<1>1. TInv => CompletedHasReport
  BY DEF TInv
<1> QED
  BY Invariant, <1>1, PTL

\* No step takes a completed step or the lead's saved answer back
\* (createJobOrchestrationPlan, updateJobOrchestrationStep).
THEOREM CheckpointsLast == Spec => CheckpointsStay
<1> DEFINE Stay == \A t \in Tasks :
             /\ \A i \in Steps : step[t][i] = "completed" => step'[t][i] = "completed"
             /\ synthesis[t] # 0 => synthesis'[t] = synthesis[t]
<1>1. TInv /\ [Next]_vars => StepsKept
  <2> SUFFICES ASSUME TInv, [Next]_vars PROVE StepsKept
    OBVIOUS
  <2>1. CASE UNCHANGED <<step, synthesis>>
    BY <2>1, SameSteps
  <2>2. ASSUME NEW w \in Replicas, StartResearch(w) \/ TeamDone(w) \/ SaveSynthesis(w)
        PROVE StepsKept
    BY <2>2, ResearchInv, TeamDoneInv, SaveSynthesisInv
  <2>3. ASSUME NEW w \in Replicas,
               \/ PassSpecialist(w) \/ StartSpecialist(w) \/ SpecialistAnswers(w)
               \/ CountSpecialist(w) \/ SpecialistReports(w) \/ SpecialistFails(w)
        PROVE StepsKept
    BY <2>3, TeamInv
  <2> QED
    BY <2>1, <2>2, <2>3 DEF Next, vars, Ask, LeaseLapses, Claim, Works, Throws, Crash, CheckFinished,
       Decide, PlanMade, CreateJob, AnswerInChat, StartSynthesis, Synthesised, CountSynthesis, CorrectCoverage,
       CoverageCorrected, Publish, CompleteJob, CompleteTask, FailTask, FailJob
<1>2. TInv /\ [Next]_vars => \A t \in Tasks : synthesis[t] # 0 => synthesis'[t] = synthesis[t]
  <2> SUFFICES ASSUME TInv, [Next]_vars
               PROVE \A t \in Tasks : synthesis[t] # 0 => synthesis'[t] = synthesis[t]
    OBVIOUS
  <2>1. CASE UNCHANGED synthesis
    BY <2>1
  <2>2. ASSUME NEW w \in Replicas, SaveSynthesis(w)
        PROVE \A t \in Tasks : synthesis[t] # 0 => synthesis'[t] = synthesis[t]
    <3>1. replica[w].task \in Tasks
      BY <2>2, BusyWorker DEF SaveSynthesis, At, TInv
    <3>2. \/ UNCHANGED synthesis
          \/ /\ synthesis[replica[w].task] = 0
             /\ synthesis' = [synthesis EXCEPT ![replica[w].task] = replica[w].answer]
      BY <2>2, <3>1 DEF SaveSynthesis, TInv, SavedTogether
    <3> QED
      BY <3>1, <3>2 DEF TInv, RowTypes
  <2> QED
    BY <2>1, <2>2 DEF Next, vars, Ask, LeaseLapses, Claim, Works, Throws, Crash, CheckFinished,
       Decide, PlanMade, CreateJob, AnswerInChat, StartResearch, PassSpecialist, StartSpecialist,
       SpecialistAnswers, CountSpecialist, SpecialistReports, SpecialistFails, TeamDone, StartSynthesis, Synthesised,
       CountSynthesis,        CorrectCoverage, CoverageCorrected, Publish, CompleteJob, CompleteTask, FailTask, FailJob
<1>3. TInv /\ [Next]_vars => [Stay]_vars
  BY <1>1, <1>2 DEF StepsKept
<1> QED
  BY Invariant, <1>3, PTL DEF Spec, CheckpointsStay


-----------------------------------------------------------------------------
(* What a superseded worker spends                                         *)

\* Stages a worker reaches only while nothing is counted after its task was
\* claimed again, and stages with one such call at most.
Fresh == {"CLAIMED", "PLAN", "PLANNING", "SPECIALIST", "ANSWERED", "SYNTHESIS", "SYNTHESISED"}
Once == {"ROUTE", "RESEARCH", "TEAM", "COUNTED", "LEAD", "RECORDED", "PUBLISH", "CORRECTING"}

\* A task is claimed again, never handed back to an earlier claim.
Spent(r, tasks) ==
    r.stage # "IDLE" =>
        /\ tasks[r.task].status # "NONE"
        /\ r.claim <= tasks[r.task].attempts
        /\ r.late > 0 => r.claim < tasks[r.task].attempts
        /\ r.late <= 2
        /\ r.stage \in Once => r.late <= 1
        /\ r.stage \in Fresh => r.late = 0

SInv == \A w \in Replicas : Spent(replica[w], task)

TasksGrow ==
    \A t \in Tasks : /\ task'[t].attempts >= task[t].attempts
                     /\ task[t].status # "NONE" => task'[t].status # "NONE"

LEMMA AllSpent ==
  ASSUME TInv, SInv, TasksGrow, TInv', NEW w \in Replicas, Moves(w), Spent(replica'[w], task')
  PROVE  SInv'
<1>1. ASSUME NEW v \in Replicas PROVE Spent(replica'[v], task')
  <2>1. CASE v = w
    BY <2>1
  <2>2. CASE v # w /\ replica[v].stage # "IDLE"
    <3>1. replica'[v] = replica[v]
      BY <2>2 DEF Moves, TInv, WorkersFit
    <3>2. replica[v] \in Busy /\ replica[v].task \in Tasks
      BY <2>2, BusyWorker DEF TInv
    <3>3. /\ task[replica[v].task].attempts \in Nat /\ task'[replica[v].task].attempts \in Nat
          /\ replica[v].claim \in Nat
      BY <3>2 DEF TInv, RowTypes, TaskRows, Busy
    <3>4. Spent(replica[v], task)
      BY DEF SInv
    <3> QED
      BY <3>1, <3>2, <3>3, <3>4 DEF Spent, TasksGrow
  <2>3. CASE v # w /\ replica[v].stage = "IDLE"
    <3>1. replica'[v] = replica[v]
      BY <2>3 DEF Moves, TInv, WorkersFit
    <3> QED
      BY <2>3, <3>1 DEF Spent
  <2> QED
    BY <2>1, <2>2, <2>3
<1> QED
  BY <1>1 DEF SInv

LEMMA Grows == TInv /\ [Next]_vars => TasksGrow
<1> SUFFICES ASSUME TInv, [Next]_vars PROVE TasksGrow
  OBVIOUS
<1>1. \A t \in Tasks : task[t] \in TaskRows /\ task[t].attempts \in Nat
  BY DEF TInv, RowTypes, TaskRows
<1>2. CASE UNCHANGED task
  BY <1>1, <1>2 DEF TasksGrow
<1>3. ASSUME NEW t \in Tasks,
             \/ task' = [task EXCEPT ![t].status = "completed", ![t].lease = "NONE"]
             \/ \E status \in {"queued", "failed"} :
                  task' = [task EXCEPT ![t].lease = "NONE", ![t].status = status]
             \/ task' = [task EXCEPT ![t].status = "queued"]
             \/ task' = [task EXCEPT ![t].lease = "LAPSED"]
             \/ \E plan \in {"ANSWER", "JOB"} : task' = [task EXCEPT ![t].plan = plan]
             \/ task' = [task EXCEPT ![t].status = "running", ![t].attempts = @ + 1, ![t].lease = "HELD"]
      PROVE  TasksGrow
  <2>1. \A s \in Tasks \ {t} : task'[s] = task[s]
    BY <1>3 DEF TInv, RowTypes
  <2>2. /\ task'[t].attempts \in {task[t].attempts, task[t].attempts + 1}
        /\ task[t].status # "NONE" => task'[t].status # "NONE"
    BY <1>1, <1>3 DEF TInv, RowTypes, TaskRows
  <2> QED
    BY <1>1, <2>1, <2>2 DEF TasksGrow
<1> USE DEF Next, vars, Ask, LeaseLapses, Claim, Works, Throws, Crash, CheckFinished, Decide,
     CreateJob, AnswerInChat, StartResearch, PassSpecialist, StartSpecialist, SpecialistAnswers,
     CountSpecialist, SpecialistReports, SpecialistFails, TeamDone, StartSynthesis, Synthesised,
     CountSynthesis, SaveSynthesis, CorrectCoverage, CoverageCorrected, Publish, CompleteJob, FailJob
<1>4. ASSUME NEW w \in Replicas, PlanMade(w) \/ CompleteTask(w) \/ FailTask(w) PROVE TasksGrow
  <2>1. replica[w].task \in Tasks
    BY <1>4, BusyWorker DEF PlanMade, CompleteTask, FailTask, At, TInv
  <2>2. CASE PlanMade(w)
    BY <1>2, <1>3, <2>1, <2>2 DEF PlanMade
  <2>3. CASE CompleteTask(w)
    BY <1>3, <2>1, <2>3 DEF CompleteTask
  <2>4. CASE FailTask(w)
    <3>1. PICK status \in {"queued", "failed"} :
            \/ UNCHANGED task
            \/ task' = [task EXCEPT ![replica[w].task].lease = "NONE",
                                    ![replica[w].task].status = status]
      BY <2>4 DEF FailTask
    <3> QED
      BY <1>2, <1>3, <2>1, <3>1
  <2> QED
    BY <1>4, <2>2, <2>3, <2>4
<1>5. CASE \E t \in Tasks : Ask(t) \/ LeaseLapses(t)
  BY <1>3, <1>5
<1>6. CASE \E w \in Replicas : Claim(w)
  BY <1>3, <1>6
<1> QED
  BY <1>2, <1>4, <1>5, <1>6

\* A worker that goes on without a call counted, to a stage that asks no more
\* of it, unless it has just been found to hold the lease.
LEMMA SpentGoesOn ==
  ASSUME TInv, SInv, TasksGrow, TInv', NEW w \in Replicas, replica[w].stage # "IDLE",
         replica'[w].task = replica[w].task, replica'[w].claim = replica[w].claim,
         replica'[w].late = replica[w].late,
         replica'[w].stage \in Once => replica[w].stage \in Once \cup Fresh,
         replica'[w].stage \in Fresh => replica[w].stage \in Fresh \/ HoldsLease(w)
  PROVE  Spent(replica'[w], task')
<1> DEFINE t == replica[w].task
<1>1. /\ replica[w] \in Busy /\ t \in Tasks /\ Spent(replica[w], task)
      /\ task'[t].attempts >= task[t].attempts
      /\ task[t].status # "NONE" => task'[t].status # "NONE"
  BY BusyWorker DEF TInv, SInv, TasksGrow
<1>2. /\ task[t].attempts \in Nat /\ task'[t].attempts \in Nat
      /\ replica[w].claim \in Nat /\ replica[w].late \in Nat
  BY <1>1 DEF TInv, RowTypes, TaskRows, Busy
<1>3. HoldsLease(w) => replica[w].late = 0
  BY <1>1, <1>2 DEF HoldsLease, Spent
<1>4. replica'[w].stage \in Fresh => replica'[w].late = 0
  BY <1>1, <1>3 DEF Spent, Fresh
<1>5. replica'[w].stage \in Once => replica'[w].late <= 1
  BY <1>1, <1>2 DEF Spent, Fresh, Once
<1> QED
  BY <1>1, <1>2, <1>4, <1>5 DEF Spent

LEMMA SpentGoto ==
  ASSUME TInv, SInv, TasksGrow, TInv', NEW w \in Replicas, replica[w].stage # "IDLE",
         NEW stage, Goto(w, stage),
         stage \in Once => replica[w].stage \in Once \cup Fresh,
         stage \in Fresh => replica[w].stage \in Fresh \/ HoldsLease(w)
  PROVE  Spent(replica'[w], task')
<1>1. replica'[w] = [replica[w] EXCEPT !.stage = stage] /\ replica[w] \in Busy
  BY BusyWorker DEF Goto, TInv, WorkersFit
<1>2. /\ replica'[w].stage = stage /\ replica'[w].task = replica[w].task
      /\ replica'[w].claim = replica[w].claim /\ replica'[w].late = replica[w].late
  BY <1>1 DEF Busy
<1> QED
  BY <1>2, SpentGoesOn

\* A worker that counts a call: its first since it was superseded, or the
\* correction of the coverage.
LEMMA SpentCounts ==
  ASSUME TInv, SInv, TasksGrow, TInv', NEW w \in Replicas, NEW stage, CountCall(w, stage),
         task'[replica[w].task].attempts = task[replica[w].task].attempts,
         \/ replica[w].stage \in Fresh /\ stage \in Once \cup {"FINISH"}
         \/ replica[w].stage = "CORRECTING" /\ stage = "COVERED"
  PROVE  Spent(replica'[w], task')
<1> DEFINE t == replica[w].task
<1>1. replica[w].stage # "IDLE"
  BY DEF Fresh
<1>2. /\ replica[w] \in Busy /\ t \in Tasks /\ Spent(replica[w], task)
      /\ task[t].status # "NONE" => task'[t].status # "NONE"
  BY <1>1, BusyWorker DEF TInv, SInv, TasksGrow
<1>3. task[t].attempts \in Nat /\ replica[w].claim \in Nat /\ replica[w].late \in Nat
  BY <1>2 DEF TInv, RowTypes, TaskRows, Busy
<1>4. replica'[w] = [replica[w] EXCEPT !.stage = stage,
                       !.late = IF Superseded(w) THEN @ + 1 ELSE @]
  BY DEF CountCall, TInv, WorkersFit
<1>5. /\ replica'[w].stage = stage /\ replica'[w].task = t /\ replica'[w].claim = replica[w].claim
      /\ replica'[w].late = IF Superseded(w) THEN replica[w].late + 1 ELSE replica[w].late
  BY <1>2, <1>4 DEF Busy
<1>6. replica'[w].late > 0 => replica[w].claim < task[t].attempts
  BY <1>1, <1>2, <1>3, <1>5 DEF Spent, Superseded
<1>7. replica[w].stage \in Fresh => replica[w].late = 0
  BY <1>1, <1>2 DEF Spent
<1>8. replica[w].stage = "CORRECTING" => replica[w].late <= 1
  BY <1>2 DEF Spent, Once
<1>9. /\ replica'[w].late <= 2
      /\ stage \in Once => replica'[w].late <= 1
      /\ stage \notin Fresh
  BY <1>3, <1>5, <1>7, <1>8 DEF Fresh, Once
<1> QED
  BY <1>1, <1>2, <1>3, <1>5, <1>6, <1>9 DEF Spent

LEMMA SpentStep ==
  ASSUME TInv, SInv, TasksGrow, TInv', NEW w \in Replicas,
         Claim(w) \/ Works(w) \/ Throws(w) \/ Crash(w)
  PROVE  Spent(replica'[w], task')
<1>1. ASSUME replica' = [replica EXCEPT ![w] = IdleReplica] PROVE Spent(replica'[w], task')
  <2>1. replica'[w] = IdleReplica
    BY <1>1 DEF TInv, WorkersFit
  <2> QED
    BY <2>1 DEF Spent, IdleReplica
<1>2. CASE Claim(w)
  <2>1. PICK t \in Tasks :
          /\ task' = [task EXCEPT ![t].status = "running", ![t].attempts = @ + 1, ![t].lease = "HELD"]
          /\ replica' = [replica EXCEPT ![w] = [IdleReplica EXCEPT
                           !.stage = "CLAIMED", !.task = t, !.claim = task[t].attempts + 1]]
    BY <1>2 DEF Claim
  <2>2. replica'[w] = [IdleReplica EXCEPT
                         !.stage = "CLAIMED", !.task = t, !.claim = task[t].attempts + 1]
    BY <2>1 DEF TInv, WorkersFit
  <2>3. /\ replica'[w].stage = "CLAIMED" /\ replica'[w].task = t
        /\ replica'[w].claim = task[t].attempts + 1 /\ replica'[w].late = 0
    BY <2>2 DEF IdleReplica
  <2>4. task[t] \in TaskRows /\ task[t].attempts \in Nat
    BY DEF TInv, RowTypes, TaskRows
  <2>5. task'[t].attempts = task[t].attempts + 1 /\ task'[t].status = "running"
    BY <2>1, <2>4 DEF TInv, RowTypes, TaskRows
  <2> QED
    BY <2>3, <2>4, <2>5 DEF Spent, Once
<1>3. CASE CompleteTask(w) \/ FailJob(w) \/ Crash(w)
  BY <1>1, <1>3 DEF CompleteTask, FailJob, Crash
<1>4. CASE FailTask(w)
  <2>1. CASE Goto(w, "GIVE_UP")
    BY <1>4, <2>1, SpentGoto DEF FailTask, Once, Fresh
  <2> QED
    BY <1>1, <1>4, <2>1 DEF FailTask
<1>5. CASE Throws(w)
  BY <1>5, SpentGoto DEF Throws, Stages, Once, Fresh
<1>6. CASE CheckFinished(w) \/ Decide(w) \/ AnswerInChat(w)
  <2>1. PICK stage \in {"FINISH", "PLAN", "ROUTE", "PLANNING", "REFUSED"} : Goto(w, stage)
    BY <1>6 DEF CheckFinished, Decide, AnswerInChat
  <2>2. /\ replica[w].stage \in {"CLAIMED", "PLAN", "ROUTE"}
        /\ replica[w].stage = "ROUTE" => Goto(w, "FINISH")
    BY <1>6 DEF CheckFinished, Decide, AnswerInChat, At
  <2>3. CASE replica[w].stage = "ROUTE"
    BY <2>2, <2>3, SpentGoto DEF Once, Fresh
  <2>4. CASE replica[w].stage # "ROUTE"
    BY <2>1, <2>2, <2>4, SpentGoto DEF Once, Fresh
  <2> QED
    BY <2>3, <2>4
<1>7. CASE PlanMade(w)
  <2>1. PICK plan \in {"ANSWER", "JOB"} :
          /\ task' = task \/ task' = [task EXCEPT ![replica[w].task].plan = plan]
          /\ CountCall(w, IF plan = "JOB" THEN "ROUTE" ELSE "FINISH")
    BY <1>7 DEF PlanMade
  <2>2. replica[w].task \in Tasks
    BY <1>7, BusyWorker DEF PlanMade, At, TInv
  <2>3. task[replica[w].task] \in TaskRows
    BY <2>2 DEF TInv, RowTypes
  <2>4. task'[replica[w].task].attempts = task[replica[w].task].attempts
    BY <2>1, <2>2, <2>3 DEF TInv, RowTypes, TaskRows
  <2>5. PICK stage \in {"ROUTE", "FINISH"} : CountCall(w, stage)
    BY <2>1
  <2> QED
    BY <1>7, <2>4, <2>5, SpentCounts DEF PlanMade, At, Once, Fresh
<1>8. CASE CountSpecialist(w) \/ CountSynthesis(w) \/ (CoverageCorrected(w) /\ CountCall(w, "COVERED"))
  <2>1. UNCHANGED task
    BY <1>8 DEF CountSpecialist, CountSynthesis, CoverageCorrected
  <2>2. CASE CountSpecialist(w)
    BY <2>1, <2>2, SpentCounts DEF CountSpecialist, At, Once, Fresh
  <2>3. CASE CountSynthesis(w)
    BY <2>1, <2>3, SpentCounts DEF CountSynthesis, At, Once, Fresh
  <2>4. CASE CoverageCorrected(w) /\ CountCall(w, "COVERED")
    BY <2>1, <2>4, SpentCounts DEF CoverageCorrected, At
  <2> QED
    BY <1>8, <2>2, <2>3, <2>4
<1>9. CASE NextStep(w) /\ replica[w].stage \in {"TEAM"} \cup Specialist
  <2>1. replica[w].stage # "IDLE"
    BY <1>9 DEF Specialist
  <2>2. replica'[w] = [replica[w] EXCEPT !.stage = "TEAM", !.next = @ + 1] /\ replica[w] \in Busy
    BY <1>9, <2>1, BusyWorker DEF NextStep, TInv, WorkersFit
  <2>3. /\ replica'[w].stage = "TEAM" /\ replica'[w].task = replica[w].task
        /\ replica'[w].claim = replica[w].claim /\ replica'[w].late = replica[w].late
    BY <2>2 DEF Busy
  <2> QED
    BY <1>9, <2>1, <2>3, SpentGoesOn DEF Once, Fresh, Specialist
<1>10. CASE CreateJob(w) \/ StartResearch(w) \/ StartSynthesis(w) \/ Synthesised(w)
  <2>1. replica[w].stage \in {"ROUTE", "RESEARCH", "LEAD", "SYNTHESIS"} /\ replica[w].stage # "IDLE"
    BY <1>10 DEF CreateJob, StartResearch, StartSynthesis, Synthesised, At
  <2>2. replica[w] \in Busy
    BY <2>1, BusyWorker DEF TInv
  <2>3. CASE CreateJob(w)
    <3>1. PICK size : replica'[w] = [replica[w] EXCEPT !.stage = "RESEARCH", !.size = size]
      BY <2>3 DEF CreateJob, TInv, WorkersFit
    <3>2. /\ replica'[w].stage = "RESEARCH" /\ replica'[w].task = replica[w].task
          /\ replica'[w].claim = replica[w].claim /\ replica'[w].late = replica[w].late
      BY <2>2, <3>1 DEF Busy
    <3> QED
      BY <2>1, <2>3, <3>2, SpentGoesOn DEF CreateJob, At, Once, Fresh
  <2>4. CASE StartResearch(w)
    <3>1. CASE Goto(w, "REFUSED")
      BY <2>1, <3>1, SpentGoto DEF Once, Fresh
    <3>2. CASE \E stage \in {"TEAM", "LEAD"}, allowed \in {Allowed(replica[w].task)} :
                 replica' = [replica EXCEPT ![w].stage = stage, ![w].next = 1, ![w].allowed = allowed]
      <4>1. PICK stage \in {"TEAM", "LEAD"}, allowed \in {Allowed(replica[w].task)} :
              replica'[w] = [replica[w] EXCEPT !.stage = stage, !.next = 1, !.allowed = allowed]
        BY <3>2 DEF TInv, WorkersFit
      <4>2. /\ replica'[w].stage = stage /\ replica'[w].task = replica[w].task
            /\ replica'[w].claim = replica[w].claim /\ replica'[w].late = replica[w].late
        BY <2>2, <4>1 DEF Busy
      <4> QED
        BY <2>1, <2>4, <4>2, SpentGoesOn DEF StartResearch, At, Once, Fresh
    <3> QED
      BY <2>4, <3>1, <3>2 DEF StartResearch
  <2>5. CASE StartSynthesis(w) \/ Synthesised(w)
    <3>1. CASE \E stage \in {"SYNTHESIS", "THROWN"} :
                 Goto(w, stage) /\ (stage = "SYNTHESIS" => HoldsLease(w))
      BY <2>1, <3>1, SpentGoto DEF Once, Fresh
    <3>2. CASE \E answer, stage :
                 /\ replica' = [replica EXCEPT ![w].stage = stage, ![w].answer = answer]
                 /\ \/ stage = "PUBLISH" /\ At(w, "LEAD")
                    \/ stage = "SYNTHESISED" /\ HoldsLease(w)
      <4>1. PICK answer, stage :
              /\ replica'[w] = [replica[w] EXCEPT !.stage = stage, !.answer = answer]
              /\ \/ stage = "PUBLISH" /\ At(w, "LEAD")
                 \/ stage = "SYNTHESISED" /\ HoldsLease(w)
        BY <3>2 DEF TInv, WorkersFit
      <4>2. /\ replica'[w].stage = stage /\ replica'[w].task = replica[w].task
            /\ replica'[w].claim = replica[w].claim /\ replica'[w].late = replica[w].late
        BY <2>2, <4>1 DEF Busy
      <4> QED
        BY <2>1, <4>1, <4>2, SpentGoesOn DEF At, Once, Fresh
    <3> QED
      BY <2>5, <3>1, <3>2 DEF StartSynthesis, Synthesised
  <2> QED
    BY <1>10, <2>3, <2>4, <2>5
<1>11. CASE StartSpecialist(w) \/ SpecialistAnswers(w)
  <2>1. CASE Goto(w, "THROWN")
    BY <1>11, <2>1, SpentGoto DEF StartSpecialist, SpecialistAnswers, At, Once, Fresh
  <2>2. CASE HoldsLease(w) /\ \E stage \in {"SPECIALIST", "ANSWERED"} : Goto(w, stage)
    BY <1>11, <2>2, SpentGoto DEF StartSpecialist, SpecialistAnswers, At, Once, Fresh
  <2> QED
    BY <1>11, <2>1, <2>2 DEF StartSpecialist, SpecialistAnswers
<1>12. CASE TeamDone(w) \/ SaveSynthesis(w) \/ CorrectCoverage(w)
  <2>1. PICK stage \in {"LEAD", "PUBLISH", "CORRECTING", "COVERED"} : Goto(w, stage)
    BY <1>12 DEF TeamDone, SaveSynthesis, CorrectCoverage
  <2>2. replica[w].stage \in Once /\ replica[w].stage # "IDLE"
    BY <1>12 DEF TeamDone, SaveSynthesis, CorrectCoverage, At, Once
  <2> QED
    BY <2>1, <2>2, SpentGoto DEF Once, Fresh
<1>13. CASE Publish(w) \/ CompleteJob(w) \/ (CoverageCorrected(w) /\ Goto(w, "COVERED"))
  <2>1. PICK stage \in {"PUBLISHED", "FINISH", "COVERED"} : Goto(w, stage)
    BY <1>13 DEF Publish, CompleteJob
  <2>2. replica[w].stage # "IDLE"
    BY <1>13 DEF Publish, CompleteJob, CoverageCorrected, At
  <2> QED
    BY <2>1, <2>2, SpentGoto DEF Once, Fresh
<1>14. CASE PassSpecialist(w) \/ SpecialistReports(w) \/ SpecialistFails(w)
  BY <1>9, <1>14 DEF PassSpecialist, SpecialistReports, SpecialistFails, At, Specialist
<1> QED
  BY <1>2, <1>3, <1>4, <1>5, <1>6, <1>7, <1>8, <1>10, <1>11, <1>12, <1>13, <1>14
  DEF Works, CoverageCorrected

LEMMA SNext == TInv /\ SInv /\ [Next]_vars => SInv'
<1> SUFFICES ASSUME TInv, SInv, [Next]_vars PROVE SInv'
  OBVIOUS
<1>1. TInv' /\ TasksGrow
  BY NextInv, Grows
<1>2. ASSUME NEW w \in Replicas, Claim(w) \/ Works(w) \/ Throws(w) \/ Crash(w) PROVE SInv'
  <2>1. Spent(replica'[w], task')
    BY <1>1, <1>2, SpentStep
  <2>2. \E r : replica' = [replica EXCEPT ![w] = r]
    BY <1>2 DEF Works, Claim, Throws, Crash, CheckFinished, Decide, PlanMade, CreateJob,
       AnswerInChat, StartResearch, PassSpecialist, StartSpecialist, SpecialistAnswers,
       CountSpecialist, SpecialistReports, SpecialistFails, TeamDone, StartSynthesis, Synthesised,
       CountSynthesis, SaveSynthesis, CorrectCoverage, CoverageCorrected, Publish, CompleteJob,
       CompleteTask, FailTask, FailJob, Goto, NextStep, CountCall
  <2>3. Moves(w)
    BY <2>2 DEF Moves, TInv, WorkersFit
  <2> QED
    BY <1>1, <2>1, <2>3, AllSpent
<1>3. CASE UNCHANGED replica
  <2>1. ASSUME NEW w \in Replicas PROVE Spent(replica'[w], task')
    <3>1. CASE replica[w].stage # "IDLE"
      <4>1. replica[w].task \in Tasks /\ replica[w] \in Busy
        BY <3>1, BusyWorker DEF TInv
      <4>2. /\ task[replica[w].task].attempts \in Nat /\ task'[replica[w].task].attempts \in Nat
            /\ replica[w].claim \in Nat
        BY <1>1, <4>1 DEF TInv, RowTypes, TaskRows, Busy
      <4> QED
        BY <1>1, <1>3, <3>1, <4>1, <4>2 DEF SInv, Spent, TasksGrow
    <3>2. CASE replica[w].stage = "IDLE"
      BY <1>3, <3>2 DEF Spent
    <3> QED
      BY <3>1, <3>2
  <2> QED
    BY <2>1 DEF SInv
<1>4. CASE UNCHANGED vars \/ \E t \in Tasks : Ask(t) \/ LeaseLapses(t)
  BY <1>3, <1>4 DEF vars, Ask, LeaseLapses
<1> QED
  BY <1>2, <1>4 DEF Next

LEMMA InitSInv == Init => SInv
  BY DEF Init, SInv, Spent, IdleReplica

LEMMA SInvariant == Spec => [](TInv /\ SInv)
<1> QED
  BY InitTInv, InitSInv, NextInv, SNext, PTL DEF Spec

\* A worker whose task was claimed again spends two more calls of the task's
\* budget at most, however long it goes on (assertTaskLease).
THEOREM SupersededWorkersSpendLittle == Spec => []SupersededSpendsLittle
<1>1. TInv /\ SInv => SupersededSpendsLittle
  <2> SUFFICES ASSUME TInv, SInv, NEW w \in Replicas PROVE replica[w].late <= 2
    BY DEF SupersededSpendsLittle
  <2>1. CASE replica[w].stage # "IDLE"
    BY <2>1 DEF SInv, Spent
  <2>2. CASE replica[w].stage = "IDLE"
    <3>1. replica[w] = IdleReplica
      BY <2>2 DEF TInv, WorkersFit, Fits, Busy, Stages
    <3> QED
      BY <3>1 DEF IdleReplica
  <2> QED
    BY <2>1, <2>2
<1> QED
  BY SInvariant, <1>1, PTL

-----------------------------------------------------------------------------
(* Workers apart                                                           *)

\* No worker is at work on the task of another: none outlives its lease into
\* the claim that took its task over. With a single worker it is always so;
\* what a superseded worker still writes breaks both theorems below.
Apart ==
    \A v, w \in Replicas : replica[v].stage # "IDLE" /\ replica[v].task = replica[w].task => v = w

\* Stages between taking a task up and putting it down.
Underway == Stages \ {"CLAIMED", "FINISH", "REFUSED", "THROWN"}
Asking == {"SYNTHESIS", "SYNTHESISED", "RECORDED"}

\* The lead of a team is asked only while there is no saved answer, and no
\* answer of a team is on its way out but the saved one.
HoldsCheckpoint(w) ==
    LET t == replica[w].task IN
    /\ replica[w].stage \in Asking /\ replica[w].size > 0 => synthesis[t] = 0
    /\ replica[w].stage \in Answering /\ replica[w].size > 0 => replica[w].answer = synthesis[t]

\* A worker is not at work on a completed job of its own task.
OwnJobIsOpen(w) ==
    LET t == replica[w].task IN
    replica[w].stage \in Underway /\ Scope[t] # "job" /\ Unshared(t) => job[t] # "COMPLETED"

Alone(w) == HoldsCheckpoint(w) /\ OwnJobIsOpen(w)
AloneInv == \A w \in Replicas : Alone(w)

OwnJobsStay ==
    \A t \in Tasks :
        Scope[t] # "job" /\ Unshared(t) /\ job[t] = "COMPLETED" => job'[t] = "COMPLETED"

Reports(w) ==
    LET t == replica[w].task IN
    replica'[w].stage = "PUBLISHED" /\ ~At(w, "PUBLISHED") /\ replica[w].size > 0
        => report'[t] = synthesis[t]

\* What a step of the worker leaves to show.
AloneKept(w) == HoldsCheckpoint(w)' /\ OwnJobIsOpen(w)' /\ OwnJobsStay /\ Reports(w)

LEMMA InitAlone == Init => AloneInv
  BY DEF Init, AloneInv, Alone, HoldsCheckpoint, OwnJobIsOpen, IdleReplica, Underway, Asking,
         Answering, Stages

LEMMA SharedStays ==
  ASSUME TasksGrow, NEW t \in Tasks, Unshared(t)'
  PROVE  Unshared(t)
  BY DEF Unshared, TasksGrow

\* What a worker goes on with.
SameWork(w) ==
    /\ replica'[w].task = replica[w].task /\ replica'[w].size = replica[w].size
    /\ replica'[w].answer = replica[w].answer

\* A worker that goes on to another stage and writes neither the saved answer
\* nor a job.
LEMMA StageAlone ==
  ASSUME TInv, TasksGrow, NEW w \in Replicas, Alone(w), replica[w].stage # "IDLE",
         SameWork(w), UNCHANGED <<job, synthesis>>,
         replica'[w].stage # "PUBLISHED",
         replica'[w].stage \in Underway =>
            \/ replica[w].stage \in Underway
            \/ Scope[replica[w].task] # "job" => job[replica[w].task] # "COMPLETED",
         replica'[w].stage \in Asking => replica[w].stage \in Asking,
         replica'[w].stage \in Answering => replica[w].stage \in Answering
  PROVE  AloneKept(w)
<1>1. replica[w].task \in Tasks
  BY BusyWorker DEF TInv
<1>2. HoldsCheckpoint(w)'
  BY DEF Alone, HoldsCheckpoint, SameWork
<1>3. OwnJobIsOpen(w)'
  BY <1>1, SharedStays DEF Alone, OwnJobIsOpen, SameWork
<1>4. OwnJobsStay /\ Reports(w)
  BY DEF OwnJobsStay, Reports
<1> QED
  BY <1>2, <1>3, <1>4 DEF AloneKept

\* A worker that has put its task down, whatever it did to a job.
LEMMA RestAlone ==
  ASSUME NEW w \in Replicas, replica'[w].stage \notin Underway, OwnJobsStay
  PROVE  AloneKept(w)
<1>1. HoldsCheckpoint(w)' /\ OwnJobIsOpen(w)' /\ Reports(w)
  BY DEF HoldsCheckpoint, OwnJobIsOpen, Reports, Underway, Asking, Answering, Stages
<1> QED
  BY <1>1 DEF AloneKept

LEMMA SameJobs == UNCHANGED job => OwnJobsStay
  BY DEF OwnJobsStay

\* The job of a worker at work may be written: it is not completed, or it is
\* the job of a task in whose chat more was asked.
LEMMA OpenJob ==
  ASSUME TInv, SInv, NEW w \in Replicas, Alone(w), replica[w].stage \in Underway, NEW status,
         job' = [job EXCEPT ![JobOf[replica[w].task]] = status]
  PROVE  /\ OwnJobsStay
         /\ Scope[replica[w].task] # "job" => job'[replica[w].task] = status
<1> DEFINE t == replica[w].task
<1>1. t \in Tasks /\ task[t].status # "NONE"
  BY BusyWorker DEF TInv, SInv, Spent, Underway, Stages
<1>2. JobOf[t] \in Tasks /\ (Scope[t] # "job" => JobOf[t] = t)
  BY <1>1, JobOfAssumption
<1>3. \A s \in Tasks : job'[s] = IF s = JobOf[t] THEN status ELSE job[s]
  BY <1>2 DEF TInv, RowTypes
<1>4. Scope[t] # "job" /\ Unshared(t) => job[t] # "COMPLETED"
  BY DEF Alone, OwnJobIsOpen
<1>5. ASSUME NEW s \in Tasks, Scope[s] # "job", Unshared(s), s = JobOf[t] PROVE job[s] # "COMPLETED"
  <2>1. s = t
    BY <1>1, <1>5 DEF Unshared
  <2> QED
    BY <1>4, <1>5, <2>1
<1>6. OwnJobsStay
  BY <1>3, <1>5 DEF OwnJobsStay
<1> QED
  BY <1>1, <1>2, <1>3, <1>6

\* A worker at work goes on with its task, and sets its job to running or
\* leaves it.
LEMMA RunsAlone ==
  ASSUME TInv, SInv, TasksGrow, NEW w \in Replicas, Alone(w), replica[w].stage \in Underway,
         replica'[w].task = replica[w].task, replica'[w].stage # "PUBLISHED",
         \/ UNCHANGED job
         \/ \E status \in {"RUNNING", "FAILED_FINAL"} :
              job' = [job EXCEPT ![JobOf[replica[w].task]] = status],
         HoldsCheckpoint(w)'
  PROVE  AloneKept(w)
<1>1. replica[w].task \in Tasks
  BY BusyWorker DEF TInv, Underway, Stages
<1>2. Reports(w)
  BY DEF Reports
<1>3. OwnJobsStay /\ OwnJobIsOpen(w)'
  <2>1. CASE UNCHANGED job
    <3>1. OwnJobIsOpen(w)'
      BY <1>1, <2>1, SharedStays DEF Alone, OwnJobIsOpen
    <3> QED
      BY <2>1, <3>1, SameJobs
  <2>2. CASE \E status \in {"RUNNING", "FAILED_FINAL"} :
               job' = [job EXCEPT ![JobOf[replica[w].task]] = status]
    <3>1. PICK status \in {"RUNNING", "FAILED_FINAL"} :
            job' = [job EXCEPT ![JobOf[replica[w].task]] = status]
      BY <2>2
    <3>2. OwnJobsStay /\ (Scope[replica[w].task] # "job" => job'[replica[w].task] = status)
      BY <3>1, OpenJob
    <3>3. OwnJobIsOpen(w)'
      BY <3>2 DEF OwnJobIsOpen
    <3> QED
      BY <3>2, <3>3
  <2> QED
    BY <2>1, <2>2
<1> QED
  BY <1>2, <1>3 DEF AloneKept

\* Going on to a stage, with a call counted or without.
LEMMA GoesAlone ==
  ASSUME TInv, TasksGrow, NEW w \in Replicas, Alone(w), replica[w].stage # "IDLE",
         NEW stage \in Stages, Goto(w, stage) \/ CountCall(w, stage),
         UNCHANGED <<job, synthesis>>,
         stage # "PUBLISHED",
         stage \in Underway =>
            \/ replica[w].stage \in Underway
            \/ Scope[replica[w].task] # "job" => job[replica[w].task] # "COMPLETED",
         stage \in Asking => replica[w].stage \in Asking,
         stage \in Answering => replica[w].stage \in Answering
  PROVE  AloneKept(w)
<1>1. SameWork(w) /\ replica'[w].stage = stage
  BY GoesOn DEF Keeps, SameWork, TInv
<1> QED
  BY <1>1, StageAlone

LEMMA QueueAlone ==
  ASSUME TInv, SInv, TasksGrow, NEW w \in Replicas, Alone(w),
         Claim(w) \/ CompleteTask(w) \/ FailTask(w) \/ FailJob(w) \/ Crash(w) \/ Throws(w)
  PROVE  AloneKept(w)
<1>1. \A r : replica' = [replica EXCEPT ![w] = r] => replica'[w] = r
  BY DEF TInv, WorkersFit
<1>2. "IDLE" \notin Underway /\ "CLAIMED" \notin Underway /\ "THROWN" \notin Underway
  BY DEF Underway, Stages
<1>3. CASE Claim(w)
  <2>1. PICK t \in Tasks :
          /\ replica' = [replica EXCEPT ![w] = [IdleReplica EXCEPT
                           !.stage = "CLAIMED", !.task = t, !.claim = task[t].attempts + 1]]
          /\ UNCHANGED job
    BY <1>3 DEF Claim
  <2>2. replica'[w].stage = "CLAIMED"
    BY <1>1, <2>1 DEF IdleReplica
  <2> QED
    BY <1>2, <2>1, <2>2, SameJobs, RestAlone
<1>4. ASSUME replica' = [replica EXCEPT ![w] = IdleReplica] PROVE replica'[w].stage \notin Underway
  <2>1. replica'[w].stage = "IDLE"
    BY <1>1, <1>4 DEF IdleReplica
  <2> QED
    BY <1>2, <2>1
<1>5. CASE CompleteTask(w) \/ Crash(w)
  BY <1>4, <1>5, SameJobs, RestAlone DEF CompleteTask, Crash
<1>6. CASE Throws(w)
  <2>1. replica[w].stage # "IDLE" /\ Goto(w, "THROWN") /\ UNCHANGED job
    BY <1>6 DEF Throws, Stages
  <2>2. replica'[w].stage = "THROWN"
    BY <2>1, GoesOn DEF TInv, Stages
  <2> QED
    BY <1>2, <2>1, <2>2, SameJobs, RestAlone
<1>7. CASE FailTask(w)
  <2>1. replica[w].stage \in {"REFUSED", "THROWN"} /\ UNCHANGED <<job, synthesis>>
    BY <1>7 DEF FailTask
  <2>2. CASE replica' = [replica EXCEPT ![w] = IdleReplica]
    BY <1>4, <2>1, <2>2, SameJobs, RestAlone
  <2>3. CASE Scope[replica[w].task] = "job" /\ Goto(w, "GIVE_UP")
    <3>1. "GIVE_UP" \in Stages \ (Asking \cup Answering)
      BY DEF Stages, Asking, Answering
    <3> QED
      BY <2>1, <2>3, <3>1, GoesAlone
  <2> QED
    BY <1>7, <2>2, <2>3 DEF FailTask
<1>8. CASE FailJob(w)
  <2>1. /\ replica[w].stage \in Underway
        /\ job' = [job EXCEPT ![JobOf[replica[w].task]] = "FAILED_FINAL"]
    BY <1>8 DEF FailJob, At, Underway, Stages
  <2>2. replica'[w].stage \notin Underway
    BY <1>4, <1>8 DEF FailJob
  <2>3. OwnJobsStay
    BY <2>1, OpenJob
  <2> QED
    BY <2>2, <2>3, RestAlone
<1> QED
  BY <1>3, <1>5, <1>6, <1>7, <1>8

LEMMA PlanningAlone ==
  ASSUME TInv, TasksGrow, NEW w \in Replicas, Alone(w),
         CheckFinished(w) \/ Decide(w) \/ PlanMade(w) \/ AnswerInChat(w)
  PROVE  AloneKept(w)
<1>1. CASE CheckFinished(w)
  <2> DEFINE stage == IF Finished(replica[w].task) THEN "FINISH" ELSE "PLAN"
  <2>1. replica[w].stage = "CLAIMED" /\ Goto(w, stage) /\ UNCHANGED <<job, synthesis>>
    BY <1>1 DEF CheckFinished, At
  <2>2. /\ stage \in {"FINISH", "PLAN"}
        /\ stage = "PLAN" => (Scope[replica[w].task] # "job" => job[replica[w].task] # "COMPLETED")
    BY DEF Finished
  <2> HIDE DEF stage
  <2>3. /\ stage \in Underway => stage = "PLAN"
        /\ stage \in Stages /\ stage \notin Asking \cup Answering
    BY <2>2 DEF Underway, Stages, Asking, Answering
  <2> QED
    BY <2>1, <2>2, <2>3, GoesAlone
<1>2. CASE Decide(w) \/ PlanMade(w) \/ AnswerInChat(w)
  <2>1. PICK stage \in {"ROUTE", "FINISH", "PLANNING", "REFUSED"} :
          Goto(w, stage) \/ CountCall(w, stage)
    BY <1>2 DEF Decide, PlanMade, AnswerInChat
  <2>2. /\ replica[w].stage \in Underway /\ replica[w].stage # "IDLE" /\ UNCHANGED <<job, synthesis>>
    BY <1>2 DEF Decide, PlanMade, AnswerInChat, At, Underway, Stages
  <2>3. stage \in Stages /\ stage \notin Asking \cup Answering
    BY DEF Stages, Asking, Answering
  <2> QED
    BY <2>1, <2>2, <2>3, GoesAlone
<1> QED
  BY <1>1, <1>2

LEMMA TeamAlone ==
  ASSUME TInv, SInv, TasksGrow, NEW w \in Replicas, Alone(w),
         \/ CreateJob(w) \/ StartResearch(w) \/ PassSpecialist(w) \/ StartSpecialist(w)
         \/ SpecialistAnswers(w) \/ CountSpecialist(w) \/ SpecialistReports(w)
         \/ SpecialistFails(w) \/ TeamDone(w)
  PROVE  AloneKept(w)
<1> DEFINE t == replica[w].task
           Quiet == {"RESEARCH", "TEAM", "LEAD", "REFUSED", "THROWN"} \cup Specialist
<1>1. replica[w].stage \in {"ROUTE", "RESEARCH", "TEAM"} \cup Specialist
  BY DEF CreateJob, StartResearch, PassSpecialist, StartSpecialist, SpecialistAnswers,
         CountSpecialist, SpecialistReports, SpecialistFails, TeamDone, At, Specialist
<1>2. replica[w].stage \in Underway /\ replica[w] \in Busy /\ t \in Tasks
  BY <1>1, BusyWorker DEF Underway, Stages, Specialist, TInv
<1>3. \/ UNCHANGED job
      \/ \E status \in {"RUNNING", "FAILED_FINAL"} : job' = [job EXCEPT ![JobOf[t]] = status]
  <2>1. CASE CreateJob(w)
    <3>1. \/ UNCHANGED job
          \/ Scope[t] # "job" /\ job' = [job EXCEPT ![t] = "RUNNING"]
      BY <2>1 DEF CreateJob
    <3> QED
      BY <1>2, <3>1, JobOfAssumption
  <2> QED
    BY <2>1 DEF StartResearch, PassSpecialist, StartSpecialist, SpecialistAnswers,
                CountSpecialist, SpecialistReports, SpecialistFails, TeamDone
<1>4. replica'[w].task = t /\ replica'[w].stage \in Quiet
  <2>1. CASE \E stage \in Quiet : Goto(w, stage) \/ CountCall(w, stage)
    <3>1. Quiet \subseteq Stages /\ replica[w].stage # "IDLE"
      BY <1>1 DEF Stages, Specialist
    <3> QED
      BY <2>1, <3>1, GoesOn DEF TInv, Keeps
  <2>2. CASE NextStep(w)
    <3>1. replica'[w] = [replica[w] EXCEPT !.stage = "TEAM", !.next = @ + 1]
      BY <2>2 DEF NextStep, TInv, WorkersFit
    <3> QED
      BY <1>2, <3>1 DEF Busy
  <2>3. CASE CreateJob(w)
    <3>1. PICK size : replica'[w] = [replica[w] EXCEPT !.stage = "RESEARCH", !.size = size]
      BY <2>3 DEF CreateJob, TInv, WorkersFit
    <3> QED
      BY <1>2, <3>1 DEF Busy
  <2>4. CASE StartResearch(w) /\ CallsLeft(t)
    <3>1. PICK stage \in {"TEAM", "LEAD"} :
            replica'[w] = [replica[w] EXCEPT !.stage = stage, !.next = 1, !.allowed = Allowed(t)]
      BY <2>4 DEF StartResearch, TInv, WorkersFit
    <3> QED
      BY <1>2, <3>1 DEF Busy
  <2>5. CASE StartResearch(w) /\ ~CallsLeft(t)
    BY <2>1, <2>5 DEF StartResearch
  <2>6. CASE \/ PassSpecialist(w) \/ SpecialistReports(w) \/ SpecialistFails(w)
    BY <2>2, <2>6 DEF PassSpecialist, SpecialistReports, SpecialistFails
  <2>7. CASE StartSpecialist(w) \/ SpecialistAnswers(w) \/ CountSpecialist(w) \/ TeamDone(w)
    BY <2>1, <2>7 DEF StartSpecialist, SpecialistAnswers, CountSpecialist, TeamDone, Specialist
  <2> QED
    BY <2>3, <2>4, <2>5, <2>6, <2>7
<1>5. HoldsCheckpoint(w)' /\ replica'[w].stage # "PUBLISHED"
  BY <1>4 DEF HoldsCheckpoint, Asking, Answering, Specialist
<1> HIDE DEF t
<1> QED
  BY <1>2, <1>3, <1>4, <1>5, RunsAlone DEF t

\* The lead: its saved answer is taken, or it is asked and its answer saved.
LEMMA LeadAlone ==
  ASSUME TInv, SInv, TasksGrow, NEW w \in Replicas, Alone(w),
         StartSynthesis(w) \/ Synthesised(w) \/ CountSynthesis(w) \/ SaveSynthesis(w)
  PROVE  AloneKept(w)
<1> DEFINE t == replica[w].task
           r == replica'[w]
<1>1. /\ replica[w].stage \in {"LEAD", "SYNTHESIS", "SYNTHESISED", "RECORDED"}
      /\ replica[w].stage \in Underway /\ replica[w].stage # "IDLE"
  BY DEF StartSynthesis, Synthesised, CountSynthesis, SaveSynthesis, At, Underway, Stages
<1>2. replica[w] \in Busy /\ t \in Tasks
  BY <1>1, BusyWorker DEF TInv
<1>3. HoldsCheckpoint(w) /\ OwnJobIsOpen(w) /\ UNCHANGED job
  BY DEF Alone, StartSynthesis, Synthesised, CountSynthesis, SaveSynthesis
<1>4. Checkpointed(t) <=> synthesis[t] # 0
  BY <1>2 DEF TInv, SavedTogether, Checkpointed
<1>5. ASSUME NEW stage \in {"SYNTHESIS", "SYNTHESISED", "RECORDED", "THROWN", "PUBLISH"},
             Goto(w, stage) \/ CountCall(w, stage)
      PROVE  r.stage = stage /\ r.task = t /\ r.size = replica[w].size /\ r.answer = replica[w].answer
  BY <1>1, <1>5, GoesOn DEF TInv, Keeps, Stages
<1>6. CASE StartSynthesis(w) /\ replica[w].size > 0 /\ Checkpointed(t)
  <2>1. r = [replica[w] EXCEPT !.stage = "PUBLISH", !.answer = synthesis[t]] /\ UNCHANGED synthesis
    BY <1>6 DEF StartSynthesis, TInv, WorkersFit
  <2>2. r.task = t /\ r.stage = "PUBLISH" /\ r.answer = synthesis[t]
    BY <1>2, <2>1 DEF Busy
  <2>3. HoldsCheckpoint(w)'
    BY <2>1, <2>2 DEF HoldsCheckpoint, Asking
  <2> QED
    BY <1>1, <1>3, <2>2, <2>3, RunsAlone
<1>7. CASE StartSynthesis(w) /\ ~(replica[w].size > 0 /\ Checkpointed(t))
  <2>1. \E stage \in {"SYNTHESIS", "THROWN"} : Goto(w, stage)
    BY <1>7 DEF StartSynthesis
  <2>2. /\ r.stage \in {"SYNTHESIS", "THROWN"} /\ r.task = t /\ r.size = replica[w].size
        /\ UNCHANGED synthesis
    BY <1>5, <1>7, <2>1 DEF StartSynthesis
  <2>3. HoldsCheckpoint(w)'
    BY <1>4, <1>7, <2>2 DEF HoldsCheckpoint, Answering
  <2> QED
    BY <1>1, <1>3, <2>2, <2>3, RunsAlone
<1>8. CASE Synthesised(w) \/ CountSynthesis(w)
  <2>1. /\ r.stage \in {"SYNTHESISED", "RECORDED", "THROWN"} /\ r.task = t
        /\ r.size = replica[w].size
    <3>1. CASE Synthesised(w) /\ HoldsLease(w)
      <4>1. r = [replica[w] EXCEPT !.stage = "SYNTHESISED", !.answer = replica[w].claim]
        BY <3>1 DEF Synthesised, TInv, WorkersFit
      <4> QED
        BY <1>2, <4>1 DEF Busy
    <3>2. CASE Goto(w, "THROWN") \/ CountCall(w, "RECORDED")
      BY <1>5, <3>2
    <3> QED
      BY <1>8, <3>1, <3>2 DEF Synthesised, CountSynthesis
  <2>2. replica[w].stage \in Asking /\ UNCHANGED synthesis
    BY <1>8 DEF Synthesised, CountSynthesis, At, Asking
  <2>3. HoldsCheckpoint(w)'
    BY <1>3, <2>1, <2>2 DEF HoldsCheckpoint, Answering
  <2> QED
    BY <1>1, <1>3, <2>1, <2>3, RunsAlone
<1>9. CASE SaveSynthesis(w)
  <2>1. r.stage = "PUBLISH" /\ r.task = t /\ r.size = replica[w].size /\ r.answer = replica[w].answer
    BY <1>5, <1>9 DEF SaveSynthesis
  <2>2. HoldsCheckpoint(w)'
    <3>1. CASE replica[w].size > 0
      <4>1. synthesis[t] = 0 /\ ~Checkpointed(t)
        BY <1>3, <1>4, <1>9, <3>1 DEF HoldsCheckpoint, SaveSynthesis, At, Asking
      <4>2. synthesis' = [synthesis EXCEPT ![t] = replica[w].answer]
        BY <1>9, <3>1, <4>1 DEF SaveSynthesis, Checkpointed
      <4>3. synthesis'[t] = replica[w].answer
        BY <1>2, <4>2 DEF TInv, RowTypes
      <4> QED
        BY <2>1, <4>3 DEF HoldsCheckpoint, Asking
    <3>2. CASE ~(replica[w].size > 0)
      BY <2>1, <3>2 DEF HoldsCheckpoint
    <3> QED
      BY <3>1, <3>2
  <2> QED
    BY <1>1, <1>3, <2>1, <2>2, RunsAlone
<1> QED
  BY <1>6, <1>7, <1>8, <1>9

LEMMA ReportAlone ==
  ASSUME TInv, SInv, TasksGrow, NEW w \in Replicas, Alone(w),
         CorrectCoverage(w) \/ CoverageCorrected(w) \/ Publish(w) \/ CompleteJob(w)
  PROVE  AloneKept(w)
<1> DEFINE t == replica[w].task
           r == replica'[w]
<1>1. /\ replica[w].stage \in Answering \cup {"PUBLISHED"} /\ replica[w].stage # "IDLE"
      /\ replica[w].stage \in Underway
  BY DEF CorrectCoverage, CoverageCorrected, Publish, CompleteJob, At, Underway, Answering, Stages
<1>2. replica[w] \in Busy /\ t \in Tasks
  BY <1>1, BusyWorker DEF TInv
<1>3. HoldsCheckpoint(w) /\ OwnJobIsOpen(w) /\ UNCHANGED synthesis
  BY DEF Alone, CorrectCoverage, CoverageCorrected, Publish, CompleteJob
<1>4. ASSUME NEW stage \in {"CORRECTING", "COVERED", "PUBLISHED", "FINISH"},
             Goto(w, stage) \/ CountCall(w, stage)
      PROVE  r.stage = stage /\ r.task = t /\ r.size = replica[w].size /\ r.answer = replica[w].answer
  BY <1>1, <1>4, GoesOn DEF TInv, Keeps, Stages
<1>5. CASE CorrectCoverage(w) \/ CoverageCorrected(w)
  <2>1. \E stage \in {"CORRECTING", "COVERED"} : Goto(w, stage) \/ CountCall(w, stage)
    BY <1>5 DEF CorrectCoverage, CoverageCorrected
  <2>2. /\ r.stage \in {"CORRECTING", "COVERED"} /\ r.task = t /\ r.size = replica[w].size
        /\ r.answer = replica[w].answer
    BY <1>4, <2>1
  <2>3. replica[w].stage \in Answering
    BY <1>5 DEF CorrectCoverage, CoverageCorrected, At, Answering
  <2>4. HoldsCheckpoint(w)'
    BY <1>3, <2>2, <2>3 DEF HoldsCheckpoint, Asking
  <2>5. UNCHANGED job \/ \E status \in {"RUNNING", "FAILED_FINAL"} : job' = [job EXCEPT ![JobOf[t]] = status]
    BY <1>5 DEF CorrectCoverage, CoverageCorrected
  <2> QED
    BY <1>1, <2>2, <2>4, <2>5, RunsAlone
<1>6. CASE Publish(w)
  <2>1. r.stage = "PUBLISHED" /\ r.task = t
    BY <1>4, <1>6 DEF Publish
  <2>2. replica[w].stage \in Answering /\ UNCHANGED job
    BY <1>6 DEF Publish, At, Answering
  <2>3. report'[t] = replica[w].answer
    BY <1>2, <1>6 DEF Publish, TInv, RowTypes
  <2>4. HoldsCheckpoint(w)'
    BY <2>1 DEF HoldsCheckpoint, Asking, Answering
  <2>5. Reports(w)
    BY <1>3, <2>2, <2>3 DEF Reports, HoldsCheckpoint
  <2>6. OwnJobIsOpen(w)'
    BY <1>1, <1>2, <1>3, <2>1, <2>2, SharedStays DEF OwnJobIsOpen
  <2> QED
    BY <2>2, <2>4, <2>5, <2>6, SameJobs DEF AloneKept
<1>7. CASE CompleteJob(w)
  <2>1. r.stage = "FINISH"
    BY <1>4, <1>7 DEF CompleteJob
  <2>2. OwnJobsStay
    BY <1>1, <1>7, OpenJob DEF CompleteJob
  <2>3. r.stage \notin Underway
    BY <2>1 DEF Underway
  <2> QED
    BY <2>2, <2>3, RestAlone
<1> QED
  BY <1>5, <1>6, <1>7

\* A worker's step leaves the other workers alone, their saved answers, and
\* every job but the one it works for.
OthersStay(w) ==
    /\ \A v \in Replicas \ {w} : replica'[v] = replica[v]
    /\ \A t \in Tasks \ {replica[w].task} : synthesis'[t] = synthesis[t]
    /\ \/ UNCHANGED job
       \/ /\ replica[w].stage # "IDLE"
          /\ \A t \in Tasks \ {JobOf[replica[w].task]} : job'[t] = job[t]

LEMMA WorkerAlone ==
  ASSUME TInv, NEW w \in Replicas, Claim(w) \/ Works(w) \/ Throws(w) \/ Crash(w)
  PROVE  OthersStay(w)
<1> DEFINE t == replica[w].task
<1>1. \E r : replica' = [replica EXCEPT ![w] = r]
  BY DEF Works, Claim, Throws, Crash, CheckFinished, Decide, PlanMade, CreateJob, AnswerInChat,
     StartResearch, PassSpecialist, StartSpecialist, SpecialistAnswers, CountSpecialist,
     SpecialistReports, SpecialistFails, TeamDone, StartSynthesis, Synthesised, CountSynthesis,
     SaveSynthesis, CorrectCoverage, CoverageCorrected, Publish, CompleteJob, CompleteTask,
     FailTask, FailJob, Goto, NextStep, CountCall
<1>2. \/ UNCHANGED job
      \/ Scope[t] # "job" /\ replica[w].stage # "IDLE" /\ job' = [job EXCEPT ![t] = "RUNNING"]
      \/ replica[w].stage # "IDLE" /\ \E status : job' = [job EXCEPT ![JobOf[t]] = status]
  BY DEF Works, Claim, Throws, Crash, CheckFinished, Decide, PlanMade, CreateJob, AnswerInChat,
     StartResearch, PassSpecialist, StartSpecialist, SpecialistAnswers, CountSpecialist,
     SpecialistReports, SpecialistFails, TeamDone, StartSynthesis, Synthesised, CountSynthesis,
     SaveSynthesis, CorrectCoverage, CoverageCorrected, Publish, CompleteJob, CompleteTask,
     FailTask, FailJob, At
<1>3. synthesis' = synthesis \/ \E answer : synthesis' = [synthesis EXCEPT ![t] = answer]
  BY DEF Works, Claim, Throws, Crash, CheckFinished, Decide, PlanMade, CreateJob, AnswerInChat,
     StartResearch, PassSpecialist, StartSpecialist, SpecialistAnswers, CountSpecialist,
     SpecialistReports, SpecialistFails, TeamDone, StartSynthesis, Synthesised, CountSynthesis,
     SaveSynthesis, CorrectCoverage, CoverageCorrected, Publish, CompleteJob, CompleteTask,
     FailTask, FailJob
<1>4. \A v \in Replicas \ {w} : replica'[v] = replica[v]
  BY <1>1 DEF TInv, WorkersFit
<1>5. \A s \in Tasks \ {t} : synthesis'[s] = synthesis[s]
  BY <1>3 DEF TInv, RowTypes
<1>6. replica[w].stage # "IDLE" => t \in Tasks /\ (Scope[t] # "job" => JobOf[t] = t)
  BY BusyWorker, JobOfAssumption DEF TInv
<1>7. \/ UNCHANGED job
      \/ replica[w].stage # "IDLE" /\ \A s \in Tasks \ {JobOf[t]} : job'[s] = job[s]
  BY <1>2, <1>6 DEF TInv, RowTypes
<1> QED
  BY <1>4, <1>5, <1>7 DEF OthersStay

LEMMA OtherAlone ==
  ASSUME Apart, TInv, SInv, TasksGrow, NEW w \in Replicas, OthersStay(w), AloneInv,
         NEW v \in Replicas \ {w}
  PROVE  Alone(v)' /\ Reports(v)
<1> DEFINE t == replica[v].task
<1>1. replica'[v] = replica[v]
  BY DEF OthersStay
<1>2. Reports(v)
  BY <1>1 DEF Reports, At
<1>3. CASE replica[v].stage = "IDLE"
  BY <1>1, <1>2, <1>3 DEF Alone, HoldsCheckpoint, OwnJobIsOpen, Underway, Asking, Answering, Stages
<1>4. CASE replica[v].stage # "IDLE"
  <2>1. t \in Tasks \ {replica[w].task}
    BY <1>4, BusyWorker DEF Apart, TInv
  <2>2. HoldsCheckpoint(v) /\ OwnJobIsOpen(v)
    BY DEF AloneInv, Alone
  <2>3. HoldsCheckpoint(v)'
    BY <1>1, <2>1, <2>2 DEF OthersStay, HoldsCheckpoint
  <2>4. ASSUME Unshared(t) PROVE job'[t] = job[t]
    <3>1. ASSUME replica[w].stage # "IDLE" PROVE t # JobOf[replica[w].task]
      <4>1. replica[w].task \in Tasks /\ task[replica[w].task].status # "NONE"
        BY <3>1, BusyWorker DEF TInv, SInv, Spent
      <4> QED
        BY <2>1, <2>4, <4>1 DEF Unshared
    <3> QED
      BY <2>1, <3>1 DEF OthersStay
  <2>5. OwnJobIsOpen(v)'
    BY <1>1, <2>1, <2>2, <2>4, SharedStays DEF OwnJobIsOpen
  <2> QED
    BY <1>2, <2>3, <2>5 DEF Alone
<1> QED
  BY <1>3, <1>4

LEMMA AloneStep ==
  ASSUME Apart, TInv, SInv, AloneInv, [Next]_vars
  PROVE  AloneInv' /\ OwnJobsStay /\ \A w \in Replicas : Reports(w)
<1>1. TasksGrow
  BY Grows
<1>2. ASSUME NEW w \in Replicas, Claim(w) \/ Works(w) \/ Throws(w) \/ Crash(w)
      PROVE  AloneInv' /\ OwnJobsStay /\ \A v \in Replicas : Reports(v)
  <2>1. AloneKept(w)
    <3>1. Alone(w)
      BY DEF AloneInv
    <3> QED
      BY <1>1, <1>2, <3>1, QueueAlone, PlanningAlone, TeamAlone, LeadAlone, ReportAlone DEF Works
  <2>2. OthersStay(w)
    BY <1>2, WorkerAlone
  <2>3. \A v \in Replicas \ {w} : Alone(v)' /\ Reports(v)
    BY <1>1, <2>2, OtherAlone
  <2>4. Alone(w)' /\ OwnJobsStay /\ Reports(w)
    BY <2>1 DEF AloneKept, Alone
  <2> QED
    BY <2>3, <2>4 DEF AloneInv
<1>3. ASSUME UNCHANGED <<synthesis, replica>>, \A t \in Tasks : Scope[t] # "job" => job'[t] = job[t]
      PROVE  AloneInv' /\ OwnJobsStay /\ \A w \in Replicas : Reports(w)
  <2>1. \A w \in Replicas : Reports(w)
    BY <1>3 DEF Reports, At
  <2>2. ASSUME NEW w \in Replicas PROVE Alone(w)'
    <3>1. HoldsCheckpoint(w) /\ OwnJobIsOpen(w)
      BY DEF AloneInv, Alone
    <3>2. HoldsCheckpoint(w)'
      BY <1>3, <3>1 DEF HoldsCheckpoint
    <3>3. replica[w].stage \in Underway => replica[w].task \in Tasks
      BY BusyWorker DEF TInv, Underway, Stages
    <3>4. OwnJobIsOpen(w)'
      BY <1>1, <1>3, <3>1, <3>3, SharedStays DEF OwnJobIsOpen
    <3> QED
      BY <3>2, <3>4 DEF Alone
  <2>3. OwnJobsStay
    BY <1>3 DEF OwnJobsStay
  <2> QED
    BY <2>1, <2>2, <2>3 DEF AloneInv
<1>4. ASSUME NEW t \in Tasks, Ask(t) \/ LeaseLapses(t)
      PROVE  AloneInv' /\ OwnJobsStay /\ \A w \in Replicas : Reports(w)
  <2>1. \A s \in Tasks : Scope[s] # "job" => job'[s] = job[s]
    BY <1>4 DEF Ask, LeaseLapses, TInv, RowTypes
  <2> QED
    BY <1>3, <1>4, <2>1 DEF Ask, LeaseLapses
<1>5. CASE UNCHANGED vars
  BY <1>3, <1>5 DEF vars
<1> QED
  BY <1>2, <1>4, <1>5 DEF Next

\* While workers are apart, what a team reports is the answer its lead saved,
\* however often errors and restarts made the task begin again, and though
\* every claim chose its own team (executeResearch, completedSynthesis).
THEOREM ReportsAreCheckpointed == Spec /\ []Apart => TeamReportsCheckpoint
<1>1. Apart /\ TInv /\ SInv /\ AloneInv /\ [Next]_vars => (TInv /\ SInv /\ AloneInv)'
  BY NextInv, SNext, AloneStep
<1>2. Apart /\ TInv /\ SInv /\ AloneInv /\ [Next]_vars => [\A w \in Replicas : Reports(w)]_vars
  BY AloneStep
<1> QED
  BY InitTInv, InitSInv, InitAlone, <1>1, <1>2, PTL DEF Spec, TeamReportsCheckpoint, Reports

\* While workers are apart, a job that its task created and completed is not
\* opened again by a restart of the task, until more is asked in its chat
\* (processTask).
THEOREM OwnJobsAreDoneOnce == Spec /\ []Apart => OwnJobIsNotRepeated
<1>1. Apart /\ TInv /\ SInv /\ AloneInv /\ [Next]_vars => (TInv /\ SInv /\ AloneInv)'
  BY NextInv, SNext, AloneStep
<1>2. Apart /\ TInv /\ SInv /\ AloneInv /\ [Next]_vars => [OwnJobsStay]_vars
  BY AloneStep
<1> QED
  BY InitTInv, InitSInv, InitAlone, <1>1, <1>2, PTL DEF Spec, OwnJobIsNotRepeated, OwnJobsStay

\* A single worker is apart.
THEOREM SingleWorkerReports ==
  ASSUME \A v, w \in Replicas : v = w
  PROVE  Spec => TeamReportsCheckpoint /\ OwnJobIsNotRepeated
<1>1. Apart
  BY DEF Apart
<1> QED
  BY <1>1, ReportsAreCheckpointed, OwnJobsAreDoneOnce, PTL
=============================================================================
