-------------------------- MODULE IntelligenceTasks --------------------------
(***************************************************************************)
(* The durable queue of intelligence tasks (packages/jobs/src/index.ts)    *)
(* and what a worker does with a claimed task (apps/worker/src/index.ts):  *)
(* plan, create the job, let the supporting workers of the team report,    *)
(* let the lead synthesise, publish the report, complete the job.          *)
(*                                                                         *)
(* Answers are told apart by the claim that produced them: answer k was    *)
(* written by the worker that held claim k, answer 0 is none.              *)
(***************************************************************************)
EXTENDS Naturals, FiniteSets

CONSTANTS
    NumTasks,       \* tasks, in the order of created_at
    Replicas,       \* worker processes
    Scope,          \* "manager", "worker" or "job", by task
    JobOf,          \* the task whose job each task works for
    Specialists,    \* workers the Router may put beside the lead
    MaxAttempts,    \* intelligence_task.max_attempts
    MaxCalls        \* AI_MAX_CALLS_PER_TASK

Tasks == 1 .. NumTasks

ASSUME NumTasksAssumption == NumTasks \in Nat \ {0}
ASSUME ScopeAssumption == Scope \in [Tasks -> {"manager", "worker", "job"}]
\* A task of the scopes "manager" and "worker" has a job of its own; one of
\* scope "job" works for a job a routine brought with it, or for an earlier one.
ASSUME JobOfAssumption ==
    /\ JobOf \in [Tasks -> Tasks]
    /\ \A t \in Tasks : Scope[t] # "job" => JobOf[t] = t
ASSUME MaxAttemptsAssumption == MaxAttempts \in Nat \ {0}
ASSUME MaxCallsAssumption == MaxCalls \in Nat \ {0}

VARIABLES
    task,       \* intelligence_task
    runs,       \* model_run rows of the task
    job,        \* status of the job, by the task that JobOf names
    recorded,   \* supporting workers recorded with the job (job_worker)
    step,       \* job_orchestration_step: 0 the lead synthesis, then the team
    synthesis,  \* result_excerpt of the lead synthesis
    report,     \* content of message msg_job_result_<task id>
    replica     \* what each worker process is doing

vars == <<task, runs, job, recorded, step, synthesis, report, replica>>

\* The Router chooses four supporting workers at most.
Teams == {team \in SUBSET Specialists : Cardinality(team) \in 0 .. 4}
Steps == 0 .. 4
Answers == 0 .. MaxAttempts

IdleReplica == [stage |-> "IDLE", task |-> 0, claim |-> 0, size |-> 0, next |-> 0, allowed |-> 0,
                answer |-> 0, late |-> 0]

Stages == {"CLAIMED", "PLAN", "PLANNING", "ROUTE", "RESEARCH", "TEAM", "SPECIALIST",
           "ANSWERED", "COUNTED", "LEAD", "SYNTHESIS", "SYNTHESISED", "RECORDED", "PUBLISH",
           "CORRECTING", "COVERED", "PUBLISHED", "FINISH", "REFUSED", "THROWN", "GIVE_UP"}

TypeOK ==
    /\ task \in [Tasks -> [status : {"NONE", "queued", "running", "completed", "failed"},
                           attempts : 0 .. MaxAttempts,
                           lease : {"NONE", "HELD", "LAPSED"},
                           plan : {"NONE", "ANSWER", "JOB"}]]
    /\ runs \in [Tasks -> Nat]
    /\ job \in [Tasks -> {"NONE", "RUNNING", "COMPLETED", "FAILED_FINAL"}]
    /\ recorded \in [Tasks -> SUBSET Specialists]
    /\ step \in
         [Tasks -> [Steps -> {"NONE", "pending", "running", "completed", "failed", "skipped"}]]
    /\ synthesis \in [Tasks -> Answers]
    /\ report \in [Tasks -> Answers]
    /\ replica \in
         [Replicas -> [stage : Stages, task : Tasks, claim : 1 .. MaxAttempts,
                       size : 0 .. 4, next : 0 .. 5, allowed : 0 .. 3, answer : Answers,
                       late : Nat] \cup {IdleReplica}]

Init ==
    /\ task = [t \in Tasks |->
                 [status |-> "NONE", attempts |-> 0, lease |-> "NONE", plan |-> "NONE"]]
    /\ runs = [t \in Tasks |-> 0]
    /\ job = [t \in Tasks |-> "NONE"]
    /\ recorded = [t \in Tasks |-> {}]
    /\ step = [t \in Tasks |-> [i \in Steps |-> "NONE"]]
    /\ synthesis = [t \in Tasks |-> 0]
    /\ report = [t \in Tasks |-> 0]
    /\ replica = [w \in Replicas |-> IdleReplica]

-----------------------------------------------------------------------------
(* The queue                                                               *)

\* enqueueIntelligenceTask: a routine creates the job, with a lead and nobody
\* else, before it asks; a request in a job's chat finds the job there.
Ask(t) ==
    /\ task[t].status = "NONE"
    /\ \A s \in Tasks : s < t => task[s].status # "NONE"
    /\ JobOf[t] # t => job[JobOf[t]] # "NONE"
    /\ task' = [task EXCEPT ![t].status = "queued"]
    /\ job' = IF Scope[t] = "job" /\ JobOf[t] = t THEN [job EXCEPT ![t] = "RUNNING"] ELSE job
    /\ UNCHANGED <<runs, recorded, step, synthesis, report, replica>>

\* Slip: a running task is nobody else's business.
ClaimableSlip(t) == task[t].status = "queued" /\ task[t].attempts < MaxAttempts

Claimable(t) ==
    /\ task[t].status = "queued" \/ (task[t].status = "running" /\ task[t].lease = "LAPSED")
    /\ task[t].attempts < MaxAttempts

\* claimNextIntelligenceTask: the oldest claimable task.
Claim(w) ==
    \E t \in Tasks :
        /\ replica[w] = IdleReplica
        /\ Claimable(t)
        /\ \A s \in Tasks : s < t => ~Claimable(s)
        /\ task' = [task EXCEPT ![t].status = "running", ![t].attempts = @ + 1, ![t].lease = "HELD"]
        /\ replica' = [replica EXCEPT ![w] = [IdleReplica EXCEPT
                         !.stage = "CLAIMED", !.task = t, !.claim = task[t].attempts + 1]]
        /\ UNCHANGED <<runs, job, recorded, step, synthesis, report>>

\* Three minutes without a renewal: the worker hangs, lost the database or is
\* gone.  While it renews in time nothing changes.
LeaseLapses(t) ==
    /\ task[t].lease = "HELD"
    /\ task' = [task EXCEPT ![t].lease = "LAPSED"]
    /\ UNCHANGED <<runs, job, recorded, step, synthesis, report, replica>>

\* Slip: the claim is not compared.
HoldsLeaseSlip(w) == task[replica[w].task].status = "running" /\ task[replica[w].task].lease = "HELD"

\* assertTaskLease by renewIntelligenceTaskLease, fenced by the claim.
HoldsLease(w) ==
    LET t == replica[w].task IN
    task[t].status = "running" /\ task[t].lease = "HELD" /\ task[t].attempts = replica[w].claim

-----------------------------------------------------------------------------
(* processTask up to the job                                               *)

At(w, stage) == replica[w].stage = stage

Goto(w, stage) == replica' = [replica EXCEPT ![w].stage = stage]

CallsLeft(t) == runs[t] < MaxCalls

\* The task has been claimed again since this worker claimed it.
Superseded(w) == task[replica[w].task].attempts # replica[w].claim

\* recordCompletedRun counts a call of the model by the task's id alone.
CountCall(w, stage) ==
    /\ runs' = [runs EXCEPT ![replica[w].task] = @ + 1]
    /\ replica' = [replica EXCEPT ![w].stage = stage,
                                  ![w].late = IF Superseded(w) THEN @ + 1 ELSE @]

\* Slip: the job recorded with the task is looked up, which a chat has not.
FinishedSlip(t) == Scope[t] = "job" /\ job[t] = "COMPLETED"

\* The job looked up is job_<task id>, which only tasks without a job create.
Finished(t) == Scope[t] # "job" /\ job[t] = "COMPLETED"

CheckFinished(w) ==
    /\ At(w, "CLAIMED")
    /\ Goto(w, IF Finished(replica[w].task) THEN "FINISH" ELSE "PLAN")
    /\ UNCHANGED <<task, runs, job, recorded, step, synthesis, report>>

\* decide: only a manager task asks the model, unless an earlier claim saved
\* its plan.
Decide(w) ==
    LET t == replica[w].task IN
    /\ At(w, "PLAN")
    /\ Goto(w, IF Scope[t] # "manager" \/ task[t].plan = "JOB" THEN "ROUTE"
               ELSE IF task[t].plan = "ANSWER" THEN "FINISH"
               ELSE IF CallsLeft(t) THEN "PLANNING" ELSE "REFUSED")
    /\ UNCHANGED <<task, runs, job, recorded, step, synthesis, report>>

\* The model has answered: a question or an answer for the chat, or a job.
PlanMade(w) ==
    LET t == replica[w].task IN
    /\ At(w, "PLANNING")
    /\ \E plan \in {"ANSWER", "JOB"} :
         /\ task' = IF task[t].status = "running" THEN [task EXCEPT ![t].plan = plan] ELSE task
         /\ CountCall(w, IF plan = "JOB" THEN "ROUTE" ELSE "FINISH")
    /\ UNCHANGED <<job, recorded, step, synthesis, report>>

\* routeTask chooses the team anew on every claim; a job that others brought is
\* done by the team recorded with it or not at all.  createResearchJob leaves an
\* existing job row as it is and records the team beside those already there.
CreateJob(w) ==
    LET t == replica[w].task IN
    /\ At(w, "ROUTE")
    /\ \E team \in Teams :
         /\ IF Scope[t] = "job"
            THEN team = recorded[JobOf[t]] /\ UNCHANGED <<job, recorded>>
            ELSE /\ job' = IF job[t] = "NONE" THEN [job EXCEPT ![t] = "RUNNING"] ELSE job
                 /\ recorded' = [recorded EXCEPT ![t] = @ \cup team]
         /\ replica' = [replica EXCEPT ![w].stage = "RESEARCH", ![w].size = Cardinality(team)]
    /\ UNCHANGED <<task, runs, step, synthesis, report>>

\* A message and nothing else: the request needs a clarification or prepares a
\* financial action, or the Router finds no safe route or not the recorded team.
AnswerInChat(w) ==
    /\ At(w, "PLAN") \/ At(w, "ROUTE")
    /\ Goto(w, "FINISH")
    /\ UNCHANGED <<task, runs, job, recorded, step, synthesis, report>>

-----------------------------------------------------------------------------
(* executeResearch and collectSpecialistResearch                           *)

AtMost(m, n) == IF m < n THEN m ELSE n

\* buildCollaborationPlan: one call is reserved for the lead, three
\* specialists at most.
Allowed(t) == IF CallsLeft(t) THEN AtMost(3, MaxCalls - runs[t] - 1) ELSE 0

\* createJobOrchestrationPlan: a step that is there already stays.
PlannedSteps(t, size) ==
    [i \in Steps |-> IF step[t][i] # "NONE" \/ i > size THEN step[t][i]
                     ELSE IF i > Allowed(t) THEN "skipped" ELSE "pending"]

\* Without supporting workers there is no collaboration and no step.
StartResearch(w) ==
    LET t == replica[w].task  size == replica[w].size IN
    /\ At(w, "RESEARCH")
    /\ IF CallsLeft(t)
       THEN /\ job' = [job EXCEPT ![JobOf[t]] = "RUNNING"]
            /\ step' = IF size > 0 THEN [step EXCEPT ![t] = PlannedSteps(t, size)] ELSE step
            /\ replica' = [replica EXCEPT
                 ![w].stage = IF size > 0 THEN "TEAM" ELSE "LEAD",
                 ![w].next = 1, ![w].allowed = Allowed(t)]
       ELSE Goto(w, "REFUSED") /\ UNCHANGED <<job, step>>
    /\ UNCHANGED <<task, runs, recorded, synthesis, report>>

\* updateJobOrchestrationStep leaves a completed step alone.
WriteStep(t, i, status) ==
    IF step[t][i] = "completed" THEN step ELSE [step EXCEPT ![t][i] = status]

NextStep(w) == replica' = [replica EXCEPT ![w].stage = "TEAM", ![w].next = @ + 1]

Skipped(w) ==
    LET t == replica[w].task  i == replica[w].next IN
    i > replica[w].allowed \/ step[t][i] = "skipped" \/ runs[t] + 1 >= MaxCalls

\* A step that completed, was skipped or failed before is not run again.
PassSpecialist(w) ==
    LET t == replica[w].task  i == replica[w].next IN
    /\ At(w, "TEAM")
    /\ i <= replica[w].size
    /\ step[t][i] \in {"completed", "failed"} \/ Skipped(w)
    /\ step' = IF step[t][i] # "completed" /\ Skipped(w) THEN WriteStep(t, i, "skipped") ELSE step
    /\ NextStep(w)
    /\ UNCHANGED <<task, runs, job, recorded, synthesis, report>>

StartSpecialist(w) ==
    LET t == replica[w].task  i == replica[w].next IN
    /\ At(w, "TEAM")
    /\ i <= replica[w].size
    /\ step[t][i] \notin {"completed", "failed"} /\ ~Skipped(w)
    /\ step' = WriteStep(t, i, "running")
    /\ Goto(w, IF HoldsLease(w) THEN "SPECIALIST" ELSE "THROWN")
    /\ UNCHANGED <<task, runs, job, recorded, synthesis, report>>

\* The answer is there: the lease is asserted, then the call counted, then the
\* step written, and neither write asks for the lease again.
SpecialistAnswers(w) ==
    /\ At(w, "SPECIALIST")
    /\ Goto(w, IF HoldsLease(w) THEN "ANSWERED" ELSE "THROWN")
    /\ UNCHANGED <<task, runs, job, recorded, step, synthesis, report>>

CountSpecialist(w) ==
    /\ At(w, "ANSWERED")
    /\ CountCall(w, "COUNTED")
    /\ UNCHANGED <<task, job, recorded, step, synthesis, report>>

SpecialistReports(w) ==
    /\ At(w, "COUNTED")
    /\ step' = WriteStep(replica[w].task, replica[w].next, "completed")
    /\ NextStep(w)
    /\ UNCHANGED <<task, runs, job, recorded, synthesis, report>>

\* The worker is no longer eligible, a limit is reached, the call or one of the
\* writes fails.
SpecialistFails(w) ==
    /\ replica[w].stage \in {"SPECIALIST", "ANSWERED", "COUNTED"}
    /\ step' = WriteStep(replica[w].task, replica[w].next, "failed")
    /\ NextStep(w)
    /\ UNCHANGED <<task, runs, job, recorded, synthesis, report>>

TeamDone(w) ==
    LET t == replica[w].task IN
    /\ At(w, "TEAM")
    /\ replica[w].next > replica[w].size
    /\ job' = [job EXCEPT ![JobOf[t]] = "RUNNING"]
    /\ step' = WriteStep(t, 0, "running")
    /\ Goto(w, "LEAD")
    /\ UNCHANGED <<task, runs, recorded, synthesis, report>>

\* Slip: the checkpoint counts once the job is completed.
CheckpointedSlip(t) == step[t][0] = "completed" /\ job[t] = "COMPLETED"

Checkpointed(t) == step[t][0] = "completed"

\* A team's lead is not asked again if its answer of an earlier claim is saved.
StartSynthesis(w) ==
    LET t == replica[w].task IN
    /\ At(w, "LEAD")
    /\ IF replica[w].size > 0 /\ Checkpointed(t)
       THEN replica' = [replica EXCEPT ![w].stage = "PUBLISH", ![w].answer = synthesis[t]]
       ELSE Goto(w, IF HoldsLease(w) THEN "SYNTHESIS" ELSE "THROWN")
    /\ UNCHANGED <<task, runs, job, recorded, step, synthesis, report>>

Synthesised(w) ==
    /\ At(w, "SYNTHESIS")
    /\ IF HoldsLease(w)
       THEN replica' = [replica EXCEPT ![w].stage = "SYNTHESISED", ![w].answer = replica[w].claim]
       ELSE Goto(w, "THROWN")
    /\ UNCHANGED <<task, runs, job, recorded, step, synthesis, report>>

CountSynthesis(w) ==
    /\ At(w, "SYNTHESISED")
    /\ CountCall(w, "RECORDED")
    /\ UNCHANGED <<task, job, recorded, step, synthesis, report>>

\* The checkpoint of a team's lead; a lead alone leaves none.
SaveSynthesis(w) ==
    LET t == replica[w].task IN
    /\ At(w, "RECORDED")
    /\ IF replica[w].size > 0 /\ step[t][0] # "completed"
       THEN /\ step' = WriteStep(t, 0, "completed")
            /\ synthesis' = [synthesis EXCEPT ![t] = replica[w].answer]
       ELSE UNCHANGED <<step, synthesis>>
    /\ Goto(w, "PUBLISH")
    /\ UNCHANGED <<task, runs, job, recorded, report>>

\* The answer does not cover the request: the model is asked once more, if a
\* call is left, and the answer goes out whatever comes of it.
CorrectCoverage(w) ==
    LET t == replica[w].task IN
    /\ At(w, "PUBLISH")
    /\ job' = [job EXCEPT ![JobOf[t]] = "RUNNING"]
    /\ Goto(w, IF CallsLeft(t) THEN "CORRECTING" ELSE "COVERED")
    /\ UNCHANGED <<task, runs, recorded, step, synthesis, report>>

CoverageCorrected(w) ==
    /\ At(w, "CORRECTING")
    /\ CountCall(w, "COVERED") \/ (Goto(w, "COVERED") /\ UNCHANGED runs)
    /\ UNCHANGED <<task, job, recorded, step, synthesis, report>>

\* upsertMessage replaces an earlier message of the same id.
Publish(w) ==
    LET t == replica[w].task IN
    /\ At(w, "PUBLISH") \/ At(w, "COVERED")
    /\ report' = [report EXCEPT ![t] = replica[w].answer]
    /\ Goto(w, "PUBLISHED")
    /\ UNCHANGED <<task, runs, job, recorded, step, synthesis>>

\* Slip: the job is completed with the answer in hand, the report follows.
CompleteJobSlip(w) ==
    /\ At(w, "PUBLISH")
    /\ job' = [job EXCEPT ![JobOf[replica[w].task]] = "COMPLETED"]
    /\ Goto(w, "COVERED")
    /\ UNCHANGED <<task, runs, recorded, step, synthesis, report>>

CompleteJob(w) ==
    /\ At(w, "PUBLISHED")
    /\ job' = [job EXCEPT ![JobOf[replica[w].task]] = "COMPLETED"]
    /\ Goto(w, "FINISH")
    /\ UNCHANGED <<task, runs, recorded, step, synthesis, report>>

-----------------------------------------------------------------------------
(* The end of a claim                                                      *)

\* completeIntelligenceTask goes by id alone.
CompleteTask(w) ==
    /\ At(w, "FINISH")
    /\ task' = [task EXCEPT ![replica[w].task].status = "completed",
                            ![replica[w].task].lease = "NONE"]
    /\ replica' = [replica EXCEPT ![w] = IdleReplica]
    /\ UNCHANGED <<runs, job, recorded, step, synthesis, report>>

\* A provider, the database or a check refuses.
Throws(w) ==
    /\ replica[w].stage \in Stages \ {"REFUSED", "THROWN", "GIVE_UP"}
    /\ Goto(w, "THROWN")
    /\ UNCHANGED <<task, runs, job, recorded, step, synthesis, report>>

\* failIntelligenceTask goes by id alone; whether the claim was the last one
\* the worker judges by the row it claimed.  A refusal of the update is
\* swallowed.
FailTask(w) ==
    LET t == replica[w].task IN
    /\ replica[w].stage \in {"REFUSED", "THROWN"}
    /\ \/ UNCHANGED task
       \/ task' = [task EXCEPT ![t].lease = "NONE",
                     ![t].status = IF task[t].attempts < MaxAttempts THEN "queued" ELSE "failed"]
    /\ IF replica[w].claim >= MaxAttempts /\ Scope[t] = "job"
       THEN Goto(w, "GIVE_UP")
       ELSE replica' = [replica EXCEPT ![w] = IdleReplica]
    /\ UNCHANGED <<runs, job, recorded, step, synthesis, report>>

FailJob(w) ==
    /\ At(w, "GIVE_UP")
    /\ job' = [job EXCEPT ![JobOf[replica[w].task]] = "FAILED_FINAL"]
    /\ replica' = [replica EXCEPT ![w] = IdleReplica]
    /\ UNCHANGED <<task, runs, recorded, step, synthesis, report>>

\* The process restarts, or the database refuses what ends the claim.
Crash(w) ==
    /\ replica[w] # IdleReplica
    /\ replica' = [replica EXCEPT ![w] = IdleReplica]
    /\ UNCHANGED <<task, runs, job, recorded, step, synthesis, report>>

-----------------------------------------------------------------------------
Works(w) ==
    \/ CheckFinished(w) \/ Decide(w) \/ PlanMade(w) \/ CreateJob(w) \/ AnswerInChat(w)
    \/ StartResearch(w) \/ PassSpecialist(w) \/ StartSpecialist(w) \/ SpecialistAnswers(w)
    \/ CountSpecialist(w) \/ SpecialistReports(w) \/ SpecialistFails(w) \/ TeamDone(w)
    \/ StartSynthesis(w) \/ Synthesised(w) \/ CountSynthesis(w) \/ SaveSynthesis(w)
    \/ CorrectCoverage(w) \/ CoverageCorrected(w) \/ Publish(w) \/ CompleteJob(w) \/ CompleteTask(w)
    \/ FailTask(w) \/ FailJob(w)

Next ==
    \/ \E t \in Tasks : Ask(t) \/ LeaseLapses(t)
    \/ \E w \in Replicas : Claim(w) \/ Works(w) \/ Throws(w) \/ Crash(w)

Spec == Init /\ [][Next]_vars

\* Workers poll and keep working; a lease nobody renews runs out.
Fairness ==
    /\ \A t \in Tasks : WF_vars(LeaseLapses(t))
    /\ \A w \in Replicas : WF_vars(Claim(w)) /\ WF_vars(Works(w))

FairSpec == Spec /\ Fairness

-----------------------------------------------------------------------------
(* Properties                                                              *)

\* A completed job has a report of one of its tasks, also with two workers on
\* one task and one of them long superseded ("Never publish COMPLETED before the
\* durable Job report is committed", executeResearch).
CompletedHasReport ==
    \A j \in Tasks : job[j] = "COMPLETED" => \E t \in Tasks : JobOf[t] = j /\ report[t] # 0

\* "Never overwrite already completed work on a retry": a completed step and
\* the lead's saved answer stay, whoever retries or comes late
\* (createJobOrchestrationPlan, updateJobOrchestrationStep).
CheckpointsStay ==
    [][\A t \in Tasks :
         /\ \A i \in Steps : step[t][i] = "completed" => step'[t][i] = "completed"
         /\ synthesis[t] # 0 => synthesis'[t] = synthesis[t]]_vars

\* A worker whose task has been claimed again spends at most two more calls of
\* the task's budget: the one in flight when it was superseded, or whose lease
\* was asserted just before, and the correction of the coverage
\* (assertTaskLease, recordCompletedRun).
SupersededSpendsLittle == \A w \in Replicas : replica[w].late <= 2

\* docs/MILESTONE-14-INTELLIGENCE-STAGE-3.md:13: no more than
\* AI_MAX_CALLS_PER_TASK completed model invocations per task.
BudgetKept == \A t \in Tasks : runs[t] <= MaxCalls

\* A team reports what its lead checkpointed: a claim that is routed to a team
\* publishes the saved answer, whichever claim, of whichever team, has saved it
\* (executeResearch, completedSynthesis).
TeamReportsCheckpoint ==
    [][\A w \in Replicas :
         LET t == replica[w].task IN
         replica'[w].stage = "PUBLISHED" /\ ~At(w, "PUBLISHED") /\ replica[w].size > 0
            => report'[t] = synthesis[t]]_vars

\* No request has been made in the chat of the job of t.
Unshared(t) == \A s \in Tasks : s # t /\ JobOf[s] = t => task[s].status = "NONE"

\* A job the task itself created is not taken up again once it is completed,
\* though the worker dies before it completes the task, as long as nobody asks
\* for more in its chat (processTask).
OwnJobIsNotRepeated ==
    [][\A t \in Tasks :
         Scope[t] # "job" /\ Unshared(t) /\ job[t] = "COMPLETED" => job'[t] = "COMPLETED"]_vars

\* No task is forgotten while it has claims left, though workers restart in
\* the middle of it and superseded ones fail it (claimNextIntelligenceTask).
EveryTaskEnds ==
    \A t \in Tasks :
        task[t].status = "queued" ~>
            task[t].status \in {"completed", "failed"} \/ task[t].attempts = MaxAttempts

\* docs/MILESTONE-14-INTELLIGENCE-STAGE-3.md:9: a persisted lead synthesis is
\* reused if the worker restarts before publishing the report, so the budget
\* for further calls does not stop it.
SavedSynthesisIsReused ==
    \A w \in Replicas : At(w, "REFUSED") => synthesis[replica[w].task] = 0

\* The same sentence: once a synthesis is persisted nothing else is published.
SavedSynthesisIsPublished ==
    [][\A t \in Tasks :
         report'[t] # report[t] /\ synthesis[t] # 0 => report'[t] = synthesis[t]]_vars

\* processTask: "A crashed worker can be reclaimed after its lease expires."
LapsedIsReclaimed ==
    \A t \in Tasks :
        (task[t].status = "running" /\ task[t].lease = "LAPSED")
            ~> ~(task[t].status = "running" /\ task[t].lease = "LAPSED")
=============================================================================
