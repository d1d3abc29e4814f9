---------------------------- MODULE LeadPipeline ----------------------------
(***************************************************************************)
(* Lead pipelines (lead-intelligence/pipeline) and the background tasks    *)
(* that carry them (platform/background.ts).                               *)
(*                                                                         *)
(* A pipeline run is named by an idempotency key.  With DURABLE_BACKGROUND *)
(* it is executed by a task that a worker claims once and never again;     *)
(* without it the web process executes it in the background, and resumes   *)
(* it when it starts.  One execution passes the stages below with a write  *)
(* to the run between them; what a stage could not do is an error of the   *)
(* run and does not stop it, except for discovery and ingestion.           *)
(***************************************************************************)
EXTENDS Integers, FiniteSets

CONSTANTS
  Pipelines,    \* pipeline runs, by client, source and idempotency key
  Processes,    \* web processes, or workers when the mode is durable
  Leads,        \* the leads a run may find
  MaxErrors,    \* a bound on failing stages and providers
  MaxDeaths     \* a bound on processes that die

VARIABLES
  durable,     \* DURABLE_BACKGROUND_ENABLED of this deployment
  sourceOf,    \* the source of each run: "outscraper" or "real_estate"
  run,         \* the PipelineRun rows
  ingest,      \* the state of the ingestion run a pipeline run owns
  task,        \* the BackgroundTask row of a run
  exec,        \* what each process executes
  disposition, \* LeadOutreachState.disposition
  executions,  \* how often the task of a run has been executed
  errors, deaths

pipelineVars ==
  <<durable, sourceOf, run, ingest, task, exec, disposition, executions, errors, deaths>>
deployment == <<durable, sourceOf>>

Ended == {"completed", "partially_completed", "failed"}
NoPipeline == [status |-> "none", stage |-> "none"]
NoExec == [pc |-> "idle", run |-> "none", found |-> 0, errors |-> 0, seen |-> "none",
           lead |-> "none", fenced |-> FALSE]

PipelineInit ==
  /\ durable \in BOOLEAN
  /\ sourceOf \in [Pipelines -> {"outscraper", "real_estate"}]
  /\ run = [r \in Pipelines |-> NoPipeline]
  /\ ingest = [r \in Pipelines |-> "none"]
  /\ task = [r \in Pipelines |-> "none"]
  /\ exec = [p \in Processes |-> NoExec]
  /\ disposition = [l \in Leads |-> "none"]
  /\ executions = [r \in Pipelines |-> 0]
  /\ errors = 0 /\ deaths = 0

Free(p) == exec[p].pc = "idle"
Executes(p, r) == ~Free(p) /\ exec[p].run = r
At(p, stage) == exec[p].pc = stage
Goto(p, stage) == [exec EXCEPT ![p].pc = stage]
StageOf(p, stage) == [run EXCEPT ![exec[p].run].stage = stage]

-----------------------------------------------------------------------------
(* Enqueueing: the run is upserted, then the task.  The process may die or *)
(* fail in between; whoever repeats the request closes the gap.            *)

Enqueue(r, linked) ==
  /\ run' = [run EXCEPT ![r] = IF @.status = "none" THEN [status |-> "pending", stage |-> "QUEUED"]
                               ELSE @]
  /\ IF durable
       THEN /\ task' = [task EXCEPT ![r] = IF linked /\ @ = "none" THEN "pending" ELSE @]
            /\ UNCHANGED exec
       ELSE /\ UNCHANGED task
            /\ \E p \in Processes :
                 exec' = IF linked /\ Free(p)
                           THEN [exec EXCEPT ![p] = [NoExec EXCEPT !.pc = "start", !.run = r]]
                           ELSE exec
  /\ UNCHANGED <<deployment, ingest, disposition, executions, errors, deaths>>

\* A cron request runs its campaigns in the web process, under the hourly
\* key, whether or not another request already does.
RunScheduled(p, r) ==
  /\ ~durable
  /\ Free(p)
  /\ exec' = [exec EXCEPT ![p] = [NoExec EXCEPT !.pc = "start", !.run = r]]
  /\ UNCHANGED <<deployment, run, ingest, task, disposition, executions, errors, deaths>>

\* Mutant: tasks are only made by the request.
ReconciledNever(r) == FALSE
\* A run without its task gets one, before the worker looks for tasks.
Reconciled(r) == run[r].status = "pending" /\ task[r] = "none"

Reconcile(r) ==
  /\ durable
  /\ Reconciled(r)
  /\ task' = [task EXCEPT ![r] = "pending"]
  /\ UNCHANGED <<deployment, run, ingest, exec, disposition, executions, errors, deaths>>

\* When a web process starts it takes up the runs that are not ended; it
\* knows its own executions (activeRuns), not those of another replica.
Resume(p, r) ==
  /\ ~durable
  /\ Free(p)
  /\ run[r].status \in {"pending", "running"}
  /\ exec' = [exec EXCEPT ![p] = [NoExec EXCEPT !.pc = "start", !.run = r]]
  /\ UNCHANGED <<deployment, run, ingest, task, disposition, executions, errors, deaths>>

(* Tasks: claimed once; an hour later an unfinished one is unknown.        *)

ClaimTask(p, r) ==
  /\ durable
  /\ Free(p)
  /\ task[r] = "pending"
  /\ task' = [task EXCEPT ![r] = "running"]
  /\ executions' = [executions EXCEPT ![r] = @ + 1]
  /\ exec' = [exec EXCEPT ![p] = [NoExec EXCEPT !.pc = "start", !.run = r, !.fenced = TRUE]]
  /\ UNCHANGED <<deployment, run, ingest, disposition, errors, deaths>>

\* Mutant: an expired task is put back, as the jobs of the queue are.
ExpiredRequeued == "pending"
ExpiredStatus == "unknown"

ExpireTask(r) ==
  /\ durable
  /\ task[r] = "running"
  /\ task' = [task EXCEPT ![r] = ExpiredStatus]
  /\ exec' = [p \in Processes |-> IF Executes(p, r) THEN [exec[p] EXCEPT !.fenced = FALSE]
                                  ELSE exec[p]]
  /\ UNCHANGED <<deployment, run, ingest, disposition, executions, errors, deaths>>

\* The answer of the execution counts while the token is still on the row.
SettleTask(p, status) ==
  task' = [task EXCEPT ![exec[p].run] =
             IF durable /\ exec[p].fenced
               THEN IF status = "completed" THEN "completed" ELSE "unknown"
               ELSE @]

-----------------------------------------------------------------------------
(* One execution.                                                          *)

\* A completed run is only reported; any other is started again.
AlreadyDone(r) == run[r].status = "completed"

Start(p) ==
  LET r == exec[p].run IN
  /\ At(p, "start")
  /\ IF AlreadyDone(r)
       THEN /\ SettleTask(p, "completed")
            /\ exec' = [exec EXCEPT ![p] = NoExec]
            /\ UNCHANGED run
       ELSE /\ run' = [run EXCEPT ![r] = [status |-> "running", stage |-> "DISCOVER"]]
            /\ exec' = Goto(p, "DISCOVER")
            /\ UNCHANGED task
  /\ UNCHANGED <<deployment, ingest, disposition, executions, errors, deaths>>

\* A stage that throws ends the pass; its error is counted.
Fail(p) ==
  /\ errors < MaxErrors
  /\ errors' = errors + 1
  /\ exec' = [exec EXCEPT ![p].pc = "finish", ![p].errors = @ + 1]

\* The provider is asked up to three times (retry.ts), then it is an error.
Discover(p) ==
  /\ At(p, "DISCOVER")
  /\ \/ /\ \E n \in 0..1 : exec' = [exec EXCEPT ![p].pc = "INGEST", ![p].found = n]
        /\ run' = StageOf(p, "INGEST")
        /\ UNCHANGED errors
     \/ Fail(p) /\ UNCHANGED run
  /\ UNCHANGED <<deployment, ingest, task, disposition, executions, deaths>>

(* The importer is called with the run's own key.  An import that is there *)
(* is not repeated: when it has not finished, the business importer throws *)
(* and the listing importer reports nothing imported and nothing rejected. *)

BeginIngest(p) ==
  LET r == exec[p].run IN
  /\ At(p, "INGEST")
  /\ CASE ingest[r] = "none" ->
            /\ ingest' = [ingest EXCEPT ![r] = "running"]
            /\ exec' = Goto(p, "importing")
            /\ UNCHANGED <<run, errors>>
       [] ingest[r] = "running" /\ sourceOf[r] = "outscraper" ->
            /\ exec' = [exec EXCEPT ![p].pc = "finish", ![p].errors = @ + 1]
            /\ UNCHANGED <<run, ingest, errors>>
       [] OTHER ->
            /\ exec' = Goto(p, "ENRICH")
            /\ run' = StageOf(p, "ENRICH")
            /\ UNCHANGED <<ingest, errors>>
  /\ UNCHANGED <<deployment, task, disposition, executions, deaths>>

\* Rejected records are an error of the run, which goes on.
EndIngest(p) ==
  /\ At(p, "importing")
  /\ ingest' = [ingest EXCEPT ![exec[p].run] = "finished"]
  /\ run' = StageOf(p, "ENRICH")
  /\ \/ exec' = Goto(p, "ENRICH") /\ UNCHANGED errors
     \/ /\ errors < MaxErrors
        /\ errors' = errors + 1
        /\ exec' = [exec EXCEPT ![p].pc = "ENRICH", ![p].errors = @ + 1]
  /\ UNCHANGED <<deployment, task, disposition, executions, deaths>>

\* Websites, scores and recommendations: what fails is counted per lead.
NextStage == [ENRICH |-> "SCORE", SCORE |-> "RECOMMEND", RECOMMEND |-> "QUEUE_FOR_REVIEW"]

PassStage(p) ==
  /\ exec[p].pc \in DOMAIN NextStage
  /\ run' = StageOf(p, NextStage[exec[p].pc])
  /\ \/ exec' = Goto(p, NextStage[exec[p].pc]) /\ UNCHANGED errors
     \/ /\ errors < MaxErrors
        /\ errors' = errors + 1
        /\ exec' = [exec EXCEPT ![p].pc = NextStage[exec[p].pc], ![p].errors = @ + 1]
  /\ UNCHANGED <<deployment, ingest, task, disposition, executions, deaths>>

(* The leads above the threshold become ready for review, unless a person  *)
(* has dealt with them: a read and then a write.                           *)

Reviewable == {"none", "not_contacted", "ready"}

ReadLead(p, l) ==
  /\ At(p, "QUEUE_FOR_REVIEW")
  /\ exec[p].found > 0
  /\ exec' = [exec EXCEPT ![p].pc = "review", ![p].lead = l, ![p].seen = disposition[l]]
  /\ UNCHANGED <<deployment, run, ingest, task, disposition, executions, errors, deaths>>

QueueLead(p) ==
  /\ At(p, "review")
  /\ disposition' = [disposition EXCEPT ![exec[p].lead] =
                       IF exec[p].seen \in Reviewable THEN "ready" ELSE @]
  /\ exec' = [exec EXCEPT ![p].pc = "finish", ![p].lead = "none", ![p].seen = "none"]
  /\ UNCHANGED <<deployment, run, ingest, task, executions, errors, deaths>>

NothingToReview(p) ==
  /\ At(p, "QUEUE_FOR_REVIEW")
  /\ exec' = Goto(p, "finish")
  /\ UNCHANGED <<deployment, run, ingest, task, disposition, executions, errors, deaths>>

\* The call desk and the lead page decide about a lead meanwhile.
Decide(l) ==
  /\ disposition[l] \in Reviewable
  /\ disposition' = [disposition EXCEPT ![l] = "contacted"]
  /\ UNCHANGED <<deployment, run, ingest, task, exec, executions, errors, deaths>>

ResultStatus(found, errs) ==
  IF found = 0 /\ errs > 0 THEN "failed"
  ELSE IF errs > 0 THEN "partially_completed" ELSE "completed"

Finish(p) ==
  LET status == ResultStatus(exec[p].found, exec[p].errors) IN
  /\ At(p, "finish")
  /\ run' = [run EXCEPT ![exec[p].run] = [status |-> status, stage |-> "none"]]
  /\ SettleTask(p, status)
  /\ exec' = [exec EXCEPT ![p] = NoExec]
  /\ UNCHANGED <<deployment, ingest, disposition, executions, errors, deaths>>

ProcessDies(p) ==
  /\ ~Free(p)
  /\ deaths < MaxDeaths
  /\ deaths' = deaths + 1
  /\ exec' = [exec EXCEPT ![p] = NoExec]
  /\ UNCHANGED <<deployment, run, ingest, task, disposition, executions, errors>>

Step(p) ==
  \/ Start(p) \/ Discover(p) \/ BeginIngest(p) \/ EndIngest(p) \/ PassStage(p)
  \/ (\E l \in Leads : ReadLead(p, l)) \/ QueueLead(p) \/ NothingToReview(p) \/ Finish(p)

PipelineNext ==
  \/ \E r \in Pipelines :
       \/ \E linked \in BOOLEAN : Enqueue(r, linked)
       \/ Reconcile(r) \/ ExpireTask(r)
       \/ \E p \in Processes : RunScheduled(p, r) \/ Resume(p, r) \/ ClaimTask(p, r)
  \/ \E p \in Processes : Step(p) \/ ProcessDies(p)
  \/ \E l \in Leads : Decide(l)

(* The worker polls its lanes for ever (platform/queues.ts), its           *)
(* reconciliation and the expiry of leases with it; an execution goes on   *)
(* unless its process dies.                                                *)
PipelineFairness ==
  \A r \in Pipelines :
    /\ WF_pipelineVars(Reconcile(r))
    /\ WF_pipelineVars(ExpireTask(r))
    /\ WF_pipelineVars(\E p \in Processes : ClaimTask(p, r))
    /\ \A p \in Processes : WF_pipelineVars(exec[p].run = r /\ Step(p))

PipelineSpec == PipelineInit /\ [][PipelineNext]_pipelineVars /\ PipelineFairness

-----------------------------------------------------------------------------
Stages == {"DISCOVER", "INGEST", "ENRICH", "SCORE", "RECOMMEND", "QUEUE_FOR_REVIEW"}
PipelineRows == [status : {"none", "pending", "running"} \union Ended,
                 stage : {"none", "QUEUED"} \union Stages]
ExecRows == [pc : {"idle", "start", "importing", "review", "finish"} \union Stages,
             run : Pipelines \union {"none"}, found : 0..1, errors : Nat,
             seen : Reviewable \union {"contacted"}, lead : Leads \union {"none"},
             fenced : BOOLEAN]
PipelineTypeOK ==
  /\ durable \in BOOLEAN
  /\ sourceOf \in [Pipelines -> {"outscraper", "real_estate"}]
  /\ run \in [Pipelines -> PipelineRows]
  /\ ingest \in [Pipelines -> {"none", "running", "finished"}]
  /\ task \in [Pipelines -> {"none", "pending", "running", "completed", "unknown"}]
  /\ exec \in [Processes -> ExecRows]
  /\ \A p \in Processes : exec[p].pc # "idle" => exec[p].run \in Pipelines
  /\ disposition \in [Leads -> Reviewable \union {"contacted"}]
  /\ executions \in [Pipelines -> Nat] /\ errors \in Nat /\ deaths \in Nat

(* A task is executed at most once, whatever dies, expires or is asked for *)
(* again: its side effects at the providers cannot be repeated             *)
(* (background.ts:133-138).                                                *)
TasksRunOnce == \A r \in Pipelines : executions[r] <= 1

(* A task that says completed belongs to a run that completed and stays    *)
(* so: no late execution of the run turns it into a failure.               *)
CompletedStays ==
  [][\A r \in Pipelines :
       durable /\ run[r].status = "completed" => run'[r].status = "completed"]_pipelineVars

(* In the durable mode every pipeline run that is asked for ends, or its   *)
(* task waits for an operator: no gap between run and task, no death and   *)
(* no expired lease leaves it pending or running with nobody to see it.    *)
Accounted(r) == run[r].status \in Ended \/ task[r] = "unknown"
PipelinesSettle ==
  \A r \in Pipelines : durable /\ run[r].status = "pending" ~> Accounted(r)

(* "The hourly campaign key and ingestion keys make restarts safe": a run  *)
(* that completed has ingested what it discovered.                         *)
CompletedIsIngested ==
  \A r \in Pipelines : run[r].status = "completed" => ingest[r] = "finished"
=============================================================================
