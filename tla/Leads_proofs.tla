----------------------------- MODULE Leads_proofs -----------------------------
(***************************************************************************)
(* Proofs about lead intelligence: a pipeline's task is executed once      *)
(* (LeadPipeline), a lead is handed over as often as it was asked for and  *)
(* texted only with a consent (LeadOutreach), a demo shows what its        *)
(* publisher read (DemoBuilder), an import creates no business that exists *)
(* (LeadIngestion), and a score grows with the activity of the business    *)
(* and is not stale when it is stored (LeadScoring).                       *)
(***************************************************************************)
EXTENDS LeadPipeline, LeadOutreach, DemoBuilder, LeadIngestion, LeadScoring,
        FiniteSetTheorems, WellFoundedInduction, TLAPS

-----------------------------------------------------------------------------
(* Pipelines: types.                                                       *)

LEMMA PipelineTypeInit == PipelineInit => PipelineTypeOK
<1> SUFFICES ASSUME PipelineInit
             PROVE  PipelineTypeOK
  OBVIOUS
<1>1. NoPipeline \in PipelineRows
  BY DEF NoPipeline, PipelineRows
<1>2. NoExec \in ExecRows /\ NoExec.pc = "idle"
  BY DEF NoExec, ExecRows, Reviewable
<1>3. QED
  BY <1>1, <1>2 DEF PipelineInit, PipelineTypeOK, Reviewable

LEMMA PipelineRowTypes ==
  ASSUME PipelineTypeOK
  PROVE  /\ \A p \in Processes : /\ exec[p] \in ExecRows
                                 /\ ~Free(p) => exec[p].run \in Pipelines
                                 /\ \A e \in ExecRows : [exec EXCEPT ![p] = e] \in [Processes -> ExecRows]
         /\ \A r \in Pipelines : /\ run[r] \in PipelineRows
                                 /\ \A q \in PipelineRows : [run EXCEPT ![r] = q] \in [Pipelines -> PipelineRows]
BY DEF PipelineTypeOK, Free

\* A process that is free takes up a run.
Begun(r) ==
  {[NoExec EXCEPT !.pc = "start", !.run = r],
   [NoExec EXCEPT !.pc = "start", !.run = r, !.fenced = TRUE]}
Taken(p, r) ==
  /\ p \in Processes /\ r \in Pipelines /\ Free(p)
  /\ \E e \in Begun(r) : exec' = [exec EXCEPT ![p] = e]

LEMMA TakenTypes ==
  ASSUME PipelineTypeOK, NEW p \in Processes, NEW r \in Pipelines, Taken(p, r)
  PROVE  /\ exec' \in [Processes -> ExecRows]
         /\ \A q \in Processes : exec'[q].pc # "idle" => exec'[q].run \in Pipelines
         /\ exec'[p].pc = "start" /\ exec'[p].run = r
         /\ \A q \in Processes \ {p} : exec'[q] = exec[q]
<1>1. PICK e \in Begun(r) : exec' = [exec EXCEPT ![p] = e]
  BY DEF Taken
<1>2. NoExec \in ExecRows
  BY DEF NoExec, ExecRows, Reviewable
<1>3. e \in ExecRows /\ e.pc = "start" /\ e.run = r
  BY <1>2 DEF Begun, ExecRows
<1>4. exec' \in [Processes -> ExecRows] /\ exec'[p] = e /\ \A q \in Processes \ {p} : exec'[q] = exec[q]
  BY <1>1, <1>3 DEF PipelineTypeOK
<1>5. QED
  BY <1>3, <1>4 DEF PipelineTypeOK

\* An execution goes on with its run, or lets it go.
Goes(p, e) ==
  /\ p \in Processes /\ ~Free(p)
  /\ e \in ExecRows /\ exec' = [exec EXCEPT ![p] = e]
  /\ e.pc # "idle" => e.run = exec[p].run

LEMMA GoesTypes ==
  ASSUME PipelineTypeOK, NEW p \in Processes, NEW e \in ExecRows, Goes(p, e)
  PROVE  /\ exec' \in [Processes -> ExecRows] /\ exec'[p] = e
         /\ \A q \in Processes : exec'[q].pc # "idle" => exec'[q].run \in Pipelines
         /\ \A q \in Processes \ {p} : exec'[q] = exec[q]
<1>1. exec' \in [Processes -> ExecRows] /\ exec'[p] = e /\ \A q \in Processes \ {p} : exec'[q] = exec[q]
  BY DEF PipelineTypeOK, Goes
<1>2. QED
  BY <1>1 DEF PipelineTypeOK, Goes, Free

\* What an operation of an execution does to the row of its process.
LEMMA StepGoes ==
  ASSUME PipelineTypeOK, NEW p \in Processes, Step(p)
  PROVE  /\ \E e \in ExecRows : Goes(p, e)
         /\ durable' = durable /\ sourceOf' = sourceOf /\ executions' = executions /\ deaths' = deaths
         /\ errors' \in Nat /\ disposition' \in [Leads -> Reviewable \union {"contacted"}]
         /\ ingest' \in [Pipelines -> {"none", "running", "finished"}]
<1> DEFINE r == exec[p].run
<1>1. /\ exec[p] \in ExecRows /\ NoExec \in ExecRows /\ NoExec.pc = "idle" /\ ~Free(p)
      /\ r \in Pipelines /\ exec[p].errors + 1 \in Nat
  <2>1. exec[p] \in ExecRows /\ NoExec \in ExecRows /\ NoExec.pc = "idle"
    BY PipelineRowTypes DEF NoExec, ExecRows, Reviewable
  <2>2. ~Free(p)
    <3> SUFFICES ASSUME exec[p].pc = "idle"
                 PROVE  FALSE
      BY DEF Free
    <3>1. ~PassStage(p)
      BY DEF PassStage, NextStage
    <3>2. ~Start(p) /\ ~Discover(p) /\ ~BeginIngest(p) /\ ~EndIngest(p)
      BY DEF Start, Discover, BeginIngest, EndIngest, At
    <3>3. ~QueueLead(p) /\ ~NothingToReview(p) /\ ~Finish(p) /\ \A l \in Leads : ~ReadLead(p, l)
      BY DEF QueueLead, NothingToReview, Finish, ReadLead, At
    <3>4. QED
      BY <3>1, <3>2, <3>3 DEF Step
  <2>3. QED
    BY <2>1, <2>2, PipelineRowTypes DEF ExecRows
<1>2. \A s \in ExecRows : \A pc \in {"start", "importing", "review", "finish"} \union Stages :
        [s EXCEPT !.pc = pc] \in ExecRows /\ [s EXCEPT !.pc = pc].run = s.run
  BY DEF ExecRows
<1> DEFINE To(pc) == [exec[p] EXCEPT !.pc = pc]
           Failed(pc) == [exec[p] EXCEPT !.pc = pc, !.errors = exec[p].errors + 1]
<1>4. ASSUME NEW pc \in {"start", "importing", "review", "finish"} \union Stages, exec' = Goto(p, pc)
      PROVE  Goes(p, To(pc))
  <2>1. exec' = [exec EXCEPT ![p] = To(pc)]
    BY <1>4 DEF Goto, PipelineTypeOK
  <2>2. QED
    BY <1>1, <1>2, <2>1 DEF Goes
<1>5. ASSUME NEW pc \in {"finish"} \union Stages,
             exec' = [exec EXCEPT ![p].pc = pc, ![p].errors = @ + 1]
      PROVE  Goes(p, Failed(pc))
  <2>1. exec' = [exec EXCEPT ![p] = Failed(pc)]
    BY <1>1, <1>5 DEF PipelineTypeOK, ExecRows
  <2>2. Failed(pc) \in ExecRows /\ Failed(pc).run = exec[p].run
    BY <1>1 DEF ExecRows
  <2>3. QED
    BY <1>1, <2>1, <2>2 DEF Goes
<1> HIDE DEF To, Failed
<1>6. ASSUME exec' = [exec EXCEPT ![p] = NoExec]
      PROVE  Goes(p, NoExec)
  BY <1>1, <1>6 DEF Goes
<1>7. CASE Start(p) \/ Finish(p) \/ NothingToReview(p)
  <2>1. exec' = [exec EXCEPT ![p] = NoExec] \/ exec' = Goto(p, "DISCOVER") \/ exec' = Goto(p, "finish")
    BY <1>7 DEF Start, Finish, NothingToReview
  <2>2. \E e \in ExecRows : Goes(p, e)
    <3>1. Goes(p, NoExec) \/ Goes(p, To("DISCOVER")) \/ Goes(p, To("finish"))
      BY <1>4, <1>6, <2>1 DEF Stages
    <3>2. QED
      BY <3>1 DEF Goes
  <2>3. QED
    BY <1>7, <2>2 DEF Start, Finish, NothingToReview, deployment, PipelineTypeOK
<1>8. CASE Discover(p)
  <2>1. ASSUME \E n \in 0..1 : exec' = [exec EXCEPT ![p].pc = "INGEST", ![p].found = n]
        PROVE  \E e \in ExecRows : Goes(p, e)
    <3>1. PICK n \in 0..1 : exec' = [exec EXCEPT ![p].pc = "INGEST", ![p].found = n]
      BY <2>1
    <3> DEFINE e == [exec[p] EXCEPT !.pc = "INGEST", !.found = n]
    <3>2. e \in ExecRows /\ e.run = r
      BY <1>1 DEF ExecRows, Stages
    <3>3. exec' = [exec EXCEPT ![p] = e]
      BY <1>1, <3>1 DEF PipelineTypeOK, ExecRows
    <3>4. Goes(p, e)
      BY <1>1, <3>2, <3>3 DEF Goes
    <3> HIDE DEF e
    <3>5. QED
      BY <3>4 DEF Goes
  <2>2. ASSUME Fail(p)
        PROVE  \E e \in ExecRows : Goes(p, e)
    <3>1. Goes(p, Failed("finish"))
      <4>1. exec' = [exec EXCEPT ![p].pc = "finish", ![p].errors = @ + 1]
        BY <2>2 DEF Fail
      <4>2. QED
        BY <1>5, <4>1
    <3>2. QED
      BY <3>1 DEF Goes
  <2>3. errors' \in Nat
    BY <1>8 DEF Discover, Fail, PipelineTypeOK
  <2>4. \E e \in ExecRows : Goes(p, e)
    BY <1>8, <2>1, <2>2 DEF Discover
  <2>5. QED
    BY <1>8, <2>3, <2>4 DEF Discover, deployment, PipelineTypeOK
<1>9. CASE BeginIngest(p)
  <2>1. /\ \/ exec' = Goto(p, "importing") \/ exec' = Goto(p, "ENRICH")
           \/ exec' = [exec EXCEPT ![p].pc = "finish", ![p].errors = @ + 1]
        /\ ingest' \in {ingest, [ingest EXCEPT ![r] = "running"]} /\ errors' = errors
    BY <1>9 DEF BeginIngest
  <2>2. \E e \in ExecRows : Goes(p, e)
    BY <1>4, <1>5, <2>1 DEF Stages, Goes
  <2>3. QED
    BY <1>1, <1>9, <2>1, <2>2 DEF BeginIngest, deployment, PipelineTypeOK
<1>10. CASE EndIngest(p) \/ PassStage(p)
  <2>1. PICK pc \in Stages : \/ exec' = Goto(p, pc) /\ errors' = errors
                             \/ exec' = [exec EXCEPT ![p].pc = pc, ![p].errors = @ + 1] /\ errors' = errors + 1
    <3>1. \A s \in DOMAIN NextStage : NextStage[s] \in Stages
      BY DEF NextStage, Stages
    <3>2. CASE EndIngest(p)
      BY <3>2 DEF EndIngest, Stages
    <3>3. CASE PassStage(p)
      BY <3>1, <3>3 DEF PassStage
    <3>4. QED
      BY <1>10, <3>2, <3>3
  <2>2. \E e \in ExecRows : Goes(p, e)
    <3>1. Goes(p, To(pc)) \/ Goes(p, Failed(pc))
      <4>1. CASE exec' = Goto(p, pc)
        BY <1>4, <4>1
      <4>2. CASE exec' = [exec EXCEPT ![p].pc = pc, ![p].errors = @ + 1]
        BY <1>5, <4>2
      <4>3. QED
        BY <2>1, <4>1, <4>2
    <3>2. QED
      BY <3>1 DEF Goes
  <2>3. QED
    BY <1>1, <1>10, <2>1, <2>2 DEF EndIngest, PassStage, deployment, PipelineTypeOK
<1>11. CASE (\E l \in Leads : ReadLead(p, l)) \/ QueueLead(p)
  <2>1. ASSUME NEW l \in Leads, ReadLead(p, l)
        PROVE  \E e \in ExecRows : Goes(p, e)
    <3> DEFINE e == [exec[p] EXCEPT !.pc = "review", !.lead = l, !.seen = disposition[l]]
    <3>1. e \in ExecRows /\ e.run = r
      BY <1>1 DEF ExecRows, PipelineTypeOK
    <3>2. exec' = [exec EXCEPT ![p] = e]
      BY <1>1, <2>1 DEF ReadLead, PipelineTypeOK, ExecRows
    <3>3. QED
      BY <1>1, <3>1, <3>2 DEF Goes
  <2>2. ASSUME QueueLead(p)
        PROVE  \E e \in ExecRows : Goes(p, e)
    <3> DEFINE e == [exec[p] EXCEPT !.pc = "finish", !.lead = "none", !.seen = "none"]
    <3>1. e \in ExecRows /\ e.run = r
      BY <1>1 DEF ExecRows, Reviewable
    <3>2. exec' = [exec EXCEPT ![p] = e]
      BY <1>1, <2>2 DEF QueueLead, PipelineTypeOK, ExecRows
    <3>3. QED
      BY <1>1, <3>1, <3>2 DEF Goes
  <2>3. CASE \E l \in Leads : ReadLead(p, l)
    <3>1. \E e \in ExecRows : Goes(p, e)
      BY <2>1, <2>3
    <3>2. UNCHANGED <<deployment, run, ingest, task, disposition, executions, errors, deaths>>
      BY <2>3 DEF ReadLead
    <3>3. QED
      BY <3>1, <3>2 DEF deployment, PipelineTypeOK
  <2>4. CASE QueueLead(p)
    <3>1. disposition' \in [Leads -> Reviewable \union {"contacted"}]
      BY <2>4 DEF QueueLead, PipelineTypeOK, Reviewable
    <3>2. QED
      BY <2>2, <2>4, <3>1 DEF QueueLead, deployment, PipelineTypeOK
  <2>5. QED
    BY <1>11, <2>3, <2>4
<1>12. QED
  BY <1>7, <1>8, <1>9, <1>10, <1>11 DEF Step

\* The stage and the status of a run after an operation of its execution.
LEMMA StepRuns ==
  ASSUME PipelineTypeOK, NEW p \in Processes, Step(p)
  PROVE  LET r == exec[p].run IN
         /\ run' \in [Pipelines -> PipelineRows]
         /\ \A q \in Pipelines \ {r} : run'[q] = run[q] /\ task'[q] = task[q]
         /\ run'[r].status \in Ended => exec'[p] = NoExec \/ run[r].status \in Ended
         /\ task' \in [Pipelines -> {"none", "pending", "running", "completed", "unknown"}]
         /\ task'[r] = task[r] \/ (durable /\ task'[r] \in {"completed", "unknown"})
<1> DEFINE r == exec[p].run
<1>1. r \in Pipelines /\ run[r] \in PipelineRows /\ run \in [Pipelines -> PipelineRows]
  <2>1. ~Free(p)
    BY StepGoes DEF Goes
  <2>2. QED
    BY <2>1, PipelineRowTypes DEF PipelineTypeOK
<1>2. \A s \in Stages : StageOf(p, s) = [run EXCEPT ![r] = [run[r] EXCEPT !.stage = s]]
  BY <1>1 DEF StageOf
<1>3. \A s \in Stages : [run[r] EXCEPT !.stage = s] \in PipelineRows /\
                        [run[r] EXCEPT !.stage = s].status = run[r].status
  BY <1>1 DEF PipelineRows
<1>4. ASSUME NEW s \in Stages, run' = StageOf(p, s)
      PROVE  /\ run' \in [Pipelines -> PipelineRows] /\ run'[r].status = run[r].status
             /\ \A q \in Pipelines \ {r} : run'[q] = run[q]
  <2> DEFINE row == [run[r] EXCEPT !.stage = s]
  <2>1. run' = [run EXCEPT ![r] = row] /\ row \in PipelineRows /\ row.status = run[r].status
    BY <1>2, <1>3, <1>4
  <2> HIDE DEF row
  <2>2. QED
    BY <1>1, <2>1
<1>5. /\ run' \in [Pipelines -> PipelineRows]
      /\ \A q \in Pipelines \ {r} : run'[q] = run[q]
      /\ run'[r].status \in Ended => exec'[p] = NoExec \/ run[r].status \in Ended
  <2>1. CASE Start(p)
    <3>1. run' = run \/ run' = [run EXCEPT ![r] = [status |-> "running", stage |-> "DISCOVER"]]
      BY <2>1 DEF Start
    <3>2. [status |-> "running", stage |-> "DISCOVER"] \in PipelineRows
      BY DEF PipelineRows, Stages
    <3>3. QED
      BY <1>1, <3>1, <3>2 DEF Ended
  <2>2. CASE Finish(p)
    <3>1. exec' = [exec EXCEPT ![p] = NoExec]
      BY <2>2 DEF Finish
    <3>2. PICK status \in Ended : run' = [run EXCEPT ![r] = [status |-> status, stage |-> "none"]]
      BY <2>2 DEF Finish, ResultStatus, Ended
    <3>3. [status |-> status, stage |-> "none"] \in PipelineRows
      BY <3>2 DEF PipelineRows, Stages
    <3>4. QED
      BY <1>1, <3>1, <3>2, <3>3 DEF PipelineTypeOK
  <2>3. CASE run' = run
    BY <1>1, <2>3
  <2>4. CASE \E s \in Stages : run' = StageOf(p, s)
    BY <1>4, <2>4
  <2>5. \A s \in DOMAIN NextStage : NextStage[s] \in Stages
    BY DEF NextStage, Stages
  <2>6. PassStage(p) => \E s \in Stages : run' = StageOf(p, s)
    BY <2>5 DEF PassStage
  <2>7. EndIngest(p) => run' = StageOf(p, "ENRICH")
    BY DEF EndIngest
  <2>8. BeginIngest(p) => run' = StageOf(p, "ENRICH") \/ run' = run
    BY DEF BeginIngest
  <2>9. Discover(p) => run' = StageOf(p, "INGEST") \/ run' = run
    BY DEF Discover
  <2>10. QueueLead(p) \/ NothingToReview(p) \/ (\E l \in Leads : ReadLead(p, l)) => run' = run
    <3>1. QueueLead(p) => run' = run
      BY DEF QueueLead
    <3>2. NothingToReview(p) => run' = run
      BY DEF NothingToReview
    <3>3. \A l \in Leads : ReadLead(p, l) => run' = run
      BY DEF ReadLead
    <3>4. QED
      BY <3>1, <3>2, <3>3
  <2>11. QED
    BY <2>1, <2>2, <2>3, <2>4, <2>6, <2>7, <2>8, <2>9, <2>10 DEF Step, Stages
<1>6. /\ task' \in [Pipelines -> {"none", "pending", "running", "completed", "unknown"}]
      /\ \A q \in Pipelines \ {r} : task'[q] = task[q]
      /\ task'[r] = task[r] \/ (durable /\ task'[r] \in {"completed", "unknown"})
  <2>1. task' = task \/ \E status \in {"completed"} \union Ended : SettleTask(p, status)
    <3>1. Start(p) => task' = task \/ SettleTask(p, "completed")
      BY DEF Start
    <3>2. Finish(p) => \E status \in Ended : SettleTask(p, status)
      BY DEF Finish, ResultStatus, Ended
    <3>3. Discover(p) \/ BeginIngest(p) => task' = task
      BY DEF Discover, BeginIngest
    <3>4. EndIngest(p) \/ PassStage(p) => task' = task
      BY DEF EndIngest, PassStage
    <3>5. QueueLead(p) \/ NothingToReview(p) => task' = task
      BY DEF QueueLead, NothingToReview
    <3>6. \A l \in Leads : ReadLead(p, l) => task' = task
      BY DEF ReadLead
    <3>7. QED
      BY <3>1, <3>2, <3>3, <3>4, <3>5, <3>6 DEF Step
  <2>2. ASSUME NEW status, SettleTask(p, status)
        PROVE  \/ task' = task
               \/ durable /\ \E t \in {"completed", "unknown"} : task' = [task EXCEPT ![r] = t]
    BY <1>1, <2>2 DEF SettleTask, PipelineTypeOK
  <2>3. \/ task' = task
        \/ durable /\ \E t \in {"completed", "unknown"} : task' = [task EXCEPT ![r] = t]
    BY <2>1, <2>2
  <2>4. CASE task' = task
    BY <2>4 DEF PipelineTypeOK
  <2>5. CASE durable /\ \E t \in {"completed", "unknown"} : task' = [task EXCEPT ![r] = t]
    BY <1>1, <2>5 DEF PipelineTypeOK
  <2>6. QED
    BY <2>3, <2>4, <2>5
<1>7. QED
  BY <1>5, <1>6

LEMMA PipelineTypeStep == PipelineTypeOK /\ [PipelineNext]_pipelineVars => PipelineTypeOK'
<1> SUFFICES ASSUME PipelineTypeOK, [PipelineNext]_pipelineVars
             PROVE  PipelineTypeOK'
  OBVIOUS
<1>1. CASE UNCHANGED pipelineVars
  BY <1>1 DEF PipelineTypeOK, pipelineVars
<1>2. ASSUME NEW r \in Pipelines, NEW linked \in BOOLEAN, Enqueue(r, linked)
      PROVE  PipelineTypeOK'
  <2>1. run' \in [Pipelines -> PipelineRows]
    <3>1. [status |-> "pending", stage |-> "QUEUED"] \in PipelineRows /\ run[r] \in PipelineRows
      BY DEF PipelineRows, PipelineTypeOK
    <3>2. PICK q \in PipelineRows : run' = [run EXCEPT ![r] = q]
      BY <1>2, <3>1 DEF Enqueue, PipelineTypeOK
    <3>3. QED
      BY <3>2, PipelineRowTypes
  <2>2. /\ exec' \in [Processes -> ExecRows]
        /\ \A q \in Processes : exec'[q].pc # "idle" => exec'[q].run \in Pipelines
    <3>1. exec' = exec \/ \E p \in Processes : Taken(p, r)
      BY <1>2 DEF Enqueue, Taken, Begun
    <3>2. QED
      BY <3>1, TakenTypes DEF PipelineTypeOK
  <2>3. task' \in [Pipelines -> {"none", "pending", "running", "completed", "unknown"}]
    BY <1>2 DEF Enqueue, PipelineTypeOK
  <2>4. QED
    BY <1>2, <2>1, <2>2, <2>3 DEF Enqueue, deployment, PipelineTypeOK
<1>3. ASSUME NEW p \in Processes, NEW r \in Pipelines, RunScheduled(p, r) \/ Resume(p, r)
      PROVE  PipelineTypeOK'
  <2>1. Taken(p, r)
    BY <1>3 DEF RunScheduled, Resume, Taken, Begun
  <2>2. QED
    BY <1>3, <2>1, TakenTypes DEF RunScheduled, Resume, deployment, PipelineTypeOK
<1>4. ASSUME NEW p \in Processes, NEW r \in Pipelines, ClaimTask(p, r)
      PROVE  PipelineTypeOK'
  <2>1. Taken(p, r)
    BY <1>4 DEF ClaimTask, Taken, Begun
  <2>2. /\ task' \in [Pipelines -> {"none", "pending", "running", "completed", "unknown"}]
        /\ executions' \in [Pipelines -> Nat]
    BY <1>4 DEF ClaimTask, PipelineTypeOK
  <2>3. QED
    BY <1>4, <2>1, <2>2, TakenTypes DEF ClaimTask, deployment, PipelineTypeOK
<1>5. ASSUME NEW r \in Pipelines, Reconcile(r)
      PROVE  PipelineTypeOK'
  BY <1>5 DEF Reconcile, deployment, PipelineTypeOK
<1>6. ASSUME NEW r \in Pipelines, ExpireTask(r)
      PROVE  PipelineTypeOK'
  <2>1. \A e \in ExecRows : /\ [e EXCEPT !.fenced = FALSE] \in ExecRows
                            /\ [e EXCEPT !.fenced = FALSE].pc = e.pc
                            /\ [e EXCEPT !.fenced = FALSE].run = e.run
    BY DEF ExecRows
  <2>2. \A q \in Processes : exec'[q] = exec[q] \/ exec'[q] = [exec[q] EXCEPT !.fenced = FALSE]
    BY <1>6 DEF ExpireTask
  <2>3. exec' \in [Processes -> ExecRows]
    BY <1>6, <2>1 DEF ExpireTask, PipelineTypeOK
  <2>4. \A q \in Processes : exec'[q].pc # "idle" => exec'[q].run \in Pipelines
    <3>1. \A q \in Processes : exec'[q].pc = exec[q].pc /\ exec'[q].run = exec[q].run
      BY <2>1, <2>2, PipelineRowTypes
    <3>2. QED
      BY <3>1 DEF PipelineTypeOK
  <2>5. task' \in [Pipelines -> {"none", "pending", "running", "completed", "unknown"}]
    BY <1>6 DEF ExpireTask, ExpiredStatus, PipelineTypeOK
  <2>6. QED
    BY <1>6, <2>3, <2>4, <2>5 DEF ExpireTask, deployment, PipelineTypeOK
<1>7. ASSUME NEW p \in Processes, Step(p)
      PROVE  PipelineTypeOK'
  BY <1>7, StepGoes, StepRuns, GoesTypes DEF PipelineTypeOK
<1>8. ASSUME NEW p \in Processes, ProcessDies(p)
      PROVE  PipelineTypeOK'
  <2>1. NoExec \in ExecRows /\ NoExec.pc = "idle"
    BY DEF NoExec, ExecRows, Reviewable
  <2>2. QED
    BY <1>8, <2>1 DEF ProcessDies, deployment, PipelineTypeOK
<1>9. ASSUME NEW l \in Leads, Decide(l)
      PROVE  PipelineTypeOK'
  BY <1>9 DEF Decide, deployment, PipelineTypeOK
<1>10. QED
  BY <1>1, <1>2, <1>3, <1>4, <1>5, <1>6, <1>7, <1>8, <1>9 DEF PipelineNext

\* Rows, tasks and executions keep their types.
THEOREM PipelineTypes == PipelineSpec => []PipelineTypeOK
BY PipelineTypeInit, PipelineTypeStep, PTL DEF PipelineSpec

-----------------------------------------------------------------------------
(* Pipelines: the claim of its task is the only thing that executes a run  *)
(* in the durable mode, and a task is never put back.                      *)

Unclaimed == {"none", "pending"}
TasksAreCounted == \A r \in Pipelines : executions[r] = IF task[r] \in Unclaimed THEN 0 ELSE 1
\* A run that no task has executed has no execution and has not ended.
ClaimedOnce ==
  durable => \A r \in Pipelines :
    /\ executions[r] = 0 => run[r].status \notin Ended /\ \A p \in Processes : ~Executes(p, r)
    /\ \A p \in Processes : Executes(p, r) =>
         run[r].status \notin Ended /\ \A q \in Processes : Executes(q, r) => q = p
PipelineInv == PipelineTypeOK /\ TasksAreCounted /\ ClaimedOnce

LEMMA PipelineInvInit == PipelineInit => PipelineInv
<1> SUFFICES ASSUME PipelineInit
             PROVE  PipelineInv
  OBVIOUS
<1>1. \A p \in Processes, r \in Pipelines : ~Executes(p, r)
  BY DEF PipelineInit, Executes, Free, NoExec
<1>2. \A r \in Pipelines : run[r].status = "none" /\ executions[r] = 0 /\ task[r] = "none"
  BY DEF PipelineInit, NoPipeline
<1>3. QED
  BY <1>1, <1>2, PipelineTypeInit DEF PipelineInv, TasksAreCounted, ClaimedOnce, Ended, Unclaimed

\* A step that executes nothing new and ends no run.
LEMMA NothingNew ==
  ASSUME PipelineInv, PipelineTypeOK', durable' = durable, executions' = executions,
         \A r \in Pipelines : task'[r] = task[r] \/ (task[r] \in Unclaimed /\ task'[r] \in Unclaimed)
                              \/ (task[r] \notin Unclaimed /\ task'[r] \notin Unclaimed),
         \A r \in Pipelines : run'[r].status \in Ended => run[r].status \in Ended,
         durable => \A p \in Processes, r \in Pipelines : Executes(p, r)' => Executes(p, r)
  PROVE  PipelineInv'
<1>1. TasksAreCounted'
  BY DEF PipelineInv, TasksAreCounted
<1>2. ClaimedOnce'
  BY DEF PipelineInv, ClaimedOnce
<1>3. QED
  BY <1>1, <1>2 DEF PipelineInv

\* What an execution does to its run, with the others as they were.
LEMMA StepKeepsOnce ==
  ASSUME PipelineInv, PipelineTypeOK', NEW p \in Processes, Step(p)
  PROVE  /\ PipelineInv'
         /\ durable => \A r \in Pipelines : run[r].status \in Ended => run'[r] = run[r]
<1> DEFINE r == exec[p].run
<1>1. PICK e \in ExecRows : Goes(p, e)
  BY StepGoes DEF PipelineInv
<1>2. /\ r \in Pipelines /\ ~Free(p) /\ exec'[p] = e /\ (e.pc # "idle" => e.run = r)
      /\ \A q \in Processes \ {p} : exec'[q] = exec[q]
  BY <1>1, GoesTypes, PipelineRowTypes DEF Goes, PipelineInv
<1>3. /\ executions' = executions /\ durable' = durable
      /\ \A q \in Pipelines \ {r} : run'[q] = run[q] /\ task'[q] = task[q]
      /\ run'[r].status \in Ended => exec'[p] = NoExec \/ run[r].status \in Ended
      /\ task'[r] = task[r] \/ (durable /\ task'[r] \in {"completed", "unknown"})
  BY StepGoes, StepRuns DEF PipelineInv
<1>4. \A q \in Processes, s \in Pipelines : Executes(q, s)' => Executes(q, s)
  BY <1>2 DEF Executes, Free
<1>5. Executes(p, r)
  BY <1>2 DEF Executes
<1>6. durable => executions[r] # 0 /\ run[r].status \notin Ended /\ task[r] \notin Unclaimed
  BY <1>2, <1>5 DEF PipelineInv, ClaimedOnce, TasksAreCounted
<1>7. \A s \in Pipelines : task'[s] = task[s] \/ (task[s] \notin Unclaimed /\ task'[s] \notin Unclaimed)
  BY <1>2, <1>3, <1>6 DEF Unclaimed
<1>8. TasksAreCounted'
  BY <1>3, <1>7 DEF TasksAreCounted, PipelineInv
<1>9. ClaimedOnce'
  <2> SUFFICES ASSUME durable, NEW s \in Pipelines
               PROVE  /\ executions[s] = 0 => run'[s].status \notin Ended /\ \A q \in Processes : ~Executes(q, s)'
                      /\ \A q \in Processes : Executes(q, s)' =>
                           run'[s].status \notin Ended /\ \A o \in Processes : Executes(o, s)' => o = q
    BY <1>3 DEF ClaimedOnce
  <2>1. CASE s # r
    BY <1>3, <1>4, <2>1 DEF PipelineInv, ClaimedOnce
  <2>2. CASE s = r
    <3>1. \A q \in Processes : Executes(q, r) => q = p
      BY <1>2, <1>5 DEF PipelineInv, ClaimedOnce
    <3>2. run'[s].status \in Ended => ~Executes(p, s)'
      BY <1>3, <1>6, <2>2 DEF Executes, Free, NoExec
    <3>3. \A q \in Processes : Executes(q, s)' => q = p
      BY <1>4, <2>2, <3>1
    <3>4. executions[s] # 0
      BY <1>6, <2>2
    <3>5. \A q \in Processes : Executes(q, s)' => run'[s].status \notin Ended
      BY <2>2, <3>2, <3>3
    <3>6. QED
      BY <3>3, <3>4, <3>5
  <2>3. QED
    BY <2>1, <2>2
<1>10. QED
  BY <1>2, <1>3, <1>6, <1>8, <1>9 DEF PipelineInv

LEMMA PipelineInvStep ==
  PipelineInv /\ [PipelineNext]_pipelineVars =>
    /\ PipelineInv'
    /\ durable => \A r \in Pipelines : run[r].status \in Ended => run'[r] = run[r]
<1> DEFINE Goal == /\ PipelineInv'
                   /\ durable => \A r \in Pipelines : run[r].status \in Ended => run'[r] = run[r]
<1> SUFFICES ASSUME PipelineInv, [PipelineNext]_pipelineVars
             PROVE  Goal
  OBVIOUS
<1>0. PipelineTypeOK /\ PipelineTypeOK'
  BY PipelineTypeStep DEF PipelineInv
<1>1. CASE UNCHANGED pipelineVars
  <2>1. \A p \in Processes, r \in Pipelines : Executes(p, r)' => Executes(p, r)
    BY <1>1 DEF pipelineVars, Executes, Free
  <2>2. QED
    BY <1>0, <1>1, <2>1, NothingNew DEF pipelineVars
<1>2. ASSUME NEW r \in Pipelines, NEW linked \in BOOLEAN, Enqueue(r, linked)
      PROVE  Goal
  <2>1. /\ \A q \in Pipelines \ {r} : run'[q] = run[q]
        /\ run'[r] = run[r] \/ (run[r].status = "none" /\ run'[r].status = "pending")
        /\ \A q \in Pipelines : task'[q] = task[q] \/ (task[q] = "none" /\ task'[q] = "pending")
        /\ durable' = durable /\ executions' = executions
        /\ durable => exec' = exec
    BY <1>0, <1>2 DEF Enqueue, PipelineTypeOK, deployment
  <2>2. durable => \A p \in Processes, q \in Pipelines : Executes(p, q)' => Executes(p, q)
    BY <2>1 DEF Executes, Free
  <2>3. PipelineInv'
    BY <1>0, <2>1, <2>2, NothingNew DEF Ended, Unclaimed
  <2>4. QED
    BY <2>1, <2>3 DEF Ended
<1>3. ASSUME NEW p \in Processes, NEW r \in Pipelines, RunScheduled(p, r) \/ Resume(p, r)
      PROVE  Goal
  <2>1. UNCHANGED <<durable, executions, task, run>> /\ ~durable
    BY <1>3 DEF RunScheduled, Resume, deployment
  <2>2. QED
    BY <1>0, <2>1, NothingNew
<1>4. ASSUME NEW p \in Processes, NEW r \in Pipelines, ClaimTask(p, r)
      PROVE  Goal
  <2>1. /\ durable' = durable /\ run' = run /\ Taken(p, r) /\ task[r] = "pending"
        /\ task' = [task EXCEPT ![r] = "running"]
        /\ executions' = [executions EXCEPT ![r] = @ + 1]
    BY <1>4 DEF ClaimTask, Taken, Begun, deployment
  <2>2. /\ task'[r] = "running" /\ executions[r] = 0 /\ executions'[r] = 1
        /\ \A q \in Pipelines \ {r} : task'[q] = task[q] /\ executions'[q] = executions[q]
    BY <1>0, <2>1 DEF PipelineInv, TasksAreCounted, Unclaimed, PipelineTypeOK
  <2>3. TasksAreCounted'
    BY <2>2 DEF TasksAreCounted, PipelineInv, Unclaimed
  <2>4. /\ exec'[p].pc = "start" /\ exec'[p].run = r
        /\ \A q \in Processes \ {p} : exec'[q] = exec[q]
    BY <1>0, <2>1, TakenTypes
  <2>5. /\ \A q \in Processes, s \in Pipelines \ {r} : Executes(q, s)' => Executes(q, s)
        /\ \A q \in Processes \ {p} : Executes(q, r)' => Executes(q, r)
    BY <2>4 DEF Executes, Free
  <2>6. ClaimedOnce'
    BY <2>1, <2>2, <2>5 DEF PipelineInv, ClaimedOnce
  <2>7. QED
    BY <1>0, <2>1, <2>3, <2>6 DEF PipelineInv
<1>5. ASSUME NEW r \in Pipelines, Reconcile(r)
      PROVE  Goal
  <2>1. /\ UNCHANGED <<durable, run, exec, executions>> /\ task[r] = "none"
        /\ task' = [task EXCEPT ![r] = "pending"]
    BY <1>5 DEF Reconcile, Reconciled, deployment
  <2>2. \A q \in Pipelines : task'[q] = task[q] \/ (task[q] = "none" /\ task'[q] = "pending")
    BY <1>0, <2>1 DEF PipelineTypeOK
  <2>3. \A p \in Processes, q \in Pipelines : Executes(p, q)' => Executes(p, q)
    BY <2>1 DEF Executes, Free
  <2>4. QED
    BY <1>0, <2>1, <2>2, <2>3, NothingNew DEF Unclaimed
<1>6. ASSUME NEW r \in Pipelines, ExpireTask(r)
      PROVE  Goal
  <2>1. /\ UNCHANGED <<durable, run, executions>> /\ task[r] = "running"
        /\ task' = [task EXCEPT ![r] = "unknown"]
    BY <1>6 DEF ExpireTask, ExpiredStatus, deployment
  <2>2. \A q \in Pipelines : task'[q] = task[q] \/ (task[q] = "running" /\ task'[q] = "unknown")
    BY <1>0, <2>1 DEF PipelineTypeOK
  <2>3. \A p \in Processes : exec'[p].run = exec[p].run /\ exec'[p].pc = exec[p].pc
    <3>1. \A e \in ExecRows : /\ [e EXCEPT !.fenced = FALSE].pc = e.pc
                              /\ [e EXCEPT !.fenced = FALSE].run = e.run
      BY DEF ExecRows
    <3>2. \A q \in Processes : exec'[q] = exec[q] \/ exec'[q] = [exec[q] EXCEPT !.fenced = FALSE]
      BY <1>6 DEF ExpireTask
    <3>3. QED
      BY <1>0, <3>1, <3>2, PipelineRowTypes
  <2>4. \A p \in Processes, q \in Pipelines : Executes(p, q)' => Executes(p, q)
    BY <2>3 DEF Executes, Free
  <2>5. QED
    BY <1>0, <2>1, <2>2, <2>4, NothingNew DEF Unclaimed
<1>7. ASSUME NEW p \in Processes, Step(p)
      PROVE  Goal
  BY <1>0, <1>7, StepKeepsOnce
<1>8. ASSUME NEW p \in Processes, ProcessDies(p)
      PROVE  Goal
  <2>1. UNCHANGED <<durable, run, executions, task>> /\ exec' = [exec EXCEPT ![p] = NoExec]
    BY <1>8 DEF ProcessDies, deployment
  <2>2. \A q \in Processes, r \in Pipelines : Executes(q, r)' => Executes(q, r)
    BY <1>0, <2>1 DEF Executes, Free, NoExec, PipelineTypeOK
  <2>3. QED
    BY <1>0, <2>1, <2>2, NothingNew
<1>9. ASSUME NEW l \in Leads, Decide(l)
      PROVE  Goal
  <2>1. UNCHANGED <<durable, run, executions, task, exec>>
    BY <1>9 DEF Decide, deployment
  <2>2. \A q \in Processes, r \in Pipelines : Executes(q, r)' => Executes(q, r)
    BY <2>1 DEF Executes, Free
  <2>3. QED
    BY <1>0, <2>1, <2>2, NothingNew
<1> HIDE DEF Goal
<1>10. QED
  BY <1>1, <1>2, <1>3, <1>4, <1>5, <1>6, <1>7, <1>8, <1>9 DEF PipelineNext

\* background.ts: a run has at most one execution, that of the one claim of
\* its task.
THEOREM PipelineInductive == PipelineSpec => []PipelineInv
BY PipelineInvInit, PipelineInvStep, PTL DEF PipelineSpec

\* background.ts:133-138: whatever dies, expires or is asked for again, a task
\* is executed at most once.
THEOREM TaskRunsOnce == PipelineSpec => []TasksRunOnce
<1>1. PipelineInv => TasksRunOnce
  BY DEF PipelineInv, TasksAreCounted, TasksRunOnce
<1>2. QED
  BY <1>1, PipelineInductive, PTL

\* background.ts and pipeline/service.ts, in the durable mode: no late
\* execution, retry or resumption changes a run that completed.
THEOREM CompletedIsFinal == PipelineSpec => CompletedStays
<1>1. PipelineInv /\ [PipelineNext]_pipelineVars =>
        \A r \in Pipelines : durable /\ run[r].status = "completed" => run'[r].status = "completed"
  BY PipelineInvStep DEF Ended
<1>2. QED
  BY <1>1, PipelineInductive, PTL DEF PipelineSpec, CompletedStays

-----------------------------------------------------------------------------
(* Outreach: types.                                                        *)

LEMMA OutreachTypeInit == OutreachInit => OutreachTypeOK
<1> SUFFICES ASSUME OutreachInit
             PROVE  OutreachTypeOK
  OBVIOUS
<1>1. NoPermission \in PermissionRows
  BY DEF NoPermission, PermissionRows
<1>2. [status |-> "none", retries |-> 0] \in RecordRows
  BY OutreachAssumption DEF RecordRows
<1>3. IdleDesk \in DeskRows
  BY DEF IdleDesk, DeskRows
<1>4. QED
  BY <1>1, <1>2, <1>3 DEF OutreachInit, OutreachTypeOK

\* What a process that hands a lead over holds, and where it may go.
LEMMA HandingRows ==
  ASSUME OutreachTypeOK, NEW d \in Desks
  PROVE  /\ desk[d].pc \in Handing => desk[d].at \in Pairs
         /\ desk[d].pc = "permit" => desk[d].at \in OutreachLeads /\ desk[d].seen \in PermissionRows
         /\ \A pc \in Handing :
              desk[d].pc \in Handing /\ desk' = Becomes(d, pc) =>
                /\ desk' \in [Desks -> DeskRows]
                /\ desk'[d].pc = pc /\ desk'[d].at = desk[d].at
                /\ \A e \in Desks \ {d} : desk'[e] = desk[e]
         /\ desk' = Done(d) =>
              /\ desk' \in [Desks -> DeskRows] /\ desk'[d].pc = "idle"
              /\ \A e \in Desks \ {d} : desk'[e] = desk[e]
<1>1. desk[d] \in DeskRows
  BY DEF OutreachTypeOK
<1>2. desk[d].pc \in Handing => desk[d] \in [pc : Handing, at : Pairs, seen : {NoPermission}]
  BY <1>1 DEF DeskRows, Handing
<1>3. desk[d].pc = "permit" => desk[d] \in [pc : {"permit"}, at : OutreachLeads, seen : PermissionRows]
  BY <1>1 DEF DeskRows, Handing
<1>4. ASSUME NEW pc \in Handing, desk[d].pc \in Handing, desk' = Becomes(d, pc)
      PROVE  /\ desk' \in [Desks -> DeskRows]
             /\ desk'[d].pc = pc /\ desk'[d].at = desk[d].at
             /\ \A e \in Desks \ {d} : desk'[e] = desk[e]
  <2> DEFINE row == [desk[d] EXCEPT !.pc = pc]
  <2>1. row \in DeskRows /\ row.pc = pc /\ row.at = desk[d].at
    BY <1>2, <1>4 DEF DeskRows
  <2>2. desk' = [desk EXCEPT ![d] = row]
    BY <1>4 DEF Becomes
  <2> HIDE DEF row
  <2>3. QED
    BY <2>1, <2>2 DEF OutreachTypeOK
<1>5. IdleDesk \in DeskRows /\ IdleDesk.pc = "idle"
  BY DEF IdleDesk, DeskRows
<1>6. ASSUME desk' = Done(d)
      PROVE  /\ desk' \in [Desks -> DeskRows] /\ desk'[d].pc = "idle"
             /\ \A e \in Desks \ {d} : desk'[e] = desk[e]
  BY <1>5, <1>6 DEF Done, OutreachTypeOK
<1>7. QED
  BY <1>2, <1>3, <1>4, <1>6

\* A process that was idle takes up a lead, or a permission.
LEMMA StartRows ==
  ASSUME OutreachTypeOK, NEW d \in Desks
  PROVE  /\ \A c \in Campaigns, l \in OutreachLeads : SelectLead(d, c, l) =>
              /\ desk' \in [Desks -> DeskRows]
              /\ desk'[d].pc = "claim" /\ desk'[d].at = <<c, l>>
              /\ \A e \in Desks \ {d} : desk'[e] = desk[e]
         /\ \A x \in Pairs : AskRetry(d, x) =>
              /\ desk' \in [Desks -> DeskRows]
              /\ desk'[d].pc = "retry" /\ desk'[d].at = x
              /\ \A e \in Desks \ {d} : desk'[e] = desk[e]
         /\ \A l \in OutreachLeads : ReadPermission(d, l) =>
              /\ desk' \in [Desks -> DeskRows] /\ desk'[d].pc = "permit"
              /\ \A e \in Desks \ {d} : desk'[e] = desk[e]
<1>1. ASSUME NEW row \in DeskRows, desk' = [desk EXCEPT ![d] = row]
      PROVE  /\ desk' \in [Desks -> DeskRows] /\ desk'[d] = row
             /\ \A e \in Desks \ {d} : desk'[e] = desk[e]
  BY <1>1 DEF OutreachTypeOK
<1>2. ASSUME NEW l \in OutreachLeads, ReadPermission(d, l)
      PROVE  /\ desk' \in [Desks -> DeskRows] /\ desk'[d].pc = "permit"
             /\ \A e \in Desks \ {d} : desk'[e] = desk[e]
  <2> DEFINE row == [pc |-> "permit", at |-> l, seen |-> permission[l]]
  <2>1. row \in DeskRows /\ row.pc = "permit"
    BY DEF DeskRows, OutreachTypeOK
  <2>2. desk' = [desk EXCEPT ![d] = row]
    BY <1>2 DEF ReadPermission
  <2> HIDE DEF row
  <2>3. QED
    BY <2>1, <2>2 DEF OutreachTypeOK
<1>3. ASSUME NEW c \in Campaigns, NEW l \in OutreachLeads, SelectLead(d, c, l)
      PROVE  /\ desk' \in [Desks -> DeskRows]
             /\ desk'[d].pc = "claim" /\ desk'[d].at = <<c, l>>
             /\ \A e \in Desks \ {d} : desk'[e] = desk[e]
  <2> DEFINE row == [IdleDesk EXCEPT !.pc = "claim", !.at = <<c, l>>]
  <2>1. row \in DeskRows /\ row.pc = "claim" /\ row.at = <<c, l>>
    BY DEF IdleDesk, DeskRows, Pairs, Handing
  <2>2. desk' = [desk EXCEPT ![d] = row]
    BY <1>3 DEF SelectLead
  <2> HIDE DEF row
  <2>3. QED
    BY <1>1, <2>1, <2>2
<1>4. ASSUME NEW x \in Pairs, AskRetry(d, x)
      PROVE  /\ desk' \in [Desks -> DeskRows]
             /\ desk'[d].pc = "retry" /\ desk'[d].at = x
             /\ \A e \in Desks \ {d} : desk'[e] = desk[e]
  <2> DEFINE row == [IdleDesk EXCEPT !.pc = "retry", !.at = x]
  <2>1. row \in DeskRows /\ row.pc = "retry" /\ row.at = x
    BY DEF IdleDesk, DeskRows, Handing
  <2>2. desk' = [desk EXCEPT ![d] = row]
    BY <1>4 DEF AskRetry
  <2> HIDE DEF row
  <2>3. QED
    BY <1>1, <2>1, <2>2
<1>5. QED
  BY <1>2, <1>3, <1>4

\* Every step of a hand-over, by its process.
HandOver(d) ==
  Claim(d) \/ Send(d) \/ MarkDelivered(d) \/ EnqueueCall(d) \/ MarkFailed(d) \/ Retry(d)

LEMMA HandOverRows ==
  ASSUME OutreachTypeOK, NEW d \in Desks, HandOver(d)
  PROVE  /\ desk[d].pc \in Handing /\ desk[d].at \in Pairs
         /\ \E pc \in Handing \union {"idle"} :
              /\ desk' = IF pc = "idle" THEN Done(d) ELSE Becomes(d, pc)
              /\ desk'[d].pc = pc /\ (pc # "idle" => desk'[d].at = desk[d].at)
         /\ desk' \in [Desks -> DeskRows]
         /\ \A e \in Desks \ {d} : desk'[e] = desk[e]
<1>1. desk[d].pc \in Handing
  BY DEF HandOver, Claim, Send, MarkDelivered, EnqueueCall, MarkFailed, Retry, Doing, Handing
<1>2. desk' = Done(d) \/ \E pc \in Handing : desk' = Becomes(d, pc)
  <2>1. Claim(d) => desk' = Done(d) \/ desk' = Becomes(d, "send")
    BY DEF Claim
  <2>2. Send(d) => desk' = Becomes(d, "mark") \/ desk' = Becomes(d, "remark") \/ desk' = Becomes(d, "fail")
    BY DEF Send
  <2>3. MarkDelivered(d) => desk' = Done(d) \/ desk' = Becomes(d, "enqueue") \/ desk' = Becomes(d, "fail")
    BY DEF MarkDelivered
  <2>4. EnqueueCall(d) => desk' = Done(d) \/ desk' = Becomes(d, "fail")
    BY DEF EnqueueCall
  <2>5. MarkFailed(d) => desk' = Done(d)
    BY DEF MarkFailed
  <2>6. Retry(d) => desk' = Becomes(d, "resend")
    BY DEF Retry
  <2>7. QED
    BY <2>1, <2>2, <2>3, <2>4, <2>5, <2>6 DEF HandOver, Handing
<1>3. CASE desk' = Done(d)
  BY <1>1, <1>3, HandingRows
<1>4. CASE \E pc \in Handing : desk' = Becomes(d, pc)
  <2>1. PICK pc \in Handing : desk' = Becomes(d, pc)
    BY <1>4
  <2>2. pc # "idle"
    BY DEF Handing
  <2>3. QED
    BY <1>1, <2>1, <2>2, HandingRows
<1>5. QED
  BY <1>2, <1>3, <1>4

LEMMA OutreachTypeStep == OutreachTypeOK /\ [OutreachNext]_outreachVars => OutreachTypeOK'
<1> SUFFICES ASSUME OutreachTypeOK, [OutreachNext]_outreachVars
             PROVE  OutreachTypeOK'
  OBVIOUS
<1>0. /\ \A x \in Pairs, q \in RecordRows : [record EXCEPT ![x] = q] \in [Pairs -> RecordRows]
      /\ \A x \in Pairs : record[x] \in RecordRows
      /\ \A l \in OutreachLeads, q \in PermissionRows :
           [permission EXCEPT ![l] = q] \in [OutreachLeads -> PermissionRows]
      /\ \A x \in Pairs : x[2] \in OutreachLeads
  BY DEF OutreachTypeOK, Pairs
<1>n. \A l \in OutreachLeads, way \in {"calls", "texts"} : <<l, way>> \in OutreachLeads \X {"calls", "texts"}
  OBVIOUS
<1>1. CASE UNCHANGED outreachVars
  BY <1>1 DEF OutreachTypeOK, outreachVars
<1>2. ASSUME NEW d \in Desks, NEW c \in Campaigns, NEW l \in OutreachLeads, SelectLead(d, c, l)
      PROVE  OutreachTypeOK'
  <2>1. desk' \in [Desks -> DeskRows]
    BY <1>2, StartRows
  <2>2. QED
    BY <1>2, <2>1 DEF SelectLead, leadRows, refusals, deliveryHistory, OutreachTypeOK
<1>3. ASSUME NEW d \in Desks, NEW x \in Pairs, AskRetry(d, x)
      PROVE  OutreachTypeOK'
  <2>1. desk' \in [Desks -> DeskRows]
    BY <1>3, StartRows
  <2>2. QED
    BY <1>3, <2>1 DEF AskRetry, leadRows, refusals, deliveryHistory, OutreachTypeOK
<1>4. ASSUME NEW d \in Desks, NEW l \in OutreachLeads, ReadPermission(d, l)
      PROVE  OutreachTypeOK'
  BY <1>4, StartRows DEF ReadPermission, leadRows, refusals, deliveryHistory, OutreachTypeOK
<1>5. ASSUME NEW d \in Desks, HandOver(d)
      PROVE  OutreachTypeOK'
  <2> DEFINE x == desk[d].at
  <2>1. x \in Pairs /\ desk' \in [Desks -> DeskRows]
    BY <1>5, HandOverRows
  <2>2. \A s \in {"processing", "delivered", "failed"} : SetStatus(x, s) \in [Pairs -> RecordRows]
    <3> SUFFICES ASSUME NEW s \in {"processing", "delivered", "failed"}
                 PROVE  SetStatus(x, s) \in [Pairs -> RecordRows]
      OBVIOUS
    <3> DEFINE q == [record[x] EXCEPT !.status = s]
    <3>1. SetStatus(x, s) = [record EXCEPT ![x] = q] /\ q \in RecordRows
      BY <1>0, <2>1 DEF SetStatus, RecordRows
    <3> HIDE DEF q
    <3>2. QED
      BY <1>0, <2>1, <3>1
  <2>3. Retry(d) => record' \in [Pairs -> RecordRows]
    <3> SUFFICES ASSUME Retry(d)
                 PROVE  record' \in [Pairs -> RecordRows]
      OBVIOUS
    <3>1. record[x].retries + 1 \in 0..MaxRetries
      BY <1>0, <2>1, OutreachAssumption DEF Retry, RecordRows
    <3>2. [status |-> "processing", retries |-> record[x].retries + 1] \in RecordRows
      BY <3>1 DEF RecordRows
    <3>3. record' = [record EXCEPT ![x] = [status |-> "processing", retries |-> record[x].retries + 1]]
      BY DEF Retry, Retried
    <3>4. QED
      BY <1>0, <2>1, <3>2, <3>3
  <2>4. record' \in [Pairs -> RecordRows]
    <3>1. Claim(d) => record' = record \/ record' = SetStatus(x, "processing")
      BY DEF Claim
    <3>2. Send(d) \/ EnqueueCall(d) => record' = record
      BY DEF Send, EnqueueCall
    <3>3. MarkDelivered(d) => record' = record \/ record' = SetStatus(x, "delivered")
      BY DEF MarkDelivered
    <3>4. MarkFailed(d) => record' = SetStatus(x, "failed")
      BY DEF MarkFailed
    <3>5. QED
      BY <1>5, <2>2, <2>3, <3>1, <3>2, <3>3, <3>4 DEF HandOver, OutreachTypeOK
  <2>5. accepted' \in [Pairs -> Nat]
    <3>1. Send(d) => \E n \in 0..1 : accepted' = [accepted EXCEPT ![x] = @ + n]
      BY DEF Send
    <3>2. ~Send(d) => accepted' = accepted
      BY <1>5 DEF HandOver, Claim, MarkDelivered, EnqueueCall, MarkFailed, Retry
    <3>3. QED
      BY <2>1, <3>1, <3>2 DEF OutreachTypeOK
  <2>6. /\ entry' \in [Pairs -> {"none", "not_called"} \union CallStatuses]
        /\ permission' \in [OutreachLeads -> PermissionRows]
    <3>1. EnqueueCall(d) => \/ permission' = permission /\ entry' = entry
                            \/ /\ permission' = [permission EXCEPT ![x[2]].candidate = TRUE]
                               /\ entry' = [entry EXCEPT ![x] = IF @ = "none" THEN "not_called" ELSE @]
      BY DEF EnqueueCall, Enqueued
    <3>2. ~EnqueueCall(d) => permission' = permission /\ entry' = entry
      BY <1>5 DEF HandOver, Claim, Send, MarkDelivered, MarkFailed, Retry, leadRows
    <3>3. [permission EXCEPT ![x[2]].candidate = TRUE] \in [OutreachLeads -> PermissionRows]
      <4>1. \A q \in PermissionRows : [q EXCEPT !.candidate = TRUE] \in PermissionRows
        BY DEF PermissionRows
      <4>2. x[2] \in OutreachLeads
        BY <1>0, <2>1
      <4>3. QED
        BY <4>1, <4>2 DEF OutreachTypeOK
    <3>4. QED
      BY <2>1, <3>1, <3>2, <3>3 DEF OutreachTypeOK
  <2>7. qualifying' = qualifying /\ suppression' = suppression /\ UNCHANGED refusals
    BY <1>5 DEF HandOver, Claim, Send, MarkDelivered, EnqueueCall, MarkFailed, Retry, leadRows
  <2>8. failures' \in [Pairs -> Nat] /\ crossed' \subseteq Pairs
    <3>1. MarkFailed(d) => failures' = [failures EXCEPT ![x] = @ + 1] /\ crossed' = crossed
      BY DEF MarkFailed
    <3>2. Retry(d) => failures' = failures /\ crossed' \in {crossed, crossed \union {x}}
      BY DEF Retry
    <3>3. ~MarkFailed(d) /\ ~Retry(d) => failures' = failures /\ crossed' = crossed
      BY <1>5 DEF HandOver, Claim, Send, MarkDelivered, EnqueueCall, deliveryHistory
    <3>4. QED
      BY <2>1, <3>1, <3>2, <3>3 DEF OutreachTypeOK
  <2>9. QED
    BY <2>1, <2>4, <2>5, <2>6, <2>7, <2>8 DEF OutreachTypeOK, refusals
<1>6. ASSUME NEW d \in Desks, DeskDies(d)
      PROVE  OutreachTypeOK'
  BY <1>6, HandingRows DEF DeskDies, leadRows, refusals, deliveryHistory, OutreachTypeOK
<1>7. ASSUME NEW d \in Desks, NEW said \in PermissionRequests, RecordPermission(d, said)
      PROVE  OutreachTypeOK'
  <2>1. desk[d].at \in OutreachLeads /\ desk[d].seen \in PermissionRows /\ desk' \in [Desks -> DeskRows]
    BY <1>7, HandingRows DEF RecordPermission, Doing
  <2>2. Permitted(desk[d].seen, said) \in PermissionRows
    <3>1. said \in AllRequests
      BY OutreachAssumption
    <3> DEFINE q == desk[d].seen
    <3>2. q \in PermissionRows
      BY <2>1
    <3>3. /\ (IF said.consent = "unsaid" THEN q.consent ELSE said.consent) \in {"unknown", "granted", "opted_out"}
          /\ q.candidate \in BOOLEAN
      BY <3>1, <3>2 DEF AllRequests, PermissionRows
    <3>4. Said(said.dnc, q.dnc) \in BOOLEAN /\ Said(said.suppressed, q.suppressed) \in BOOLEAN
      BY DEF Said
    <3> HIDE DEF q
    <3>5. Permitted(q, said) \in PermissionRows
      BY <3>3, <3>4 DEF Permitted, PermissionRows
    <3>6. QED
      BY <3>5 DEF q
  <2>3. permission' \in [OutreachLeads -> PermissionRows]
    BY <1>0, <1>7, <2>1, <2>2 DEF RecordPermission
  <2>4. /\ refused' \subseteq OutreachLeads \X {"calls", "texts"}
        /\ overtaken' \subseteq OutreachLeads \X {"calls", "texts"}
    <3>1. Overtakes(desk[d].at, desk[d].seen, said) \subseteq OutreachLeads \X {"calls", "texts"}
      BY <2>1 DEF Overtakes
    <3>2. QED
      BY <1>7, <2>1, <3>1 DEF RecordPermission, OutreachTypeOK
  <2>5. QED
    BY <1>7, <2>1, <2>3, <2>4 DEF RecordPermission, deliveryHistory, OutreachTypeOK
<1>8. ASSUME NEW x \in Pairs, NEW status \in CallStatuses, RecordCall(x, status)
      PROVE  OutreachTypeOK'
  <2>1. RefusesContact(permission[x[2]]) \in PermissionRows
    <3>1. \A q \in PermissionRows : RefusesContact(q) \in PermissionRows
      BY DEF PermissionRows, RefusesContact
    <3>2. permission[x[2]] \in PermissionRows
      BY <1>0 DEF OutreachTypeOK
    <3>3. QED
      BY <3>1, <3>2
  <2>2. permission' \in [OutreachLeads -> PermissionRows]
    <3>1. \/ permission' = permission
          \/ permission' = [permission EXCEPT ![x[2]] = RefusesContact(permission[x[2]])]
      BY <1>8 DEF RecordCall
    <3>2. QED
      BY <1>0, <2>1, <3>1 DEF OutreachTypeOK
  <2>3. /\ refused' \subseteq OutreachLeads \X {"calls", "texts"}
        /\ overtaken' \subseteq OutreachLeads \X {"calls", "texts"}
    BY <1>0, <1>n, <1>8 DEF RecordCall, refusals, OutreachTypeOK
  <2>4. entry' \in [Pairs -> {"none", "not_called"} \union CallStatuses]
    BY <1>8 DEF RecordCall, OutreachTypeOK
  <2>5. QED
    BY <1>8, <2>2, <2>3, <2>4 DEF RecordCall, deliveryHistory, OutreachTypeOK
<1>9. ASSUME NEW l \in OutreachLeads, Suppress(l) \/ Rescored(l)
      PROVE  OutreachTypeOK'
  BY <1>9 DEF Suppress, Rescored, refusals, deliveryHistory, OutreachTypeOK
<1>10. ASSUME NEW l \in OutreachLeads, NEW decision \in Decisions, DecideLead(l, decision)
      PROVE  OutreachTypeOK'
  BY <1>10 DEF DecideLead, refusals, deliveryHistory, OutreachTypeOK
<1>11. QED
  BY <1>1, <1>2, <1>3, <1>4, <1>5, <1>6, <1>7, <1>8, <1>9, <1>10 DEF OutreachNext, HandOver

\* Permissions, records, entries and processes keep their types.
THEOREM OutreachTypes == OutreachSpec => []OutreachTypeOK
BY OutreachTypeInit, OutreachTypeStep, PTL DEF OutreachSpec

-----------------------------------------------------------------------------
(* Outreach: how often a lead is handed over.  Every process that may still *)
(* call the destination was let in by the claim or by a retry; what a      *)
(* process records and queues was handed over before; and a delivery that  *)
(* is failed has a failure that no retry has answered yet, as long as no   *)
(* retry crossed another.                                                  *)

Sending(x) == {d \in Desks : desk[d].pc \in {"send", "resend"} /\ desk[d].at = x}
Asked(x) == (IF record[x].status = "none" THEN 0 ELSE 1) + record[x].retries
HandedAsAsked == \A x \in Pairs : accepted[x] + Cardinality(Sending(x)) <= Asked(x)

Busy(d, x) == desk[d].pc \in Handing \ {"claim"} /\ desk[d].at = x
Through(d, x) == desk[d].pc \in {"mark", "enqueue", "remark"} /\ desk[d].at = x
Follows(x) ==
  /\ record[x].status = "none" => entry[x] = "none" /\ \A d \in Desks : ~Busy(d, x)
  /\ \A d \in Desks : Through(d, x) => accepted[x] >= 1
  /\ entry[x] # "none" => accepted[x] >= 1
  /\ x \notin crossed =>
       /\ record[x].retries <= failures[x]
       /\ record[x].status = "failed" => record[x].retries < failures[x]
DeliveriesFollow == \A x \in Pairs : Follows(x)

DeliveryInv == OutreachTypeOK /\ HandedAsAsked /\ DeliveriesFollow

LEMMA SendingIsFinite ==
  /\ \A x \in Pairs : IsFiniteSet(Sending(x)) /\ Cardinality(Sending(x)) \in Nat
  /\ \A x \in Pairs : IsFiniteSet(Sending(x)') /\ Cardinality(Sending(x)') \in Nat
<1>1. ASSUME NEW x \in Pairs
      PROVE  Sending(x) \subseteq Desks /\ Sending(x)' \subseteq Desks
  BY DEF Sending
<1>2. QED
  BY <1>1, OutreachAssumption, FS_Subset, FS_CardinalityType

\* A step that asks for nothing and adds no sender keeps the account.
LEMMA AccountKept ==
  ASSUME OutreachTypeOK, OutreachTypeOK', HandedAsAsked, NEW x \in Pairs,
         accepted'[x] = accepted[x], Asked(x)' >= Asked(x), Sending(x)' \subseteq Sending(x)
  PROVE  accepted'[x] + Cardinality(Sending(x)') <= Asked(x)'
<1>1. Cardinality(Sending(x)') <= Cardinality(Sending(x))
  BY SendingIsFinite, FS_Subset
<1>2. /\ accepted[x] \in Nat /\ Asked(x) \in Nat /\ Asked(x)' \in Nat
      /\ accepted[x] + Cardinality(Sending(x)) <= Asked(x)
  BY OutreachAssumption DEF OutreachTypeOK, Asked, RecordRows, HandedAsAsked
<1>3. QED
  BY <1>1, <1>2, SendingIsFinite

\* A process that stops sending may have been answered once.
LEMMA AccountSettled ==
  ASSUME OutreachTypeOK, OutreachTypeOK', HandedAsAsked, NEW x \in Pairs, NEW d \in Sending(x),
         NEW n \in 0..1, accepted'[x] = accepted[x] + n, Asked(x)' = Asked(x),
         Sending(x)' \subseteq Sending(x) \ {d}
  PROVE  accepted'[x] + Cardinality(Sending(x)') <= Asked(x)'
<1>1. /\ Cardinality(Sending(x) \ {d}) = Cardinality(Sending(x)) - 1
      /\ IsFiniteSet(Sending(x) \ {d})
  BY SendingIsFinite, FS_RemoveElement
<1>2. Cardinality(Sending(x)') <= Cardinality(Sending(x) \ {d})
  BY <1>1, FS_Subset
<1>3. /\ accepted[x] \in Nat /\ Asked(x) \in Nat
      /\ accepted[x] + Cardinality(Sending(x)) <= Asked(x)
  BY OutreachAssumption DEF OutreachTypeOK, Asked, RecordRows, HandedAsAsked
<1>4. QED
  BY <1>1, <1>2, <1>3, SendingIsFinite

\* A process that is let in was asked for.
LEMMA AccountAsked ==
  ASSUME OutreachTypeOK, OutreachTypeOK', HandedAsAsked, NEW x \in Pairs, NEW d \in Desks,
         accepted'[x] = accepted[x], Asked(x)' = Asked(x) + 1,
         Sending(x)' \subseteq Sending(x) \union {d}
  PROVE  accepted'[x] + Cardinality(Sending(x)') <= Asked(x)'
<1>1. /\ Cardinality(Sending(x) \union {d}) <= Cardinality(Sending(x)) + 1
      /\ IsFiniteSet(Sending(x) \union {d})
  <2>1. IsFiniteSet(Sending(x)) /\ Cardinality(Sending(x)) \in Nat
    BY SendingIsFinite
  <2>2. /\ IsFiniteSet(Sending(x) \union {d})
        /\ \/ Cardinality(Sending(x) \union {d}) = Cardinality(Sending(x))
           \/ Cardinality(Sending(x) \union {d}) = Cardinality(Sending(x)) + 1
    BY <2>1, FS_AddElement
  <2>3. QED
    BY <2>1, <2>2
<1>2. Cardinality(Sending(x)') <= Cardinality(Sending(x) \union {d})
  BY <1>1, FS_Subset
<1>3. Cardinality(Sending(x) \union {d}) \in Nat
  BY <1>1, FS_CardinalityType
<1>4. /\ accepted[x] \in Nat /\ Asked(x) \in Nat
      /\ accepted[x] + Cardinality(Sending(x)) <= Asked(x)
  BY OutreachAssumption DEF OutreachTypeOK, Asked, RecordRows, HandedAsAsked
<1>5. QED
  BY <1>1, <1>2, <1>3, <1>4, SendingIsFinite

LEMMA DeliveryInvInit == OutreachInit => DeliveryInv
<1> SUFFICES ASSUME OutreachInit
             PROVE  DeliveryInv
  OBVIOUS
<1>1. \A d \in Desks : desk[d].pc = "idle"
  BY DEF OutreachInit, IdleDesk
<1>2. ASSUME NEW x \in Pairs
      PROVE  /\ accepted[x] + Cardinality(Sending(x)) <= Asked(x) /\ Follows(x)
  <2>1. /\ record[x].status = "none" /\ record[x].retries = 0 /\ accepted[x] = 0 /\ entry[x] = "none"
        /\ failures[x] = 0
    BY DEF OutreachInit
  <2>2. Sending(x) = {}
    BY <1>1 DEF Sending
  <2>3. Cardinality(Sending(x)) = 0
    BY <2>2, FS_EmptySet
  <2>4. QED
    BY <1>1, <2>1, <2>3 DEF Follows, Busy, Through, Handing, Asked
<1>3. QED
  BY <1>2, OutreachTypeInit DEF DeliveryInv, HandedAsAsked, DeliveriesFollow

\* Where a step changes neither the record nor the entry of a lead, and its
\* processes at most let go of it, nothing changes for that lead.
LEMMA LeadUndisturbed ==
  ASSUME DeliveryInv, OutreachTypeOK', NEW x \in Pairs,
         record'[x] = record[x], accepted'[x] = accepted[x], failures'[x] = failures[x],
         x \notin crossed' => x \notin crossed,
         entry'[x] = entry[x] \/ (entry[x] # "none" /\ entry'[x] # "none"),
         \A d \in Desks : \/ desk'[d] = desk[d]
                          \/ desk'[d].pc \in {"idle", "claim", "permit"} \/ desk'[d].at # x
  PROVE  accepted'[x] + Cardinality(Sending(x)') <= Asked(x)' /\ Follows(x)'
<1>1. /\ Sending(x)' \subseteq Sending(x)
      /\ \A d \in Desks : /\ Busy(d, x)' => Busy(d, x)
                          /\ Through(d, x)' => Through(d, x)
  BY DEF Sending, Busy, Through, Handing
<1>2. Asked(x)' = Asked(x) /\ Asked(x) \in Nat
  BY OutreachAssumption DEF Asked, DeliveryInv, OutreachTypeOK, RecordRows
<1>3. accepted'[x] + Cardinality(Sending(x)') <= Asked(x)'
  BY <1>1, <1>2, AccountKept DEF DeliveryInv
<1>4. Follows(x)'
  BY <1>1 DEF DeliveryInv, DeliveriesFollow, Follows
<1>5. QED
  BY <1>3, <1>4

\* A hand-over of one lead does not touch the others.
LEMMA OthersUndisturbed ==
  ASSUME DeliveryInv, OutreachTypeOK', NEW d \in Desks, HandOver(d), NEW x \in Pairs, x # desk[d].at
  PROVE  accepted'[x] + Cardinality(Sending(x)') <= Asked(x)' /\ Follows(x)'
<1> DEFINE y == desk[d].at
<1>0. OutreachTypeOK
  BY DEF DeliveryInv
<1>1. /\ y \in Pairs /\ \A e \in Desks \ {d} : desk'[e] = desk[e]
      /\ desk'[d].pc = "idle" \/ desk'[d].at = y
  BY <1>0, HandOverRows
<1>2. record'[x] = record[x]
  <2>1. \/ record' = record \/ record' = Retried(y)
        \/ \E s \in {"processing", "delivered", "failed"} : record' = SetStatus(y, s)
    <3>1. Claim(d) => record' = record \/ record' = SetStatus(y, "processing")
      BY DEF Claim
    <3>2. Send(d) \/ EnqueueCall(d) => record' = record
      BY DEF Send, EnqueueCall
    <3>3. MarkDelivered(d) => record' = record \/ record' = SetStatus(y, "delivered")
      BY DEF MarkDelivered
    <3>4. MarkFailed(d) => record' = SetStatus(y, "failed")
      BY DEF MarkFailed
    <3>5. Retry(d) => record' = Retried(y)
      BY DEF Retry
    <3>6. QED
      BY <3>1, <3>2, <3>3, <3>4, <3>5 DEF HandOver
  <2>2. QED
    BY <1>0, <2>1 DEF SetStatus, Retried, OutreachTypeOK
<1>3. accepted'[x] = accepted[x]
  <2>1. accepted' = accepted \/ \E n \in 0..1 : accepted' = [accepted EXCEPT ![y] = @ + n]
    <3>1. Send(d) => \E n \in 0..1 : accepted' = [accepted EXCEPT ![y] = @ + n]
      BY DEF Send
    <3>2. ~Send(d) => accepted' = accepted
      BY DEF HandOver, Claim, MarkDelivered, EnqueueCall, MarkFailed, Retry
    <3>3. QED
      BY <3>1, <3>2
  <2>2. QED
    BY <1>0, <2>1 DEF OutreachTypeOK
<1>4. entry'[x] = entry[x]
  <2>1. entry' = entry \/ entry' = [entry EXCEPT ![y] = IF @ = "none" THEN "not_called" ELSE @]
    <3>1. EnqueueCall(d) => entry' = entry \/ entry' = [entry EXCEPT ![y] = IF @ = "none" THEN "not_called" ELSE @]
      BY DEF EnqueueCall, Enqueued
    <3>2. ~EnqueueCall(d) => entry' = entry
      BY DEF HandOver, Claim, Send, MarkDelivered, MarkFailed, Retry
    <3>3. QED
      BY <3>1, <3>2
  <2>2. QED
    BY <1>0, <2>1 DEF OutreachTypeOK
<1>5. failures'[x] = failures[x] /\ (x \notin crossed' => x \notin crossed)
  <2>1. MarkFailed(d) => failures' = [failures EXCEPT ![y] = @ + 1] /\ crossed' = crossed
    BY DEF MarkFailed
  <2>2. Retry(d) => failures' = failures /\ crossed \subseteq crossed'
    BY DEF Retry
  <2>3. ~MarkFailed(d) /\ ~Retry(d) => failures' = failures /\ crossed' = crossed
    BY DEF HandOver, Claim, Send, MarkDelivered, EnqueueCall, deliveryHistory
  <2>4. QED
    BY <1>0, <2>1, <2>2, <2>3 DEF OutreachTypeOK
<1>6. QED
  BY <1>1, <1>2, <1>3, <1>4, <1>5, LeadUndisturbed

\* The row of a record after its status is set.
LEMMA StatusSet ==
  ASSUME OutreachTypeOK, NEW x \in Pairs
  PROVE  \A s \in {"processing", "delivered", "failed"} :
           record' = SetStatus(x, s) =>
             record'[x].status = s /\ record'[x].retries = record[x].retries
<1>1. record[x] \in RecordRows
  BY DEF OutreachTypeOK
<1>2. QED
  BY <1>1 DEF SetStatus, OutreachTypeOK, RecordRows

\* The lead a hand-over is about.
LEMMA HandedOver ==
  ASSUME DeliveryInv, OutreachTypeOK', NEW d \in Desks, HandOver(d), NEW x, x = desk[d].at
  PROVE  accepted'[x] + Cardinality(Sending(x)') <= Asked(x)' /\ Follows(x)'
<1>0. OutreachTypeOK /\ HandedAsAsked
  BY DEF DeliveryInv
<1>1. /\ x \in Pairs /\ \A e \in Desks \ {d} : desk'[e] = desk[e]
      /\ desk[d].pc \in Handing
      /\ \A pc \in Handing : desk' = Becomes(d, pc) => desk'[d].pc = pc /\ desk'[d].at = x
      /\ desk' = Done(d) => desk'[d].pc = "idle"
  BY <1>0, HandOverRows, HandingRows
<1>2. /\ Follows(x) /\ Asked(x) \in Nat /\ record[x] \in RecordRows /\ accepted[x] \in Nat
      /\ failures[x] \in Nat /\ record[x].retries \in Nat
  BY <1>1, OutreachAssumption DEF DeliveryInv, DeliveriesFollow, Asked, OutreachTypeOK, RecordRows
<1>3. \A e \in Desks \ {d} : /\ Busy(e, x)' <=> Busy(e, x)
                             /\ Through(e, x)' <=> Through(e, x)
                             /\ e \in Sending(x)' <=> e \in Sending(x)
  BY <1>1 DEF Busy, Through, Sending
<1>b. desk[d].pc # "claim" => record[x].status # "none"
  BY <1>1, <1>2 DEF Follows, Busy
<1>4. CASE Claim(d)
  <2>1. CASE record[x].status = "none"
    <3>1. /\ record' = SetStatus(x, "processing") /\ desk' = Becomes(d, "send")
          /\ UNCHANGED <<accepted, entry, failures, crossed>>
      BY <1>4, <2>1 DEF Claim, Claimed, deliveryHistory
    <3>2. /\ record'[x].status = "processing" /\ record'[x].retries = record[x].retries
          /\ desk'[d].pc = "send"
      BY <1>0, <1>1, <3>1, StatusSet DEF Handing
    <3>3. Sending(x)' \subseteq Sending(x) \union {d}
      BY <1>3 DEF Sending
    <3>4. Asked(x)' = Asked(x) + 1
      BY <1>2, <2>1, <3>2 DEF Asked, RecordRows
    <3>5. accepted'[x] + Cardinality(Sending(x)') <= Asked(x)'
      BY <1>0, <1>1, <3>1, <3>3, <3>4, AccountAsked
    <3>6. \A e \in Desks : Through(e, x)' => Through(e, x)
      BY <1>3, <3>2 DEF Through
    <3>7. Follows(x)'
      BY <1>2, <3>1, <3>2, <3>6 DEF Follows
    <3>8. QED
      BY <3>5, <3>7
  <2>2. CASE record[x].status # "none"
    <3>1. UNCHANGED <<record, accepted, entry, failures, crossed>> /\ desk' = Done(d)
      BY <1>4, <2>2 DEF Claim, Claimed, deliveryHistory
    <3>2. QED
      BY <1>1, <3>1, LeadUndisturbed
  <2>3. QED
    BY <2>1, <2>2
<1>5. CASE Send(d)
  <2>1. /\ UNCHANGED <<record, entry, failures, crossed>> /\ desk[d].pc \in {"send", "resend"}
        /\ \E n \in 0..1 : accepted' = [accepted EXCEPT ![x] = @ + n]
    BY <1>5 DEF Send, deliveryHistory
  <2>2. PICK n \in 0..1 : accepted'[x] = accepted[x] + n
    BY <1>0, <1>1, <2>1 DEF OutreachTypeOK
  <2>3. /\ desk'[d].pc \in {"mark", "remark", "fail"}
        /\ desk'[d].pc \in {"mark", "remark"} => accepted'[x] >= 1
    <3>1. \/ /\ desk' = Becomes(d, IF Doing(d, "send") THEN "mark" ELSE "remark")
             /\ accepted' = [accepted EXCEPT ![x] = @ + 1]
          \/ desk' = Becomes(d, "fail")
      BY <1>5 DEF Send
    <3>2. accepted' = [accepted EXCEPT ![x] = @ + 1] => accepted'[x] >= 1
      BY <1>0, <1>1, <1>2 DEF OutreachTypeOK
    <3>3. QED
      BY <1>1, <3>1, <3>2 DEF Handing
  <2>4. d \in Sending(x) /\ Sending(x)' \subseteq Sending(x) \ {d}
    BY <1>3, <2>1, <2>3 DEF Sending
  <2>5. Asked(x)' = Asked(x)
    BY <2>1 DEF Asked
  <2>6. accepted'[x] + Cardinality(Sending(x)') <= Asked(x)'
    BY <1>0, <1>1, <2>2, <2>4, <2>5, AccountSettled
  <2>7. record'[x].status # "none" /\ accepted'[x] >= accepted[x]
    BY <1>b, <1>2, <2>1, <2>2
  <2>8. ASSUME NEW e \in Desks, Through(e, x)' PROVE accepted'[x] >= 1
    <3>1. CASE e = d
      BY <2>3, <2>8, <3>1 DEF Through
    <3>2. CASE e # d
      BY <1>2, <1>3, <2>2, <2>8, <3>2 DEF Follows
    <3>3. QED
      BY <3>1, <3>2
  <2>9. entry'[x] # "none" => accepted'[x] >= 1
    BY <1>2, <2>1, <2>2 DEF Follows
  <2>10. Follows(x)'
    BY <1>2, <2>1, <2>7, <2>8, <2>9 DEF Follows
  <2>11. QED
    BY <2>6, <2>10
<1>6. CASE MarkDelivered(d)
  <2>1. /\ record' = SetStatus(x, "delivered") \/ (record' = record /\ desk' = Becomes(d, "fail"))
        /\ UNCHANGED <<accepted, entry, failures, crossed>>
        /\ desk[d].pc \in {"mark", "remark"}
        /\ desk' = Done(d) \/ desk' = Becomes(d, "enqueue") \/ desk' = Becomes(d, "fail")
    BY <1>6 DEF MarkDelivered, Doing, deliveryHistory
  <2>2. /\ record'[x] = record[x] \/ record'[x].status = "delivered"
        /\ record'[x].retries = record[x].retries
        /\ desk'[d].pc \in {"idle", "enqueue", "fail"}
    BY <1>0, <1>1, <2>1, StatusSet DEF Handing
  <2>3. Sending(x)' \subseteq Sending(x)
    BY <1>3, <2>2 DEF Sending
  <2>4. record[x].status # "none" /\ record'[x].status # "none"
    BY <1>b, <2>1, <2>2
  <2>5. Asked(x)' >= Asked(x)
    BY <1>2, <2>2, <2>4 DEF Asked
  <2>6. accepted'[x] + Cardinality(Sending(x)') <= Asked(x)'
    BY <1>0, <1>1, <2>1, <2>3, <2>5, AccountKept
  <2>7. accepted[x] >= 1
    BY <1>1, <1>2, <2>1 DEF Follows, Through
  <2>8. Follows(x)'
    BY <1>2, <2>1, <2>2, <2>4, <2>7 DEF Follows
  <2>9. QED
    BY <2>6, <2>8
<1>7. CASE EnqueueCall(d)
  <2>1. /\ UNCHANGED <<record, accepted, failures, crossed>> /\ desk[d].pc = "enqueue"
        /\ desk' = Done(d) \/ desk' = Becomes(d, "fail")
    BY <1>7 DEF EnqueueCall, Doing, deliveryHistory
  <2>2. desk'[d].pc \in {"idle", "fail"}
    BY <1>1, <2>1 DEF Handing
  <2>3. Sending(x)' \subseteq Sending(x) /\ Asked(x)' = Asked(x)
    BY <1>3, <2>1, <2>2 DEF Sending, Asked
  <2>4. accepted'[x] + Cardinality(Sending(x)') <= Asked(x)'
    BY <1>0, <1>1, <1>2, <2>1, <2>3, AccountKept
  <2>5. accepted[x] >= 1 /\ record[x].status # "none"
    BY <1>1, <1>2, <1>b, <2>1 DEF Follows, Through
  <2>6. Follows(x)'
    BY <1>2, <2>1, <2>5 DEF Follows
  <2>7. QED
    BY <2>4, <2>6
<1>8. CASE MarkFailed(d)
  <2>1. /\ record' = SetStatus(x, "failed") /\ UNCHANGED <<accepted, entry, crossed>>
        /\ failures' = [failures EXCEPT ![x] = @ + 1]
        /\ desk[d].pc = "fail" /\ desk' = Done(d)
    BY <1>8 DEF MarkFailed, Doing
  <2>2. /\ record'[x].status = "failed" /\ record'[x].retries = record[x].retries
        /\ desk'[d].pc = "idle" /\ failures'[x] = failures[x] + 1
    BY <1>0, <1>1, <2>1, StatusSet DEF OutreachTypeOK
  <2>3. Sending(x)' \subseteq Sending(x) /\ Asked(x)' >= Asked(x)
    BY <1>2, <1>3, <2>2 DEF Sending, Asked
  <2>4. accepted'[x] + Cardinality(Sending(x)') <= Asked(x)'
    BY <1>0, <1>1, <2>1, <2>3, AccountKept
  <2>5. \A e \in Desks : Through(e, x)' => Through(e, x)
    BY <1>3, <2>2 DEF Through
  <2>6. Follows(x)'
    BY <1>2, <2>1, <2>2, <2>5 DEF Follows
  <2>7. QED
    BY <2>4, <2>6
<1>9. CASE Retry(d)
  <2>1. /\ record' = Retried(x) /\ UNCHANGED <<accepted, entry, failures>>
        /\ crossed' = IF record[x].status = "failed" THEN crossed ELSE crossed \union {x}
        /\ desk[d].pc = "retry" /\ desk' = Becomes(d, "resend")
    BY <1>9 DEF Retry, Doing
  <2>2. /\ record'[x].status = "processing" /\ record'[x].retries = record[x].retries + 1
        /\ desk'[d].pc = "resend"
    BY <1>0, <1>1, <2>1 DEF Retried, OutreachTypeOK, Handing
  <2>3. record[x].status # "none"
    BY <1>b, <2>1
  <2>4. Sending(x)' \subseteq Sending(x) \union {d} /\ Asked(x)' = Asked(x) + 1
    BY <1>2, <1>3, <2>2, <2>3 DEF Sending, Asked
  <2>5. accepted'[x] + Cardinality(Sending(x)') <= Asked(x)'
    BY <1>0, <1>1, <2>1, <2>4, AccountAsked
  <2>6. \A e \in Desks : Through(e, x)' => Through(e, x)
    BY <1>3, <2>2 DEF Through
  <2>7. x \notin crossed' => record'[x].retries <= failures'[x]
    BY <1>2, <2>1, <2>2 DEF Follows
  <2>8. Follows(x)'
    BY <1>2, <2>1, <2>2, <2>6, <2>7 DEF Follows
  <2>9. QED
    BY <2>5, <2>8
<1>10. QED
  BY <1>4, <1>5, <1>6, <1>7, <1>8, <1>9 DEF HandOver

LEMMA DeliveryInvStep == DeliveryInv /\ [OutreachNext]_outreachVars => DeliveryInv'
<1> SUFFICES ASSUME DeliveryInv, [OutreachNext]_outreachVars
             PROVE  DeliveryInv'
  OBVIOUS
<1> DEFINE Kept(x) == accepted'[x] + Cardinality(Sending(x)') <= Asked(x)' /\ Follows(x)'
<1>0. OutreachTypeOK /\ OutreachTypeOK'
  BY OutreachTypeStep DEF DeliveryInv
<1> SUFFICES ASSUME NEW x \in Pairs
             PROVE  Kept(x)
  BY <1>0 DEF DeliveryInv, HandedAsAsked, DeliveriesFollow
<1>1. CASE UNCHANGED outreachVars
  BY <1>0, <1>1, LeadUndisturbed DEF outreachVars
<1>2. ASSUME NEW d \in Desks, NEW c \in Campaigns, NEW l \in OutreachLeads, SelectLead(d, c, l)
      PROVE  Kept(x)
  <2>1. UNCHANGED <<record, accepted, entry, failures, crossed>>
    BY <1>2 DEF SelectLead, deliveryHistory
  <2>2. desk'[d].pc = "claim" /\ \A e \in Desks \ {d} : desk'[e] = desk[e]
    BY <1>0, <1>2, StartRows
  <2>3. QED
    BY <1>0, <2>1, <2>2, LeadUndisturbed
<1>3. ASSUME NEW d \in Desks, NEW y \in Pairs, AskRetry(d, y)
      PROVE  Kept(x)
  <2>1. UNCHANGED <<record, accepted, entry, failures, crossed>> /\ record[y].status = "failed"
    BY <1>3 DEF AskRetry, deliveryHistory
  <2>2. desk'[d].pc = "retry" /\ desk'[d].at = y /\ \A e \in Desks \ {d} : desk'[e] = desk[e]
    BY <1>0, <1>3, StartRows
  <2>3. CASE x # y
    BY <1>0, <2>1, <2>2, <2>3, LeadUndisturbed
  <2>4. CASE x = y
    <3>1. Follows(x) /\ Asked(x) \in Nat
      BY <1>0, OutreachAssumption DEF DeliveryInv, DeliveriesFollow, Asked, OutreachTypeOK, RecordRows
    <3>2. \A e \in Desks : Through(e, x)' => Through(e, x)
      BY <2>2 DEF Through
    <3>3. Follows(x)'
      BY <2>1, <2>4, <3>1, <3>2 DEF Follows
    <3>4. Sending(x)' \subseteq Sending(x) /\ Asked(x)' = Asked(x)
      BY <2>1, <2>2 DEF Sending, Asked
    <3>5. accepted'[x] + Cardinality(Sending(x)') <= Asked(x)'
      BY <1>0, <2>1, <3>1, <3>4, AccountKept DEF DeliveryInv
    <3>6. QED
      BY <3>3, <3>5
  <2>5. QED
    BY <2>3, <2>4
<1>4. ASSUME NEW d \in Desks, NEW l \in OutreachLeads, ReadPermission(d, l)
      PROVE  Kept(x)
  <2>1. UNCHANGED <<record, accepted, entry, failures, crossed>>
    BY <1>4 DEF ReadPermission, deliveryHistory
  <2>2. desk'[d].pc = "permit" /\ \A e \in Desks \ {d} : desk'[e] = desk[e]
    BY <1>0, <1>4, StartRows
  <2>3. QED
    BY <1>0, <2>1, <2>2, LeadUndisturbed
<1>5. ASSUME NEW d \in Desks, HandOver(d)
      PROVE  Kept(x)
  BY <1>0, <1>5, OthersUndisturbed, HandedOver
<1>6. ASSUME NEW d \in Desks,
             DeskDies(d) \/ \E said \in PermissionRequests : RecordPermission(d, said)
      PROVE  Kept(x)
  <2>1. UNCHANGED <<record, accepted, entry, failures, crossed>> /\ desk' = Done(d)
    BY <1>6 DEF DeskDies, RecordPermission, deliveryHistory
  <2>2. desk'[d].pc = "idle" /\ \A e \in Desks \ {d} : desk'[e] = desk[e]
    BY <1>0, <2>1, HandingRows
  <2>3. QED
    BY <1>0, <2>1, <2>2, LeadUndisturbed
<1>7. ASSUME NEW y \in Pairs, NEW status \in CallStatuses, RecordCall(y, status)
      PROVE  Kept(x)
  <2>1. UNCHANGED <<record, accepted, desk, failures, crossed>>
    BY <1>7 DEF RecordCall, deliveryHistory
  <2>2. entry'[x] = entry[x] \/ (entry[x] # "none" /\ entry'[x] # "none")
    BY <1>0, <1>7 DEF RecordCall, OutreachTypeOK, CallStatuses
  <2>3. QED
    BY <1>0, <2>1, <2>2, LeadUndisturbed
<1>8. ASSUME NEW l \in OutreachLeads, Suppress(l) \/ Rescored(l) \/ \E decision \in Decisions : DecideLead(l, decision)
      PROVE  Kept(x)
  <2>1. UNCHANGED <<record, accepted, entry, desk, failures, crossed>>
    BY <1>8 DEF Suppress, Rescored, DecideLead, deliveryHistory
  <2>2. QED
    BY <1>0, <2>1, LeadUndisturbed
<1> HIDE DEF Kept
<1>9. QED
  BY <1>1, <1>2, <1>3, <1>4, <1>5, <1>6, <1>7, <1>8 DEF OutreachNext, HandOver

\* delivery/service.ts: the claim lets one first delivery in, a retry one more;
\* what is recorded or queued was handed over; a failure answers for each retry.
THEOREM DeliveryInductive == OutreachSpec => []DeliveryInv
BY DeliveryInvInit, DeliveryInvStep, PTL DEF OutreachSpec

\* delivery/service.ts and call-queue/service.ts: whatever runs of a campaign
\* overlap, fail, die or lose an answer, a destination is handed a lead once for
\* each time it was asked for; a retry has a failure of its own unless it crossed
\* another; and nobody is called who was not handed over.
THEOREM HandedOverAsAsked == OutreachSpec => []DeliveriesAreAsked
<1>1. DeliveryInv => DeliveriesAreAsked
  <2> SUFFICES ASSUME DeliveryInv, NEW x \in Pairs
               PROVE  /\ accepted[x] <= 1 + record[x].retries
                      /\ x \notin crossed => record[x].retries <= failures[x]
                      /\ Callable(x) => accepted[x] >= 1
    BY DEF DeliveriesAreAsked
  <2>1. /\ accepted[x] \in Nat /\ record[x].retries \in Nat
        /\ accepted[x] + Cardinality(Sending(x)) <= Asked(x) /\ Follows(x)
    BY OutreachAssumption DEF DeliveryInv, OutreachTypeOK, RecordRows, HandedAsAsked, DeliveriesFollow
  <2>2. Asked(x) = record[x].retries \/ Asked(x) = 1 + record[x].retries
    BY <2>1 DEF Asked
  <2>3. accepted[x] <= 1 + record[x].retries
    BY <2>1, <2>2, SendingIsFinite
  <2>4. QED
    BY <2>1, <2>3 DEF Follows, Callable
<1>2. QED
  BY <1>1, DeliveryInductive, PTL

-----------------------------------------------------------------------------
(* Outreach: refusals.  The row says a refusal for as long as nobody lifts *)
(* it, and nobody writes it over from a row read before.                   *)

Consented(p) == p.eligible => p.consent = "granted" /\ p.sourced /\ ~p.dnc /\ ~p.suppressed
Ways == {"calls", "texts"}
RefusalsInRows ==
  /\ \A l \in OutreachLeads : Consented(permission[l])
  /\ \A l \in OutreachLeads, way \in Ways : <<l, way>> \in refused \ overtaken => Bars(permission[l], way)

LEMMA RefusalsStep ==
  OutreachTypeOK /\ RefusalsInRows /\ [OutreachNext]_outreachVars => RefusalsInRows'
<1> SUFFICES ASSUME OutreachTypeOK, RefusalsInRows, [OutreachNext]_outreachVars
             PROVE  RefusalsInRows'
  OBVIOUS
<1>1. ASSUME UNCHANGED <<permission, refused, overtaken>> PROVE RefusalsInRows'
  BY <1>1 DEF RefusalsInRows, Bars
<1>2. ASSUME NEW k \in OutreachLeads, NEW row, permission' = [permission EXCEPT ![k] = row], Consented(row),
             \A l \in OutreachLeads \ {k}, way \in Ways :
               <<l, way>> \in (refused \ overtaken)' => <<l, way>> \in refused \ overtaken,
             \A way \in Ways : <<k, way>> \in (refused \ overtaken)' => Bars(row, way)
      PROVE  RefusalsInRows'
  <2>1. \A l \in OutreachLeads : permission'[l] = IF l = k THEN row ELSE permission[l]
    BY <1>2 DEF OutreachTypeOK
  <2>2. ASSUME NEW l \in OutreachLeads PROVE Consented(permission'[l])
    BY <1>2, <2>1 DEF RefusalsInRows
  <2>3. ASSUME NEW l \in OutreachLeads, NEW way \in Ways, <<l, way>> \in (refused \ overtaken)'
        PROVE  Bars(permission'[l], way)
    BY <1>2, <2>1, <2>3 DEF RefusalsInRows
  <2>4. QED
    BY <2>2, <2>3 DEF RefusalsInRows, Consented, Bars
<1>3. ASSUME NEW d \in Desks, EnqueueCall(d) PROVE RefusalsInRows'
  <2> DEFINE l == desk[d].at[2]
             row == [permission[l] EXCEPT !.candidate = TRUE]
  <2>1. l \in OutreachLeads
    <3>1. desk[d].at \in Pairs
      BY <1>3, HandOverRows DEF HandOver
    <3>2. QED
      BY <3>1 DEF Pairs
  <2>2. /\ permission' = permission \/ permission' = [permission EXCEPT ![l] = row]
        /\ UNCHANGED <<refused, overtaken>>
    BY <1>3 DEF EnqueueCall, Enqueued, refusals
  <2>3. permission[l] \in PermissionRows /\ Consented(permission[l])
    BY <2>1 DEF OutreachTypeOK, RefusalsInRows
  <2>4. Consented(row) /\ \A way \in Ways : Bars(row, way) <=> Bars(permission[l], way)
    BY <2>3 DEF PermissionRows, Consented, Bars
  <2> HIDE DEF row, l
  <2>5. \A way \in Ways : <<l, way>> \in (refused \ overtaken)' => Bars(row, way)
    BY <2>1, <2>2, <2>4 DEF RefusalsInRows
  <2>6. QED
    BY <1>1, <1>2, <2>1, <2>2, <2>4, <2>5
<1>4. ASSUME NEW d \in Desks, NEW said \in PermissionRequests, RecordPermission(d, said)
      PROVE  RefusalsInRows'
  <2> DEFINE l == desk[d].at
             seen == desk[d].seen
             row == Permitted(seen, said)
             Spoken == {<<l, way>> : way \in {w \in {"calls", "texts"} : ~Silent(said, w)}}
             Refusing == {<<l, way>> : way \in {w \in {"calls", "texts"} : Refuses(said, w)}}
  <2>1. l \in OutreachLeads
    BY <1>4, HandingRows DEF RecordPermission, Doing
  <2>2. /\ permission' = [permission EXCEPT ![l] = row]
        /\ refused' = (refused \ Spoken) \union Refusing
        /\ overtaken' = (overtaken \ Spoken) \union Overtakes(l, seen, said)
    BY <1>4 DEF RecordPermission
  <2>3. Consented(row)
    BY DEF Consented, Permitted
  <2>4. ASSUME NEW k \in OutreachLeads \ {l}, NEW way \in Ways
        PROVE  /\ <<k, way>> \notin Spoken /\ <<k, way>> \notin Refusing
               /\ <<k, way>> \notin Overtakes(l, seen, said)
    BY <2>4 DEF Overtakes
  <2>5. \A k \in OutreachLeads \ {l}, way \in Ways :
          <<k, way>> \in (refused \ overtaken)' => <<k, way>> \in refused \ overtaken
    BY <2>2, <2>4
  <2>6. ASSUME NEW way \in Ways, <<l, way>> \in (refused \ overtaken)' PROVE Bars(row, way)
    <3>1. /\ <<l, way>> \in Spoken <=> ~Silent(said, way)
          /\ <<l, way>> \in Refusing <=> Refuses(said, way)
          /\ <<l, way>> \in Overtakes(l, seen, said) <=>
               Silent(said, way) /\ Bars(permission[l], way) /\ ~Bars(seen, way)
      BY DEF Ways, Overtakes
    <3> HIDE DEF Spoken, Refusing, l, seen
    <3>2. CASE Silent(said, way)
      <4>1. ~Refuses(said, way)
        BY <3>2 DEF Silent, Refuses
      <4>2. <<l, way>> \in refused \ overtaken /\ <<l, way>> \notin Overtakes(l, seen, said)
        BY <2>2, <2>6, <3>1, <3>2, <4>1
      <4>3. Bars(permission[l], way)
        BY <2>1, <4>2 DEF RefusalsInRows
      <4>4. Bars(seen, way)
        BY <3>1, <3>2, <4>2, <4>3
      <4>5. QED
        BY <3>2, <4>4 DEF Bars, Silent, Permitted, Said
    <3>3. CASE ~Silent(said, way)
      <4>1. Refuses(said, way)
        BY <2>2, <2>6, <3>1, <3>3
      <4>2. QED
        BY <4>1 DEF Bars, Refuses, Permitted, Said
    <3>4. QED
      BY <3>2, <3>3
  <2> HIDE DEF row, l
  <2>7. QED
    BY <1>2, <2>1, <2>2, <2>3, <2>5, <2>6
<1>5. ASSUME NEW x \in Pairs, NEW status \in CallStatuses, RecordCall(x, status)
      PROVE  RefusalsInRows'
  <2> DEFINE l == x[2]
             row == RefusesContact(permission[l])
  <2>1. l \in OutreachLeads
    BY DEF Pairs
  <2>2. permission[l] \in PermissionRows
    BY <2>1 DEF OutreachTypeOK
  <2>3. /\ Consented(row) /\ row.dnc
        /\ Bars(permission[l], "texts") => Bars(row, "texts")
    BY <2>2 DEF PermissionRows, RefusesContact, Consented, Bars
  <2>4. CASE status = "do_not_contact"
    <3>1. /\ permission' = [permission EXCEPT ![l] = row]
          /\ refused' = refused \union {<<l, "calls">>} /\ overtaken' = overtaken \ {<<l, "calls">>}
      BY <1>5, <2>4 DEF RecordCall
    <3> HIDE DEF row, l
    <3>2. \A k \in OutreachLeads, way \in Ways :
            <<k, way>> # <<l, "calls">> =>
              (<<k, way>> \in (refused \ overtaken)' => <<k, way>> \in refused \ overtaken)
      BY <3>1
    <3>3. ASSUME NEW way \in Ways, <<l, way>> \in (refused \ overtaken)' PROVE Bars(row, way)
      <4>1. CASE way = "calls"
        BY <2>3, <4>1 DEF Bars
      <4>2. CASE way = "texts"
        BY <2>1, <2>3, <3>2, <3>3, <4>2 DEF RefusalsInRows
      <4>3. QED
        BY <4>1, <4>2 DEF Ways
    <3>4. QED
      BY <1>2, <2>1, <2>3, <3>1, <3>2, <3>3
  <2>5. CASE status # "do_not_contact"
    BY <1>1, <1>5, <2>5 DEF RecordCall, refusals
  <2>6. QED
    BY <2>4, <2>5
<1>6. ASSUME NEW d \in Desks,
             \/ Claim(d) \/ Send(d) \/ MarkDelivered(d) \/ MarkFailed(d) \/ Retry(d) \/ DeskDies(d)
             \/ \E c \in Campaigns, l \in OutreachLeads : SelectLead(d, c, l)
             \/ \E x \in Pairs : AskRetry(d, x)
             \/ \E l \in OutreachLeads : ReadPermission(d, l)
      PROVE  RefusalsInRows'
  <2>1. Claim(d) \/ Send(d) \/ MarkDelivered(d) => UNCHANGED <<permission, refused, overtaken>>
    BY DEF Claim, Send, MarkDelivered, leadRows, refusals
  <2>2. MarkFailed(d) \/ Retry(d) \/ DeskDies(d) => UNCHANGED <<permission, refused, overtaken>>
    BY DEF MarkFailed, Retry, DeskDies, leadRows, refusals
  <2>3. (\E c \in Campaigns, l \in OutreachLeads : SelectLead(d, c, l))
          => UNCHANGED <<permission, refused, overtaken>>
    BY DEF SelectLead, leadRows, refusals
  <2>4. (\E x \in Pairs : AskRetry(d, x)) => UNCHANGED <<permission, refused, overtaken>>
    BY DEF AskRetry, leadRows, refusals
  <2>5. (\E l \in OutreachLeads : ReadPermission(d, l)) => UNCHANGED <<permission, refused, overtaken>>
    BY DEF ReadPermission, leadRows, refusals
  <2>6. QED
    BY <1>1, <1>6, <2>1, <2>2, <2>3, <2>4, <2>5
<1>7. ASSUME NEW l \in OutreachLeads,
             Suppress(l) \/ Rescored(l) \/ \E decision \in Decisions : DecideLead(l, decision)
      PROVE  RefusalsInRows'
  BY <1>1, <1>7 DEF Suppress, Rescored, DecideLead, refusals
<1>8. CASE UNCHANGED outreachVars
  BY <1>1, <1>8 DEF outreachVars
<1>9. QED
  BY <1>3, <1>4, <1>5, <1>6, <1>7, <1>8 DEF OutreachNext

\* permissions.ts and call-queue/service.ts: whatever calls, decisions,
\* deliveries and permission records follow it, a refusal keeps a lead from being
\* delivered, called and texted until somebody lifts it, unless a record made
\* from an older row writes over it; and texts need a consent of known source.
THEOREM RefusalsHold == OutreachSpec => []RefusalStands
<1>1. OutreachInit => RefusalsInRows
  BY DEF OutreachInit, RefusalsInRows, NoPermission, Consented
<1>2. RefusalsInRows => RefusalStands
  <2> SUFFICES ASSUME RefusalsInRows PROVE RefusalStands
    OBVIOUS
  <2>1. ASSUME NEW l \in OutreachLeads, NEW way \in Ways, <<l, way>> \in refused \ overtaken
        PROVE  RefusalHeld(l, way)
    <3>1. Consented(permission[l]) /\ Bars(permission[l], way)
      BY <2>1 DEF RefusalsInRows
    <3>2. ~Open(l)
      BY <3>1 DEF Open, Consented, Bars
    <3>3. way = "calls" => permission[l].dnc
      BY <3>1 DEF Bars
    <3>4. QED
      BY <3>2, <3>3 DEF RefusalHeld, Qualified, Callable
  <2>2. \A l \in OutreachLeads : Consented(permission[l])
    BY DEF RefusalsInRows
  <2>3. QED
    BY <2>1, <2>2 DEF RefusalStands, Consented, Open, Ways
<1>3. QED
  BY <1>1, <1>2, RefusalsStep, OutreachTypes, PTL DEF OutreachSpec

-----------------------------------------------------------------------------
(* Demos: types.                                                           *)

LEMMA FindingsTyped ==
  ASSUME NEW f \in ValidForms, NEW found \in HomepageFindings(f)
  PROVE  Presentation(f, found) \in Presentations
<1>1. ChosenModules(f) \subseteq DemoModules
  BY DEF ValidForms, FormValid
<1>2. found \in Researched
  BY DEF HomepageFindings, Researched
<1>3. QED
  BY <1>1, <1>2 DEF Presentation, Presentations

LEMMA DemoTypeInit == DemoBuilderInit => DemoBuilderTypeOK
<1> SUFFICES ASSUME DemoBuilderInit
             PROVE  DemoBuilderTypeOK
  OBVIOUS
<1>1. NoPresentation \in Presentations
  BY DEF NoPresentation, Presentations, Researched
<1>2. NoDemo \in DemoRows
  BY <1>1, DemoBuilderAssumption DEF NoDemo, DemoRows
<1>3. BlankTab \in TabRows /\ IsFiniteSet(visits)
  BY FS_EmptySet DEF TabRows, DemoBuilderInit
<1>4. QED
  BY <1>1, <1>2, <1>3 DEF DemoBuilderInit, DemoBuilderTypeOK

\* What a tab holds, by what it shows.
LEMMA TabShows ==
  ASSUME DemoBuilderTypeOK, NEW o \in Operators
  PROVE  /\ tab[o] \in TabRows
         /\ tab[o].shows \in {"creating", "page", "form", "saving"} =>
              tab[o].demo \in Demos /\ demo[tab[o].demo] \in DemoRows
         /\ tab[o].shows \in {"creating", "saving"} => tab[o].form \in ValidForms
         /\ tab[o].shows \in {"page", "form", "saving"} =>
              tab[o].version \in Nat /\ tab[o].presentation \in Presentations
         /\ tab[o].shows \in {"creating", "page", "form", "saving"} <=> tab[o] # BlankTab
         /\ \A q \in TabRows : [tab EXCEPT ![o] = q] \in [Operators -> TabRows]
<1>1. tab[o] \in TabRows
  BY DEF DemoBuilderTypeOK
<1>2. CASE tab[o] = BlankTab
  BY <1>1, <1>2 DEF DemoBuilderTypeOK, BlankTab
<1>3. CASE tab[o] \in [shows : {"creating"}, demo : Demos, form : ValidForms]
  BY <1>1, <1>3 DEF DemoBuilderTypeOK, BlankTab
<1>4. CASE tab[o] \in [shows : {"page", "form"}, demo : Demos, version : Nat, presentation : Presentations]
  BY <1>1, <1>4 DEF DemoBuilderTypeOK, BlankTab
<1>5. CASE tab[o] \in [shows : {"saving"}, demo : Demos, version : Nat, form : ValidForms,
                       presentation : Presentations]
  BY <1>1, <1>5 DEF DemoBuilderTypeOK, BlankTab
<1>6. QED
  BY <1>1, <1>2, <1>3, <1>4, <1>5 DEF TabRows

\* Operations that leave the tabs and demos but for one row each.
DemoBecomes(d, row) ==
  /\ row \in DemoRows
  /\ demo' = [demo EXCEPT ![d] = row]

\* What saving, publishing and archiving have in common: the version of the
\* form is the one of the row, and the next one is written.
NextVersion(o) ==
  LET d == tab[o].demo IN
  /\ tab[o].version = demo[d].version
  /\ \E row \in DemoRows :
       /\ DemoBecomes(d, row) /\ row.version = demo[d].version + 1 /\ row.status # "none"
       /\ row.count = demo[d].count
       /\ row.status = "published" =>
            /\ tab[o].shows = "page" /\ row.presentation = demo[d].presentation
            /\ reviewed' = [reviewed EXCEPT ![d] = tab[o].presentation]
  /\ reviewed' = reviewed \/ reviewed' = [reviewed EXCEPT ![d] = tab[o].presentation]
  /\ tab' = [tab EXCEPT ![o] = BlankTab]
  /\ UNCHANGED <<visits, report, prospects>>

LEMMA VersionSteps ==
  ASSUME DemoBuilderTypeOK, NEW o \in Operators, SaveEdit(o) \/ Publish(o) \/ ArchiveDemo(o)
  PROVE  /\ tab[o].shows \in {"page", "saving"}
         /\ Publish(o) => tab[o].shows = "page"
         /\ NextVersion(o)
<1> DEFINE d == tab[o].demo
<1>1. tab[o].shows \in {"page", "saving"} /\ (Publish(o) => tab[o].shows = "page")
  BY DEF SaveEdit, Publish, ArchiveDemo
<1>2. /\ d \in Demos /\ demo[d] \in DemoRows /\ tab[o].presentation \in Presentations
      /\ demo[d].version + 1 \in Nat
  BY <1>1, TabShows DEF DemoRows
<1>3. tab[o].version = demo[d].version /\ tab' = [tab EXCEPT ![o] = BlankTab] /\ UNCHANGED <<visits, report, prospects>>
  BY DEF SaveEdit, Publish, ArchiveDemo, SameDemoVersion
<1>4. CASE SaveEdit(o)
  <2> DEFINE row == Edited(demo[d], tab[o].presentation)
  <2>1. /\ row \in DemoRows /\ row.version = demo[d].version + 1 /\ row.status = "draft"
        /\ row.count = demo[d].count
    BY <1>2 DEF DemoRows, Edited
  <2>2. demo' = [demo EXCEPT ![d] = row] /\ reviewed' = reviewed
    BY <1>4 DEF SaveEdit
  <2> HIDE DEF row
  <2>3. QED
    BY <1>1, <1>3, <2>1, <2>2 DEF NextVersion, DemoBecomes
<1>5. CASE Publish(o)
  <2> DEFINE row == Published(demo[d])
  <2>1. /\ row \in DemoRows /\ row.version = demo[d].version + 1 /\ row.status = "published"
        /\ row.count = demo[d].count /\ row.presentation = demo[d].presentation
    BY <1>2 DEF DemoRows, Published
  <2>2. demo' = [demo EXCEPT ![d] = row] /\ reviewed' = [reviewed EXCEPT ![d] = tab[o].presentation]
    BY <1>5 DEF Publish
  <2> HIDE DEF row
  <2>3. QED
    BY <1>1, <1>5, <1>3, <2>1, <2>2 DEF NextVersion, DemoBecomes
<1>6. CASE ArchiveDemo(o)
  <2> DEFINE row == Archived(demo[d])
  <2>1. /\ row \in DemoRows /\ row.version = demo[d].version + 1 /\ row.status = "archived"
        /\ row.count = demo[d].count
    BY <1>2 DEF DemoRows, Archived
  <2>2. demo' = [demo EXCEPT ![d] = row] /\ reviewed' = reviewed
    BY <1>6 DEF ArchiveDemo
  <2> HIDE DEF row
  <2>3. QED
    BY <1>1, <1>3, <2>1, <2>2 DEF NextVersion, DemoBecomes
<1>7. QED
  BY <1>4, <1>5, <1>6

\* The creation writes the first version.
LEMMA CreationStep ==
  ASSUME DemoBuilderTypeOK, NEW o \in Operators, CreateDemo(o)
  PROVE  /\ tab[o].shows = "creating" /\ tab' = [tab EXCEPT ![o] = BlankTab]
         /\ UNCHANGED <<visits, report, prospects, reviewed>>
         /\ \E row \in DemoRows : /\ DemoBecomes(tab[o].demo, row) /\ row.version = 1
                                  /\ row.status = "draft" /\ row.count = demo[tab[o].demo].count
<1> DEFINE d == tab[o].demo
<1>1. /\ tab[o].shows = "creating" /\ tab' = [tab EXCEPT ![o] = BlankTab]
      /\ UNCHANGED <<visits, report, prospects, reviewed>>
  BY DEF CreateDemo
<1>2. d \in Demos /\ demo[d] \in DemoRows /\ tab[o].form \in ValidForms
  BY <1>1, TabShows
<1>3. PICK found \in HomepageFindings(tab[o].form) :
        demo' = [demo EXCEPT ![d] = Created(demo[d], Presentation(tab[o].form, found))]
  BY DEF CreateDemo
<1> DEFINE shown == Presentation(tab[o].form, found)
<1>4. shown \in Presentations
  BY <1>2, FindingsTyped
<1> HIDE DEF shown
<1> DEFINE row == Created(demo[d], shown)
<1>5. row \in DemoRows /\ row.version = 1 /\ row.status = "draft" /\ row.count = demo[d].count
  BY <1>2, <1>4 DEF DemoRows, Created
<1>6. demo' = [demo EXCEPT ![d] = row]
  BY <1>2, <1>3, TabShows DEF shown
<1> HIDE DEF row
<1>7. QED
  BY <1>1, <1>5, <1>6 DEF DemoBecomes

\* A visitor's link ends.
LEMMA LinkEndsStep ==
  ASSUME DemoBuilderTypeOK, NEW d \in Demos, LinkEnds(d)
  PROVE  \E row \in DemoRows :
           /\ DemoBecomes(d, row) /\ row.over /\ row.version = demo[d].version
           /\ row.status = demo[d].status /\ row.count = demo[d].count
           /\ row.presentation = demo[d].presentation
<1> DEFINE row == [demo[d] EXCEPT !.over = TRUE]
<1>1. /\ row \in DemoRows /\ row.over /\ row.version = demo[d].version
      /\ row.status = demo[d].status /\ row.count = demo[d].count
      /\ row.presentation = demo[d].presentation
  BY DEF DemoRows, DemoBuilderTypeOK
<1>2. demo' = [demo EXCEPT ![d] = row]
  BY DEF LinkEnds, DemoBuilderTypeOK
<1> HIDE DEF row
<1>3. QED
  BY <1>1, <1>2 DEF DemoBecomes

\* An event is counted once and while the link is open, or not at all.
LEMMA RecordStep ==
  ASSUME DemoBuilderTypeOK, NEW s \in Sessions, RecordEvent(s)
  PROVE  /\ report' = [report EXCEPT ![s] = NoReport] /\ UNCHANGED <<tab, prospects, reviewed>>
         /\ \/ UNCHANGED <<visits, demo>>
            \/ \E v \in EventRows \ visits, row \in DemoRows :
                 /\ v[1] \in Demos /\ CanView(v[1]) /\ visits' = visits \union {v}
                 /\ DemoBecomes(v[1], row) /\ row.version = demo[v[1]].version
                 /\ row.status = demo[v[1]].status /\ row.over = demo[v[1]].over
                 /\ row.presentation = demo[v[1]].presentation /\ row.count = demo[v[1]].count + 1
<1> DEFINE v == report[s]
           d == report[s][1]
<1>1. v \in EventRows
  BY DEF RecordEvent, DemoBuilderTypeOK
<1>2. d \in Demos
  BY <1>1 DEF EventRows
<1>3. report' = [report EXCEPT ![s] = NoReport] /\ UNCHANGED <<tab, prospects, reviewed>>
  BY DEF RecordEvent
<1>4. CASE v \notin visits /\ Counted(d)
  <2> DEFINE n == demo[d].count + 1
             row == [demo[d] EXCEPT !.count = n]
  <2>1. demo[d] \in DemoRows /\ n \in 0 .. EventCap
    BY <1>2, <1>4, DemoBuilderAssumption DEF Counted, DemoBuilderTypeOK, DemoRows
  <2>2. demo' = [demo EXCEPT ![d] = [demo[d] EXCEPT !.count = n]] /\ visits' = visits \union {v}
    BY <1>2, <1>4 DEF RecordEvent, DemoBuilderTypeOK
  <2> HIDE DEF n
  <2>3. /\ row \in DemoRows /\ row.version = demo[d].version /\ row.status = demo[d].status
        /\ row.over = demo[d].over /\ row.presentation = demo[d].presentation /\ row.count = n
    BY <2>1 DEF DemoRows
  <2> HIDE DEF row
  <2>4. DemoBecomes(d, row)
    BY <2>2, <2>3 DEF DemoBecomes, row
  <2>5. QED
    BY <1>1, <1>2, <1>3, <1>4, <2>2, <2>3, <2>4 DEF Counted, n
<1>5. CASE ~(v \notin visits /\ Counted(d))
  BY <1>3, <1>5 DEF RecordEvent
<1>6. QED
  BY <1>4, <1>5

\* What a step does: the tab of one operator changes, or the row of one demo is
\* written by the operator who holds it, or the row is refreshed by a visitor.
TabTurns(o, q) ==
  /\ q \in TabRows /\ tab' = [tab EXCEPT ![o] = q]
  /\ UNCHANGED <<demo, visits, report, prospects, reviewed>>

LEMMA SubmitCreationStep ==
  ASSUME DemoBuilderTypeOK, NEW o \in Operators, NEW d \in Demos, NEW f \in DemoForms, SubmitCreation(o, d, f)
  PROVE  \E q \in TabRows : /\ TabTurns(o, q) /\ q.shows = "creating" /\ q.demo = d
                            /\ demo[d].status = "none" /\ ~BeingCreated(d)
<1> DEFINE q == [shows |-> "creating", demo |-> d, form |-> f]
<1>1. q \in TabRows /\ q.shows = "creating" /\ q.demo = d
  BY DEF SubmitCreation, TabRows, ValidForms
<1>2. TabTurns(o, q) /\ demo[d].status = "none" /\ ~BeingCreated(d)
  BY <1>1 DEF SubmitCreation, TabTurns
<1> HIDE DEF q
<1>3. QED
  BY <1>1, <1>2

LEMMA OpenStep ==
  ASSUME DemoBuilderTypeOK, NEW o \in Operators, NEW d \in Demos, NEW shows \in {"page", "form"},
         OpenDemo(o, d, shows)
  PROVE  \E q \in TabRows : /\ TabTurns(o, q) /\ q.shows \in {"page", "form"} /\ q.demo = d
                            /\ q.version = demo[d].version /\ q.presentation = demo[d].presentation
                            /\ demo[d].status # "none"
<1> DEFINE q == [shows |-> shows, demo |-> d, version |-> demo[d].version, presentation |-> demo[d].presentation]
<1>1. demo[d].version \in Nat /\ demo[d].presentation \in Presentations
  BY DEF DemoBuilderTypeOK, DemoRows
<1>2. /\ q \in TabRows /\ q.shows \in {"page", "form"} /\ q.demo = d
      /\ q.version = demo[d].version /\ q.presentation = demo[d].presentation
  BY <1>1 DEF TabRows
<1>3. TabTurns(o, q) /\ demo[d].status # "none"
  BY <1>2 DEF OpenDemo, TabTurns
<1> HIDE DEF q
<1>4. QED
  BY <1>2, <1>3

LEMMA SubmitEditStep ==
  ASSUME DemoBuilderTypeOK, NEW o \in Operators, NEW f \in DemoForms, SubmitEdit(o, f)
  PROVE  \E q \in TabRows : /\ TabTurns(o, q) /\ q.shows = "saving" /\ tab[o].shows = "form"
                            /\ q.demo = tab[o].demo /\ q.version = tab[o].version
<1>1. tab[o].shows = "form" /\ f \in ValidForms
  BY DEF SubmitEdit, ValidForms
<1>2. tab[o].demo \in Demos /\ tab[o].version \in Nat
  BY <1>1, TabShows
<1>3. PICK found \in HomepageFindings(f) :
        tab' = [tab EXCEPT ![o] =
          [shows |-> "saving", demo |-> tab[o].demo, version |-> tab[o].version, form |-> f,
           presentation |-> Presentation(f, found)]]
  BY DEF SubmitEdit
<1> DEFINE shown == Presentation(f, found)
           q == [shows |-> "saving", demo |-> tab[o].demo, version |-> tab[o].version, form |-> f,
                 presentation |-> shown]
<1>4. shown \in Presentations
  BY <1>1, FindingsTyped
<1>5. tab' = [tab EXCEPT ![o] = q]
  BY <1>3
<1> HIDE DEF shown
<1>6. q \in TabRows /\ q.shows = "saving" /\ q.demo = tab[o].demo /\ q.version = tab[o].version
  BY <1>1, <1>2, <1>4 DEF TabRows
<1> HIDE DEF q
<1>7. TabTurns(o, q)
  BY <1>5, <1>6 DEF TabTurns, SubmitEdit
<1>8. QED
  BY <1>1, <1>6, <1>7

LEMMA CloseStep ==
  ASSUME NEW o \in Operators, CloseTab(o)
  PROVE  TabTurns(o, BlankTab)
<1>1. BlankTab \in TabRows
  BY DEF TabRows
<1>2. QED
  BY <1>1 DEF CloseTab, TabTurns

\* Every step keeps the types.
LEMMA DemoTypeStep == DemoBuilderTypeOK /\ [DemoBuilderNext]_demoBuilderVars => DemoBuilderTypeOK'
<1> SUFFICES ASSUME DemoBuilderTypeOK, [DemoBuilderNext]_demoBuilderVars
             PROVE  DemoBuilderTypeOK'
  OBVIOUS
<1> DEFINE Goal == DemoBuilderTypeOK'
<1>0. BlankTab \in TabRows
  BY DEF TabRows
<1>1. ASSUME NEW o \in Operators, NEW q \in TabRows, TabTurns(o, q) PROVE Goal
  BY <1>1 DEF TabTurns, DemoBuilderTypeOK
<1>2. ASSUME NEW o \in Operators, NEW d \in Demos, NEW f \in DemoForms, SubmitCreation(o, d, f) PROVE Goal
  <2> HIDE DEF Goal
  <2>1. QED
    BY <1>1, <1>2, SubmitCreationStep
<1>3. ASSUME NEW o \in Operators, NEW d \in Demos, NEW shows \in {"page", "form"}, OpenDemo(o, d, shows) PROVE Goal
  <2> HIDE DEF Goal
  <2>1. QED
    BY <1>1, <1>3, OpenStep
<1>4. ASSUME NEW o \in Operators, NEW f \in DemoForms, SubmitEdit(o, f) PROVE Goal
  <2> HIDE DEF Goal
  <2>1. QED
    BY <1>1, <1>4, SubmitEditStep
<1>5. ASSUME NEW o \in Operators, CloseTab(o) PROVE Goal
  <2> HIDE DEF Goal
  <2>1. QED
    BY <1>0, <1>1, <1>5, CloseStep
<1>6. ASSUME NEW o \in Operators, CreateDemo(o) PROVE Goal
  BY <1>0, <1>6, CreationStep DEF DemoBecomes, DemoBuilderTypeOK
<1>7. ASSUME NEW o \in Operators, SaveEdit(o) \/ Publish(o) \/ ArchiveDemo(o) PROVE Goal
  <2>1. NextVersion(o) /\ tab[o].shows \in {"page", "saving"}
    BY <1>7, VersionSteps
  <2>2. tab[o].presentation \in Presentations
    BY <2>1, TabShows
  <2>3. reviewed' \in [Demos -> Presentations]
    BY <2>1, <2>2 DEF NextVersion, DemoBuilderTypeOK
  <2>4. QED
    BY <1>0, <2>1, <2>3 DEF NextVersion, DemoBecomes, DemoBuilderTypeOK
<1>8. ASSUME NEW p \in LinkedProspects, RemoveProspect(p) PROVE Goal
  BY <1>8 DEF RemoveProspect, DemoBuilderTypeOK
<1>9. ASSUME NEW d \in Demos, LinkEnds(d) PROVE Goal
  <2>1. demo' \in [Demos -> DemoRows]
    BY <1>9, LinkEndsStep DEF DemoBecomes, DemoBuilderTypeOK
  <2>2. QED
    BY <1>9, <2>1 DEF LinkEnds, DemoBuilderTypeOK
<1>10. ASSUME NEW s \in Sessions, NEW d \in Demos, NEW kind \in AllowedEvents(d), ReportEvent(s, d, kind)
       PROVE  Goal
  <2>1. demo[d].presentation.modules \subseteq DemoModules
    BY DEF DemoBuilderTypeOK, DemoRows, Presentations
  <2>2. kind \in EventKinds
    BY <2>1, <1>10 DEF AllowedEvents, EventKinds
  <2>3. report' \in [Sessions -> EventRows \union {NoReport}]
    BY <1>10, <2>2 DEF ReportEvent, EventRows, DemoBuilderTypeOK
  <2>4. QED
    BY <1>10, <2>3 DEF ReportEvent, DemoBuilderTypeOK
<1>11. ASSUME NEW s \in Sessions, RecordEvent(s) PROVE Goal
  <2>1. report' \in [Sessions -> EventRows \union {NoReport}]
    BY <1>11, RecordStep DEF DemoBuilderTypeOK
  <2>2. demo' \in [Demos -> DemoRows] /\ visits' \subseteq EventRows
    BY <1>11, RecordStep DEF DemoBecomes, DemoBuilderTypeOK
  <2>3. IsFiniteSet(visits')
    BY <1>11, RecordStep, FS_AddElement DEF DemoBuilderTypeOK
  <2>4. QED
    BY <1>11, <2>1, <2>2, <2>3, RecordStep DEF DemoBuilderTypeOK
<1>12. ASSUME UNCHANGED demoBuilderVars PROVE Goal
  BY <1>12 DEF demoBuilderVars, DemoBuilderTypeOK
<1> HIDE DEF Goal
<1>13. ASSUME NEW o \in Operators, CreateDemo(o) \/ SaveEdit(o) \/ Publish(o) \/ ArchiveDemo(o) \/ CloseTab(o)
       PROVE  Goal
  BY <1>5, <1>6, <1>7, <1>13
<1>14. ASSUME NEW o \in Operators, NEW d \in Demos,
              \/ \E f \in DemoForms : SubmitCreation(o, d, f)
              \/ \E shows \in {"page", "form"} : OpenDemo(o, d, shows)
       PROVE  Goal
  BY <1>2, <1>3, <1>14
<1>15. ASSUME NEW s \in Sessions, NEW d \in Demos, \E kind \in AllowedEvents(d) : ReportEvent(s, d, kind)
       PROVE  Goal
  BY <1>10, <1>15
<1>16. ASSUME DemoBuilderNext PROVE Goal
  BY <1>4, <1>8, <1>9, <1>11, <1>13, <1>14, <1>15, <1>16 DEF DemoBuilderNext
<1>17. Goal
  BY <1>12, <1>16
<1>18. QED
  BY <1>17 DEF Goal

-----------------------------------------------------------------------------
(* Demos: what the link shows.                                             *)

\* A creation that is under way is the only one of its request, and its row is
\* not there yet; a page or form is of a row that is there, and not ahead of it;
\* one whose version is still the row's shows what the row holds.
TabsAreOld ==
  \A o \in Operators :
    /\ tab[o].shows = "creating" =>
         /\ demo[tab[o].demo].status = "none"
         /\ \A other \in Operators :
              tab[other].shows = "creating" /\ tab[other].demo = tab[o].demo => other = o
    /\ tab[o].shows \in {"page", "form", "saving"} =>
         demo[tab[o].demo].status # "none" /\ tab[o].version <= demo[tab[o].demo].version
    /\ tab[o].shows \in {"page", "form"} /\ tab[o].version = demo[tab[o].demo].version =>
         tab[o].presentation = demo[tab[o].demo].presentation

DemoInv == DemoBuilderTypeOK /\ TabsAreOld /\ PublishedWasReviewed

LEMMA DemoInvInit == DemoBuilderInit => DemoInv
<1> SUFFICES ASSUME DemoBuilderInit
             PROVE  DemoInv
  OBVIOUS
<1>1. \A o \in Operators : tab[o].shows = "blank"
  BY DEF DemoBuilderInit, BlankTab
<1>2. \A d \in Demos : ~CanView(d)
  BY DEF DemoBuilderInit, CanView, NoDemo
<1>3. QED
  BY <1>1, <1>2, DemoTypeInit DEF DemoInv, TabsAreOld, PublishedWasReviewed

\* Only tabs turned, and the tab that did shows the row as it is.
LEMMA TurnedTabs ==
  ASSUME DemoInv, NEW o \in Operators, NEW q \in TabRows, TabTurns(o, q),
         q.shows = "creating" =>
           demo[q.demo].status = "none" /\ ~BeingCreated(q.demo),
         q.shows \in {"page", "form", "saving"} =>
           demo[q.demo].status # "none" /\ q.version <= demo[q.demo].version,
         q.shows \in {"page", "form"} /\ q.version = demo[q.demo].version =>
           q.presentation = demo[q.demo].presentation
  PROVE  TabsAreOld' /\ PublishedWasReviewed'
<1>1. /\ demo' = demo /\ reviewed' = reviewed /\ tab'[o] = q
      /\ \A other \in Operators \ {o} : tab'[other] = tab[other]
  BY DEF TabTurns, DemoInv, DemoBuilderTypeOK
<1>2. PublishedWasReviewed'
  BY <1>1 DEF DemoInv, PublishedWasReviewed, CanView
<1>3. \A other \in Operators : ~(q.shows = "creating" /\ tab[other].shows = "creating" /\ tab[other].demo = q.demo)
  BY DEF BeingCreated
<1>4. TabsAreOld'
  BY <1>1, <1>3 DEF DemoInv, TabsAreOld
<1>5. QED
  BY <1>2, <1>4

\* A row is written by the operator whose tab is closed by it: every other tab
\* on the demo is then behind, and none of them is making it.
LEMMA WrittenRow ==
  ASSUME DemoInv, NEW o \in Operators, NEW d \in Demos, NEW row \in DemoRows,
         DemoBecomes(d, row), row.status # "none", tab' = [tab EXCEPT ![o] = BlankTab],
         \A other \in Operators \ {o} :
           /\ tab[other].shows # "blank" /\ tab[other].demo = d =>
                tab[other].shows # "creating" /\ tab[other].version < row.version
  PROVE  TabsAreOld'
<1>1. /\ tab'[o].shows = "blank" /\ demo'[d] = row
      /\ \A other \in Operators \ {o} : tab'[other] = tab[other]
      /\ \A e \in Demos \ {d} : demo'[e] = demo[e]
  BY DEF DemoBecomes, DemoInv, DemoBuilderTypeOK, BlankTab
<1>2. row.version \in Nat
  BY DEF DemoRows
<1>3. ASSUME NEW p \in Operators PROVE
        /\ tab'[p].shows = "creating" =>
             /\ demo'[tab'[p].demo].status = "none"
             /\ \A other \in Operators :
                  tab'[other].shows = "creating" /\ tab'[other].demo = tab'[p].demo => other = p
        /\ tab'[p].shows \in {"page", "form", "saving"} =>
             demo'[tab'[p].demo].status # "none" /\ tab'[p].version <= demo'[tab'[p].demo].version
        /\ tab'[p].shows \in {"page", "form"} /\ tab'[p].version = demo'[tab'[p].demo].version =>
             tab'[p].presentation = demo'[tab'[p].demo].presentation
  <2>1. CASE p = o
    BY <1>1, <2>1
  <2>2. CASE p # o /\ tab[p].demo = d
    <3>1. tab[p].shows \in {"page", "form", "saving"} => tab[p].version \in Nat
      BY TabShows DEF DemoInv
    <3>2. QED
      BY <1>1, <1>2, <2>2, <3>1
  <2>3. CASE p # o /\ tab[p].demo # d
    <3>1. tab[p].shows \in {"creating", "page", "form", "saving"} => tab[p].demo \in Demos \ {d}
      BY <2>3, TabShows DEF DemoInv
    <3>2. QED
      BY <1>1, <2>3, <3>1 DEF DemoInv, TabsAreOld
  <2>4. QED
    BY <2>1, <2>2, <2>3
<1>4. QED
  BY <1>3 DEF TabsAreOld

\* A visitor changes nothing of a row that a tab can show.
LEMMA RefreshedRow ==
  ASSUME DemoInv, NEW d \in Demos, NEW row \in DemoRows, DemoBecomes(d, row),
         row.version = demo[d].version, row.status = demo[d].status,
         row.presentation = demo[d].presentation, ~row.over => ~demo[d].over,
         UNCHANGED <<tab, reviewed>>
  PROVE  TabsAreOld' /\ PublishedWasReviewed'
<1>1. demo'[d] = row /\ \A e \in Demos \ {d} : demo'[e] = demo[e]
  BY DEF DemoBecomes, DemoInv, DemoBuilderTypeOK
<1>2. \A e \in Demos : /\ demo'[e].version = demo[e].version /\ demo'[e].status = demo[e].status
                       /\ demo'[e].presentation = demo[e].presentation
  BY <1>1
<1>3. \A e \in Demos : CanView(e)' => CanView(e)
  BY <1>1 DEF CanView
<1>4. PublishedWasReviewed'
  BY <1>2, <1>3 DEF DemoInv, PublishedWasReviewed
<1>5. \A o \in Operators : tab[o].shows \in {"creating", "page", "form", "saving"} => tab[o].demo \in Demos
  BY TabShows DEF DemoInv
<1>6. TabsAreOld'
  BY <1>2, <1>5 DEF DemoInv, TabsAreOld
<1>7. QED
  BY <1>4, <1>6

\* Saving, publishing, archiving.
LEMMA NextVersionKeeps ==
  ASSUME DemoInv, NEW o \in Operators, SaveEdit(o) \/ Publish(o) \/ ArchiveDemo(o)
  PROVE  TabsAreOld' /\ PublishedWasReviewed'
<1> DEFINE d == tab[o].demo
<1>1. /\ tab[o].shows \in {"page", "saving"} /\ NextVersion(o)
      /\ d \in Demos /\ demo[d] \in DemoRows /\ demo[d].status # "none"
  BY VersionSteps, TabShows DEF DemoInv, TabsAreOld
<1>2. tab[o].shows = "page" => tab[o].presentation = demo[d].presentation
  BY <1>1 DEF NextVersion, DemoInv, TabsAreOld
<1>3. PICK row \in DemoRows :
        /\ DemoBecomes(d, row) /\ row.version = demo[d].version + 1 /\ row.status # "none"
        /\ row.status = "published" =>
             /\ tab[o].shows = "page" /\ row.presentation = demo[d].presentation
             /\ reviewed' = [reviewed EXCEPT ![d] = tab[o].presentation]
  BY <1>1 DEF NextVersion
<1>4. ASSUME NEW other \in Operators \ {o}, tab[other].shows # "blank", tab[other].demo = d
      PROVE  tab[other].shows # "creating" /\ tab[other].version < row.version
  <2>1. tab[other].shows \in {"creating", "page", "form", "saving"}
    BY <1>4, TabShows DEF BlankTab, DemoInv
  <2>2. tab[other].shows # "creating"
    BY <1>1, <1>4 DEF DemoInv, TabsAreOld
  <2>3. tab[other].version \in Nat /\ tab[other].version <= demo[d].version /\ demo[d].version \in Nat
    BY <1>1, <1>4, <2>1, <2>2, TabShows DEF DemoInv, TabsAreOld, DemoRows
  <2>4. QED
    BY <1>3, <2>2, <2>3
<1>5. tab' = [tab EXCEPT ![o] = BlankTab]
  BY <1>1 DEF NextVersion
<1>6. TabsAreOld'
  BY <1>1, <1>3, <1>4, <1>5, WrittenRow
<1>7. ASSUME NEW e \in Demos, CanView(e)'
      PROVE  demo'[e].presentation = reviewed'[e]
  <2>1. CASE e = d
    BY <1>1, <1>2, <1>3, <1>7, <2>1 DEF DemoBecomes, CanView, DemoInv, DemoBuilderTypeOK
  <2>2. CASE e # d
    <3>1. demo'[e] = demo[e] /\ reviewed'[e] = reviewed[e]
      BY <1>1, <1>3, <2>2 DEF DemoBecomes, NextVersion, DemoInv, DemoBuilderTypeOK
    <3>2. QED
      BY <1>7, <3>1 DEF CanView, DemoInv, PublishedWasReviewed
  <2>3. QED
    BY <2>1, <2>2
<1>8. QED
  BY <1>6, <1>7 DEF PublishedWasReviewed

LEMMA CreationKeeps ==
  ASSUME DemoInv, NEW o \in Operators, CreateDemo(o)
  PROVE  TabsAreOld' /\ PublishedWasReviewed'
<1> DEFINE d == tab[o].demo
<1>1. PICK row \in DemoRows : DemoBecomes(d, row) /\ row.version = 1 /\ row.status = "draft"
  BY CreationStep DEF DemoInv
<1>2. tab[o].shows = "creating" /\ tab' = [tab EXCEPT ![o] = BlankTab] /\ reviewed' = reviewed
  BY CreationStep DEF DemoInv
<1>3. d \in Demos
  BY <1>2, TabShows DEF DemoInv
<1>4. ASSUME NEW other \in Operators \ {o}, tab[other].shows # "blank", tab[other].demo = d
      PROVE  FALSE
  <2>1. tab[other].shows \in {"creating", "page", "form", "saving"}
    BY <1>4, TabShows DEF BlankTab, DemoInv
  <2>2. QED
    BY <1>2, <1>4, <2>1 DEF DemoInv, TabsAreOld
<1>5. TabsAreOld'
  BY <1>1, <1>2, <1>3, <1>4, WrittenRow
<1>6. ASSUME NEW e \in Demos, CanView(e)'
      PROVE  e # d /\ demo'[e] = demo[e]
  BY <1>1, <1>3, <1>6 DEF DemoBecomes, CanView, DemoInv, DemoBuilderTypeOK
<1>7. PublishedWasReviewed'
  BY <1>2, <1>6 DEF PublishedWasReviewed, CanView, DemoInv
<1>8. QED
  BY <1>5, <1>7

LEMMA DemoInvStep == DemoInv /\ [DemoBuilderNext]_demoBuilderVars => DemoInv'
<1> SUFFICES ASSUME DemoInv, [DemoBuilderNext]_demoBuilderVars
             PROVE  DemoInv'
  OBVIOUS
<1> DEFINE Goal == TabsAreOld' /\ PublishedWasReviewed'
<1>1. ASSUME NEW o \in Operators, NEW d \in Demos, NEW f \in DemoForms, SubmitCreation(o, d, f) PROVE Goal
  <2>1. PICK q \in TabRows : /\ TabTurns(o, q) /\ q.shows = "creating" /\ q.demo = d
                             /\ demo[d].status = "none" /\ ~BeingCreated(d)
    BY <1>1, SubmitCreationStep DEF DemoInv
  <2>2. QED
    BY <2>1, TurnedTabs
<1>2. ASSUME NEW o \in Operators, NEW d \in Demos, NEW shows \in {"page", "form"}, OpenDemo(o, d, shows) PROVE Goal
  <2>1. PICK q \in TabRows : /\ TabTurns(o, q) /\ q.shows \in {"page", "form"} /\ q.demo = d
                             /\ q.version = demo[d].version /\ q.presentation = demo[d].presentation
                             /\ demo[d].status # "none"
    BY <1>2, OpenStep DEF DemoInv
  <2>2. demo[d].version \in Nat
    BY DEF DemoInv, DemoBuilderTypeOK, DemoRows
  <2>3. QED
    BY <2>1, <2>2, TurnedTabs
<1>3. ASSUME NEW o \in Operators, NEW f \in DemoForms, SubmitEdit(o, f) PROVE Goal
  <2>1. PICK q \in TabRows : /\ TabTurns(o, q) /\ q.shows = "saving" /\ tab[o].shows = "form"
                             /\ q.demo = tab[o].demo /\ q.version = tab[o].version
    BY <1>3, SubmitEditStep DEF DemoInv
  <2>2. demo[q.demo].status # "none" /\ q.version <= demo[q.demo].version
    BY <2>1 DEF DemoInv, TabsAreOld
  <2>3. QED
    BY <2>1, <2>2, TurnedTabs
<1>4. ASSUME NEW o \in Operators, CloseTab(o) PROVE Goal
  <2>1. TabTurns(o, BlankTab) /\ BlankTab \in TabRows /\ BlankTab.shows = "blank"
    BY <1>4, CloseStep DEF TabTurns, BlankTab
  <2>2. QED
    BY <2>1, TurnedTabs
<1>5. ASSUME NEW p \in LinkedProspects, RemoveProspect(p) PROVE Goal
  BY <1>5 DEF RemoveProspect, DemoInv, TabsAreOld, PublishedWasReviewed, CanView
<1>6. ASSUME NEW d \in Demos, LinkEnds(d) PROVE Goal
  <2>1. UNCHANGED <<tab, reviewed>>
    BY <1>6 DEF LinkEnds
  <2>2. QED
    BY <1>6, <2>1, LinkEndsStep, RefreshedRow DEF DemoInv
<1>7. ASSUME NEW s \in Sessions, NEW d \in Demos, NEW kind \in AllowedEvents(d), ReportEvent(s, d, kind)
      PROVE  Goal
  BY <1>7 DEF ReportEvent, DemoInv, TabsAreOld, PublishedWasReviewed, CanView
<1>8. ASSUME NEW s \in Sessions, RecordEvent(s) PROVE Goal
  <2>1. UNCHANGED <<tab, reviewed>>
    BY <1>8, RecordStep DEF DemoInv
  <2>2. CASE UNCHANGED <<visits, demo>>
    BY <2>1, <2>2 DEF DemoInv, TabsAreOld, PublishedWasReviewed, CanView
  <2>3. CASE ~UNCHANGED <<visits, demo>>
    <3>1. PICK v \in EventRows \ visits, row \in DemoRows :
            /\ v[1] \in Demos /\ DemoBecomes(v[1], row) /\ row.version = demo[v[1]].version
            /\ row.status = demo[v[1]].status /\ row.over = demo[v[1]].over
            /\ row.presentation = demo[v[1]].presentation
      BY <1>8, <2>3, RecordStep DEF DemoInv
    <3>2. QED
      BY <2>1, <3>1, RefreshedRow
  <2>4. QED
    BY <2>2, <2>3
<1>9. ASSUME UNCHANGED demoBuilderVars PROVE Goal
  BY <1>9 DEF demoBuilderVars, DemoInv, TabsAreOld, PublishedWasReviewed, CanView
<1> HIDE DEF Goal
<1>10. ASSUME NEW o \in Operators, CreateDemo(o) \/ SaveEdit(o) \/ Publish(o) \/ ArchiveDemo(o) \/ CloseTab(o)
       PROVE  Goal
  BY <1>4, <1>10, CreationKeeps, NextVersionKeeps DEF Goal
<1>11. ASSUME NEW o \in Operators, NEW d \in Demos,
              \/ \E f \in DemoForms : SubmitCreation(o, d, f)
              \/ \E shows \in {"page", "form"} : OpenDemo(o, d, shows)
       PROVE  Goal
  BY <1>1, <1>2, <1>11
<1>12. ASSUME NEW s \in Sessions, NEW d \in Demos, \E kind \in AllowedEvents(d) : ReportEvent(s, d, kind)
       PROVE  Goal
  BY <1>7, <1>12
<1>13. ASSUME DemoBuilderNext PROVE Goal
  BY <1>3, <1>5, <1>6, <1>8, <1>10, <1>11, <1>12, <1>13 DEF DemoBuilderNext
<1>14. Goal
  BY <1>9, <1>13
<1>15. DemoBuilderTypeOK'
  BY DemoTypeStep DEF DemoInv
<1>16. QED
  BY <1>14, <1>15 DEF Goal, DemoInv

\* Operators edit, publish and archive from pages of an earlier moment and read
\* homepages in between: the rows, tabs and reports stay well formed, no page or
\* form gets ahead of its row, and one whose version is still the row's shows
\* what the row holds, so that the version in the form stands for all that was
\* reviewed (routes.ts:233-340).
THEOREM DemoInductive == DemoBuilderSpec => []DemoInv
<1>1. QED
  BY DemoInvInit, DemoInvStep, PTL DEF DemoBuilderSpec

\* Whatever operators and visitors do in between, an open link shows what was on
\* the page of the operator who published it (routes.ts:303-326).
THEOREM PublishedIsReviewed == DemoBuilderSpec => []PublishedWasReviewed
<1>1. DemoInv => PublishedWasReviewed
  BY DEF DemoInv
<1>2. QED
  BY <1>1, DemoInductive, PTL

-----------------------------------------------------------------------------
(* Demos: what visitors did.                                               *)

VisitsOf(d) == {v \in visits : v[1] = d}
VisitsAreCounted == \A d \in Demos : demo[d].count = Cardinality(VisitsOf(d))

LEMMA CountInit == DemoBuilderInit => VisitsAreCounted
<1> SUFFICES ASSUME DemoBuilderInit, NEW d \in Demos
             PROVE  demo[d].count = Cardinality(VisitsOf(d))
  BY DEF VisitsAreCounted
<1>1. VisitsOf(d) = {} /\ demo[d].count = 0
  BY DEF DemoBuilderInit, VisitsOf, NoDemo
<1>2. QED
  BY <1>1, FS_EmptySet

\* Nothing that operators do touches the count or the events.
LEMMA OperatorsCountNothing ==
  ASSUME DemoBuilderTypeOK, NEW d \in Demos, NEW row \in DemoRows, DemoBecomes(d, row),
         row.count = demo[d].count, visits' = visits
  PROVE  visits' = visits /\ \A e \in Demos : demo'[e].count = demo[e].count
BY DEF DemoBecomes, DemoBuilderTypeOK

\* A step keeps count and events, or one new event is counted while the link is
\* open.
LEMMA EventSteps ==
  ASSUME DemoBuilderTypeOK, [DemoBuilderNext]_demoBuilderVars
  PROVE  \/ visits' = visits /\ \A d \in Demos : demo'[d].count = demo[d].count
         \/ \E v \in EventRows \ visits :
              /\ visits' = visits \union {v} /\ CanView(v[1])
              /\ \A d \in Demos : demo'[d].count = IF v[1] = d THEN demo[d].count + 1 ELSE demo[d].count
<1> DEFINE Same == visits' = visits /\ \A d \in Demos : demo'[d].count = demo[d].count
           Added == \E v \in EventRows \ visits :
              /\ visits' = visits \union {v} /\ CanView(v[1])
              /\ \A d \in Demos : demo'[d].count = IF v[1] = d THEN demo[d].count + 1 ELSE demo[d].count
<1>1. ASSUME UNCHANGED <<visits, demo>> PROVE Same
  BY <1>1
<1>2. ASSUME NEW o \in Operators, CreateDemo(o) PROVE Same
  <2>1. tab[o].demo \in Demos
    BY <1>2, CreationStep, TabShows
  <2>2. QED
    BY <1>2, <2>1, CreationStep, OperatorsCountNothing
<1>3. ASSUME NEW o \in Operators, SaveEdit(o) \/ Publish(o) \/ ArchiveDemo(o) PROVE Same
  <2>1. tab[o].demo \in Demos /\ NextVersion(o)
    BY <1>3, VersionSteps, TabShows
  <2>2. QED
    BY <2>1, OperatorsCountNothing DEF NextVersion
<1>4. ASSUME NEW d \in Demos, LinkEnds(d) PROVE Same
  <2>1. visits' = visits
    BY <1>4 DEF LinkEnds
  <2>2. QED
    BY <1>4, <2>1, LinkEndsStep, OperatorsCountNothing
<1>5. ASSUME NEW s \in Sessions, RecordEvent(s) PROVE Same \/ Added
  <2>1. CASE UNCHANGED <<visits, demo>>
    BY <2>1
  <2>2. CASE ~UNCHANGED <<visits, demo>>
    <3>1. PICK v \in EventRows \ visits, row \in DemoRows :
            /\ v[1] \in Demos /\ CanView(v[1]) /\ visits' = visits \union {v}
            /\ DemoBecomes(v[1], row) /\ row.count = demo[v[1]].count + 1
      BY <1>5, <2>2, RecordStep
    <3>2. \A d \in Demos : demo'[d].count = IF v[1] = d THEN demo[d].count + 1 ELSE demo[d].count
      BY <3>1 DEF DemoBecomes, DemoBuilderTypeOK
    <3>3. QED
      BY <3>1, <3>2
  <2>3. QED
    BY <2>1, <2>2
<1>6. ASSUME NEW o \in Operators, NEW d \in Demos,
             \/ \E f \in DemoForms : SubmitCreation(o, d, f)
             \/ \E shows \in {"page", "form"} : OpenDemo(o, d, shows)
      PROVE  Same
  BY <1>6 DEF SubmitCreation, OpenDemo
<1>7. ASSUME NEW o \in Operators, (\E f \in DemoForms : SubmitEdit(o, f)) \/ CloseTab(o) PROVE Same
  BY <1>7 DEF SubmitEdit, CloseTab
<1>8. ASSUME NEW p \in LinkedProspects, RemoveProspect(p) PROVE Same
  BY <1>8 DEF RemoveProspect
<1>9. ASSUME NEW s \in Sessions, NEW d \in Demos, \E kind \in AllowedEvents(d) : ReportEvent(s, d, kind)
      PROVE  Same
  BY <1>9 DEF ReportEvent
<1>10. ASSUME UNCHANGED demoBuilderVars PROVE Same
  BY <1>10 DEF demoBuilderVars
<1> HIDE DEF Same, Added
<1>11. ASSUME NEW o \in Operators, CreateDemo(o) \/ SaveEdit(o) \/ Publish(o) \/ ArchiveDemo(o) \/ CloseTab(o)
       PROVE  Same
  BY <1>2, <1>3, <1>7, <1>11
<1>12. ASSUME DemoBuilderNext PROVE Same \/ Added
  BY <1>4, <1>5, <1>6, <1>7, <1>8, <1>9, <1>11, <1>12 DEF DemoBuilderNext
<1>13. Same \/ Added
  BY <1>10, <1>12
<1>14. QED
  BY <1>13 DEF Same, Added

\* An event that is added is counted on its own demo.
LEMMA CountStep ==
  ASSUME DemoBuilderTypeOK, VisitsAreCounted, NEW v \in EventRows \ visits, NEW d \in Demos,
         visits' = visits \union {v},
         demo'[d].count = IF v[1] = d THEN demo[d].count + 1 ELSE demo[d].count
  PROVE  /\ demo'[d].count = Cardinality(VisitsOf(d)')
         /\ v[1] # d => VisitsOf(d)' = VisitsOf(d)
<1>1. IsFiniteSet(VisitsOf(d))
  <2>1. VisitsOf(d) \subseteq visits /\ IsFiniteSet(visits)
    BY DEF VisitsOf, DemoBuilderTypeOK
  <2>2. QED
    BY <2>1, FS_Subset
<1>2. CASE v[1] = d
  <2>1. VisitsOf(d)' = VisitsOf(d) \union {v} /\ v \notin VisitsOf(d)
    BY <1>2 DEF VisitsOf
  <2>2. Cardinality(VisitsOf(d)') = Cardinality(VisitsOf(d)) + 1
    BY <1>1, <2>1, FS_AddElement
  <2>3. QED
    BY <1>2, <2>2 DEF VisitsAreCounted
<1>3. CASE v[1] # d
  <2>1. VisitsOf(d)' = VisitsOf(d)
    BY <1>3 DEF VisitsOf
  <2>2. QED
    BY <1>3, <2>1 DEF VisitsAreCounted
<1>4. QED
  BY <1>2, <1>3

LEMMA VisitsStep ==
  ASSUME DemoBuilderTypeOK, VisitsAreCounted, [DemoBuilderNext]_demoBuilderVars
  PROVE  VisitsAreCounted'
<1>1. CASE visits' = visits /\ \A d \in Demos : demo'[d].count = demo[d].count
  BY <1>1 DEF VisitsAreCounted, VisitsOf
<1>2. CASE \E v \in EventRows \ visits :
             /\ visits' = visits \union {v} /\ CanView(v[1])
             /\ \A d \in Demos : demo'[d].count = IF v[1] = d THEN demo[d].count + 1 ELSE demo[d].count
  BY <1>2, CountStep DEF VisitsAreCounted
<1>3. QED
  BY <1>1, <1>2, EventSteps

\* The count of a demo is the number of its recorded events (routes.ts:415-436).
THEOREM CountFollows == DemoBuilderSpec => []VisitsAreCounted
<1>1. DemoInv /\ VisitsAreCounted /\ [DemoBuilderNext]_demoBuilderVars => VisitsAreCounted'
  BY VisitsStep DEF DemoInv
<1>2. QED
  BY <1>1, CountInit, DemoInductive, PTL DEF DemoBuilderSpec

\* A visitor's event that arrives late adds nothing: events are added only while
\* the link is open, none is lost, and the count follows them up to the cap,
\* whatever operators do at the same time (routes.ts:415-436).
THEOREM OnlyWhileShared == DemoBuilderSpec => RecordedWhileShared
<1> DEFINE of(rows, d) == {v \in rows : v[1] = d}
           Told == \A d \in Demos :
                     of(visits', d) # of(visits, d) =>
                       /\ of(visits, d) \subseteq of(visits', d) /\ CanView(d)
                       /\ demo'[d].count = Cardinality(of(visits', d)) /\ demo'[d].count <= EventCap
<1>1. ASSUME DemoInv, DemoInv', VisitsAreCounted, [DemoBuilderNext]_demoBuilderVars PROVE Told
  <2> SUFFICES ASSUME NEW d \in Demos, of(visits', d) # of(visits, d)
               PROVE  /\ of(visits, d) \subseteq of(visits', d) /\ CanView(d)
                      /\ demo'[d].count = Cardinality(of(visits', d)) /\ demo'[d].count <= EventCap
    OBVIOUS
  <2>1. PICK v \in EventRows \ visits :
          /\ visits' = visits \union {v} /\ CanView(v[1])
          /\ \A e \in Demos : demo'[e].count = IF v[1] = e THEN demo[e].count + 1 ELSE demo[e].count
    BY <1>1, EventSteps DEF DemoInv
  <2>2. demo'[d].count = Cardinality(VisitsOf(d)') /\ (v[1] # d => VisitsOf(d)' = VisitsOf(d))
    BY <1>1, <2>1, CountStep DEF DemoInv
  <2>3. VisitsOf(d)' = of(visits', d) /\ VisitsOf(d) = of(visits, d)
    BY DEF VisitsOf
  <2>4. demo'[d].count <= EventCap
    BY <1>1, DemoBuilderAssumption DEF DemoInv, DemoBuilderTypeOK, DemoRows
  <2>5. QED
    BY <2>1, <2>2, <2>3, <2>4
<1>2. DemoInv /\ DemoInv' /\ VisitsAreCounted /\ [DemoBuilderNext]_demoBuilderVars => [Told]_demoBuilderVars
  BY <1>1
<1>3. [][Told]_demoBuilderVars => RecordedWhileShared
  BY PTL DEF RecordedWhileShared
<1>4. QED
  BY <1>2, <1>3, DemoInductive, CountFollows, PTL DEF DemoBuilderSpec

-----------------------------------------------------------------------------
(* Imports: types, and what an importer holds.                             *)

IngestStatuses == {"none", "running", "completed", "partially_completed", "failed"}
IngestRows == [status : IngestStatuses, next : Nat \ {0}, valid : Nat, invalid : Nat, failed : Nat,
               created : Nat, updated : Nat, duplicates : Nat, twice : Nat]
RowNames == {rec.name : rec \in Records} \union {None}
Payloads == {rec.payload : rec \in Records} \union {None}
EntityRows == [kind : {"none", "business", "listing"}, ids : [Slots -> Nat], name : RowNames]
SourceRows == [entity : Entities \union {NoEntity}, run : Runs \union {None}, payload : Payloads]
ImportRows == [pc : {"idle", "record", "locking", "resolving", "writing"}, run : Runs \union {None},
               held : SUBSET AllIdentities, into : Entities \union {NoEntity}]

IngestTypes ==
  /\ ingestion \in [Runs -> IngestRows]
  /\ entity \in [Entities -> EntityRows]
  /\ source \in [Keys -> SourceRows]
  /\ locks \in [AllIdentities -> Importers \union {None}]
  /\ import \in [Importers -> ImportRows]

\* An importer works on a run of its own, within its records, and holds the
\* locks it believes it has: past locking, those of its record.
Works(p) ==
  /\ Importing(p) => import[p].run \in Runs /\ ingestion[import[p].run].status = "running"
  /\ InRecord(p) => ingestion[import[p].run].next <= Len(Batch[import[p].run])
  /\ ~InRecord(p) => import[p].held = {}
  /\ \A i \in import[p].held : locks[i] = p
  /\ import[p].pc \in {"resolving", "writing"} /\ KindOf(p) = "business" =>
       Identities(Current(p)) \subseteq import[p].held

OneImporter ==
  \A p, q \in Importers : Importing(p) /\ Importing(q) /\ import[p].run = import[q].run => p = q

\* Rows keep their table: the row to merge into, and that of a source record.
RowsOfKind ==
  /\ \A e \in Entities : ~Exists(e) => \A s \in Slots : entity[e].ids[s] = None
  /\ \A p \in Importers : import[p].pc = "writing" /\ import[p].into # NoEntity =>
       entity[import[p].into].kind = KindOf(p)
  /\ \A r \in Runs : Kind[r] = "business" => \A rec \in RecordsOf(r) :
       LET e == source[RecordKey(rec)].entity IN e # NoEntity => entity[e].kind = "business"

\* What an importer found stays true while it holds the locks of the record:
\* no business has an identifier of the record it is about to create.
StillNew ==
  \A p \in Importers : import[p].pc = "writing" /\ import[p].into = NoEntity /\ KindOf(p) = "business" =>
    \A o \in Rows("business"), s \in Slots :
      Current(p).ids[s] # None => entity[o].ids[s] # Current(p).ids[s]

IngestInv ==
  IngestTypes /\ (\A p \in Importers : Works(p)) /\ OneImporter /\ RowsOfKind /\ StillNew

LEMMA IngestInit0 == IngestInit => IngestInv
<1> SUFFICES ASSUME IngestInit
             PROVE  IngestInv
  OBVIOUS
<1>1. NoRun \in IngestRows
  BY DEF NoRun, IngestRows, IngestStatuses
<1>2. NoRow \in EntityRows
  BY DEF NoRow, EntityRows, RowNames, None
<1>3. NoSource \in SourceRows
  BY DEF NoSource, SourceRows, Payloads
<1>4. Idle \in ImportRows
  BY DEF Idle, ImportRows
<1>5. IngestTypes
  BY <1>1, <1>2, <1>3, <1>4 DEF IngestInit, IngestTypes
<1>6. \A p \in Importers : ~Importing(p) /\ ~InRecord(p) /\ import[p].held = {} /\ import[p].pc = "idle"
  BY DEF IngestInit, Importing, InRecord, Idle
<1>7. RowsOfKind
  <2>1. \A e \in Entities, s \in Slots : entity[e].ids[s] = None
    BY DEF IngestInit, NoRow
  <2>2. \A r \in Runs : \A rec \in RecordsOf(r) : source[RecordKey(rec)].entity = NoEntity
    BY DEF IngestInit, NoSource, Keys, Records
  <2>3. QED
    BY <1>6, <2>1, <2>2 DEF RowsOfKind
<1>8. QED
  BY <1>5, <1>6, <1>7 DEF IngestInv, Works, OneImporter, StillNew

\* The record an importer works on.
LEMMA RecordFacts ==
  ASSUME IngestTypes, NEW p \in Importers, Works(p), Importing(p),
         ingestion[import[p].run].next <= Len(Batch[import[p].run])
  PROVE  /\ Current(p) \in RecordsOf(import[p].run) /\ Current(p) \in Records
         /\ RecordKey(Current(p)) \in Keys
         /\ Identities(Current(p)) \in SUBSET AllIdentities
         /\ AllIdentities \subseteq Nat
         /\ Current(p).ids \in [Slots -> Nat]
         /\ Current(p).name \in RowNames /\ Current(p).payload \in Payloads
<1>1. import[p].run \in Runs
  BY DEF Works
<1>2. ingestion[import[p].run].next \in Nat \ {0} /\ Batch[import[p].run] \in Seq(Records)
  BY <1>1, IngestionAssumption DEF IngestTypes, IngestRows
<1>3. ingestion[import[p].run].next \in 1 .. Len(Batch[import[p].run])
  BY <1>2
<1>4. Current(p) \in RecordsOf(import[p].run)
  BY <1>3 DEF Current, RecordsOf
<1>5. Current(p) \in Records
  BY <1>1, <1>4 DEF Records
<1>6. RecordKey(Current(p)) \in Keys
  BY <1>5 DEF Keys
<1>7. Identities(Current(p)) \in SUBSET AllIdentities
  BY <1>5 DEF AllIdentities
<1>8. AllIdentities \subseteq Nat
  <2> SUFFICES ASSUME NEW rec \in Records, NEW i \in Identities(rec) PROVE i \in Nat
    BY DEF AllIdentities
  <2>1. rec.ext \in Nat /\ rec.ids \in [Slots -> Nat]
    BY IngestionAssumption
  <2>2. QED
    BY <2>1 DEF Identities, IdsOf
<1>9. QED
  BY <1>4, <1>5, <1>6, <1>7, <1>8, IngestionAssumption DEF RowNames, Payloads

LEMMA IngestRowTypes ==
  ASSUME IngestTypes
  PROVE  /\ \A p \in Importers : import[p] \in ImportRows
         /\ \A p \in Importers, i \in ImportRows : [import EXCEPT ![p] = i] \in [Importers -> ImportRows]
         /\ \A r \in Runs : ingestion[r] \in IngestRows
         /\ \A r \in Runs, i \in IngestRows : [ingestion EXCEPT ![r] = i] \in [Runs -> IngestRows]
         /\ \A e \in Entities : entity[e] \in EntityRows
         /\ \A e \in Entities, i \in EntityRows : [entity EXCEPT ![e] = i] \in [Entities -> EntityRows]
         /\ \A k \in Keys : source[k] \in SourceRows
         /\ \A k \in Keys, i \in SourceRows : [source EXCEPT ![k] = i] \in [Keys -> SourceRows]
BY DEF IngestTypes

\* A step of p as the other importers see it.
StepOf(p) ==
  /\ \A q \in Importers : q # p => import'[q] = import[q]
  /\ \A q \in Importers : q # p /\ Importing(q) =>
       ingestion'[import[q].run] = ingestion[import[q].run]
  /\ \A q \in Importers, i \in AllIdentities : q # p /\ locks[i] = q => locks'[i] = q

LEMMA OthersSame ==
  ASSUME IngestInv, NEW p \in Importers, StepOf(p), NEW q \in Importers, q # p
  PROVE  /\ Works(q)'
         /\ Importing(q)' <=> Importing(q)
         /\ import'[q] = import[q]
         /\ Importing(q) => /\ Current(q)' = Current(q)
                            /\ KindOf(q)' = KindOf(q)
<1>1. import'[q] = import[q]
  BY DEF StepOf
<1>2. (Importing(q)' <=> Importing(q)) /\ (InRecord(q)' <=> InRecord(q)) /\ KindOf(q)' = KindOf(q)
  BY <1>1 DEF Importing, InRecord, KindOf
<1>3. Works(q) /\ import[q] \in ImportRows
  BY DEF IngestInv, IngestTypes
<1>4. Importing(q) => ingestion'[import[q].run] = ingestion[import[q].run]
  BY DEF StepOf
<1>5. Importing(q) => Current(q)' = Current(q)
  BY <1>1, <1>4 DEF Current
<1>6. \A i \in import[q].held : locks'[i] = q
  <2>1. \A i \in import[q].held : i \in AllIdentities /\ locks[i] = q
    BY <1>3 DEF Works, ImportRows
  <2>2. QED
    BY <2>1 DEF StepOf
<1>7. import[q].pc \in {"resolving", "writing"} => Importing(q)
  BY DEF Importing
<1>8. InRecord(q) => Importing(q)
  BY DEF Importing, InRecord
<1>9. Works(q)'
  BY <1>1, <1>2, <1>3, <1>4, <1>5, <1>6, <1>7, <1>8 DEF Works
<1>10. QED
  BY <1>1, <1>2, <1>5, <1>9

\* The run of p after the step is its own.
OwnRun(p) ==
  Importing(p)' => \A q \in Importers : q # p /\ Importing(q) => import[q].run # import'[p].run

LEMMA SameRun ==
  ASSUME IngestInv, NEW p \in Importers, import'[p].run = import[p].run, Importing(p)
  PROVE  OwnRun(p)
BY DEF IngestInv, OneImporter, OwnRun

\* A step that neither changes a row nor makes p write one.
LEMMA QuietStep ==
  ASSUME IngestInv, IngestTypes', NEW p \in Importers, StepOf(p), Works(p)', OwnRun(p),
         entity' = entity, \A k \in Keys : source'[k].entity = source[k].entity,
         import'[p].pc # "writing"
  PROVE  IngestInv'
<1>1. \A q \in Importers : Works(q)'
  BY OthersSame
<1>2. OneImporter'
  <2> SUFFICES ASSUME NEW q \in Importers, NEW o \in Importers, q # o,
                      Importing(q)', Importing(o)', import'[q].run = import'[o].run
               PROVE  FALSE
    BY DEF OneImporter
  <2>1. CASE q # p /\ o # p
    BY <2>1, OthersSame DEF IngestInv, OneImporter
  <2>2. CASE q = p
    BY <2>2, OthersSame DEF OwnRun
  <2>3. CASE o = p
    BY <2>3, OthersSame DEF OwnRun
  <2>4. QED
    BY <2>1, <2>2, <2>3
<1>3. \A q \in Importers : import'[q].pc = "writing" =>
        /\ q # p /\ Importing(q) /\ import'[q] = import[q] /\ import[q].pc = "writing"
        /\ Current(q)' = Current(q) /\ KindOf(q)' = KindOf(q)
  <2> SUFFICES ASSUME NEW q \in Importers, import'[q].pc = "writing"
               PROVE  /\ q # p /\ Importing(q) /\ import'[q] = import[q] /\ import[q].pc = "writing"
                      /\ Current(q)' = Current(q) /\ KindOf(q)' = KindOf(q)
    OBVIOUS
  <2>1. q # p
    OBVIOUS
  <2>2. import'[q] = import[q] /\ import[q].pc = "writing"
    BY <2>1, OthersSame
  <2>3. Importing(q)
    BY <2>2 DEF Importing
  <2>4. QED
    BY <2>1, <2>2, <2>3, OthersSame
<1>4. RowsOfKind'
  <2>1. \A e \in Entities : Exists(e)' <=> Exists(e)
    BY DEF Exists
  <2>2. \A r \in Runs : \A rec \in RecordsOf(r) : RecordKey(rec) \in Keys
    BY DEF Keys, Records
  <2>3. RowsOfKind
    BY DEF IngestInv
  <2>4. \A e \in Entities : ~Exists(e)' => \A s \in Slots : entity'[e].ids[s] = None
    BY <2>1, <2>3 DEF RowsOfKind
  <2>5. \A q \in Importers : import'[q].pc = "writing" /\ import'[q].into # NoEntity =>
          entity'[import'[q].into].kind = KindOf(q)'
    BY <1>3, <2>3 DEF RowsOfKind
  <2>6. \A r \in Runs : Kind[r] = "business" => \A rec \in RecordsOf(r) :
          source'[RecordKey(rec)].entity # NoEntity =>
            entity'[source'[RecordKey(rec)].entity].kind = "business"
    BY <2>2, <2>3 DEF RowsOfKind
  <2>7. QED
    BY <2>4, <2>5, <2>6 DEF RowsOfKind
<1>5. StillNew'
  <2>1. Rows("business")' = Rows("business")
    BY DEF Rows
  <2>2. QED
    BY <1>3, <2>1 DEF IngestInv, StillNew
<1>6. QED
  BY <1>1, <1>2, <1>4, <1>5 DEF IngestInv

-----------------------------------------------------------------------------
(* Imports: the steps of an importer between records.                      *)

LEMMA CountedTypes ==
  ASSUME IngestTypes, NEW r \in Runs, NEW counter \in {"invalid", "failed", "created", "updated", "duplicates"}
  PROVE  /\ Advance(ingestion[r], counter) \in IngestRows
         /\ Advance(ingestion[r], counter).status = ingestion[r].status
<1>1. ingestion[r] \in IngestRows
  BY DEF IngestTypes
<1> DEFINE moved == [ingestion[r] EXCEPT !.next = @ + 1]
<1>2. moved \in IngestRows /\ moved.status = ingestion[r].status /\ \A n \in Nat : n + 1 \in Nat
  BY <1>1 DEF IngestRows
<1>3. Advance(ingestion[r], counter) = [moved EXCEPT ![counter] = @ + 1]
  BY <1>1 DEF Advance, IngestRows
<1> HIDE DEF moved
<1>4. CASE counter = "invalid"
  BY <1>2, <1>3, <1>4 DEF IngestRows
<1>5. CASE counter = "failed"
  BY <1>2, <1>3, <1>5 DEF IngestRows
<1>6. CASE counter = "created"
  BY <1>2, <1>3, <1>6 DEF IngestRows
<1>7. CASE counter = "updated"
  BY <1>2, <1>3, <1>7 DEF IngestRows
<1>8. CASE counter = "duplicates"
  BY <1>2, <1>3, <1>8 DEF IngestRows
<1>9. QED
  BY <1>4, <1>5, <1>6, <1>7, <1>8

LEMMA TwiceTypes ==
  ASSUME IngestTypes, NEW r \in Runs
  PROVE  /\ CountedTwice(ingestion[r]) \in IngestRows
         /\ CountedTwice(ingestion[r]).status = ingestion[r].status
<1> DEFINE once == Advance(ingestion[r], "invalid")
<1>1. once \in IngestRows /\ once.status = ingestion[r].status
  BY CountedTypes
<1>2. CountedTwice(ingestion[r]) = [once EXCEPT !.failed = @ + 1, !.twice = @ + 1]
  BY DEF CountedTwice
<1> HIDE DEF once
<1>3. CountedTwice(ingestion[r]) = [[once EXCEPT !.failed = @ + 1] EXCEPT !.twice = @ + 1]
  BY <1>2
<1> DEFINE failed == [once EXCEPT !.failed = @ + 1]
<1>4. failed \in IngestRows /\ failed.status = once.status
  BY <1>1 DEF IngestRows
<1> HIDE DEF failed
<1>5. [failed EXCEPT !.twice = @ + 1] \in IngestRows /\ [failed EXCEPT !.twice = @ + 1].status = failed.status
  BY <1>4 DEF IngestRows
<1>6. QED
  BY <1>1, <1>3, <1>4, <1>5 DEF failed

LEMMA BeginImportStep ==
  ASSUME IngestInv, NEW p \in Importers, NEW r \in Runs, BeginImport(p, r)
  PROVE  IngestInv'
<1> DEFINE row == [Idle EXCEPT !.pc = "record", !.run = r]
           began == [ingestion[r] EXCEPT !.status = "running"]
<1>1. IngestTypes
  BY DEF IngestInv
<1>2. row \in ImportRows /\ row.pc = "record" /\ row.run = r /\ row.held = {}
  BY DEF Idle, ImportRows
<1>3. ingestion[r] \in IngestRows /\ began \in IngestRows /\ began.status = "running"
  BY <1>1, IngestRowTypes DEF IngestRows, IngestStatuses
<1>4. import' = [import EXCEPT ![p] = row] /\ ingestion' = [ingestion EXCEPT ![r] = began]
  BY DEF BeginImport
<1>5. UNCHANGED <<entity, source, locks>> /\ ~Importing(p) /\ ingestion[r].status = "none"
  BY DEF BeginImport
<1> HIDE DEF row, began
<1>6. import'[p] = row /\ ingestion'[r] = began
  BY <1>1, <1>4 DEF IngestTypes
<1>7. IngestTypes'
  <2>1. import' \in [Importers -> ImportRows] /\ ingestion' \in [Runs -> IngestRows]
    BY <1>1, <1>2, <1>3, <1>4, IngestRowTypes
  <2>2. QED
    BY <1>1, <1>5, <2>1 DEF IngestTypes
<1>8. \A q \in Importers : Importing(q) => import[q].run # r
  BY <1>5 DEF IngestInv, Works
<1>9. StepOf(p)
  BY <1>1, <1>4, <1>5, <1>8 DEF StepOf, IngestTypes
<1>10. Works(p)'
  BY <1>2, <1>3, <1>6 DEF Works, InRecord
<1>11. OwnRun(p)
  BY <1>2, <1>6, <1>8 DEF OwnRun
<1>12. QED
  BY <1>2, <1>5, <1>6, <1>7, <1>9, <1>10, <1>11, QuietStep

\* What an importer that stops leaves to others.
LEMMA IdleWorks ==
  ASSUME NEW p \in Importers, import'[p] = Idle
  PROVE  Works(p)' /\ OwnRun(p) /\ import'[p].pc # "writing" /\ Idle \in ImportRows
BY DEF Works, Importing, InRecord, Idle, OwnRun, ImportRows

LEMMA UnlockedFacts ==
  ASSUME IngestTypes, NEW p \in Importers
  PROVE  /\ Unlocked(p) \in [AllIdentities -> Importers \union {None}]
         /\ \A q \in Importers, i \in AllIdentities : q # p /\ locks[i] = q => Unlocked(p)[i] = q
BY DEF IngestTypes, Unlocked

LEMMA ImportThrowsStep ==
  ASSUME IngestInv, NEW p \in Importers, ImportThrows(p)
  PROVE  IngestInv'
<1>1. IngestTypes /\ Works(p)
  BY DEF IngestInv
<1>2. import' = [import EXCEPT ![p] = Idle] /\ UNCHANGED <<ingestion, entity, source, locks>>
  BY DEF ImportThrows
<1>3. import'[p] = Idle
  BY <1>1, <1>2 DEF IngestTypes
<1>4. IngestTypes'
  <2>1. import' \in [Importers -> ImportRows]
    BY <1>1, <1>2, <1>3, IngestRowTypes, IdleWorks
  <2>2. QED
    BY <1>1, <1>2, <2>1 DEF IngestTypes
<1>5. StepOf(p)
  BY <1>1, <1>2 DEF StepOf, IngestTypes
<1>6. QED
  BY <1>2, <1>3, <1>4, <1>5, IdleWorks, QuietStep

LEMMA ImporterDiesStep ==
  ASSUME IngestInv, NEW p \in Importers, ImporterDies(p)
  PROVE  IngestInv'
<1>1. IngestTypes /\ Works(p)
  BY DEF IngestInv
<1>2. import' = [import EXCEPT ![p] = Idle] /\ locks' = Unlocked(p) /\ UNCHANGED <<ingestion, entity, source>>
  BY DEF ImporterDies
<1>3. import'[p] = Idle
  BY <1>1, <1>2 DEF IngestTypes
<1>4. IngestTypes'
  <2>1. import' \in [Importers -> ImportRows]
    BY <1>1, <1>2, <1>3, IngestRowTypes, IdleWorks
  <2>2. QED
    BY <1>1, <1>2, <2>1, UnlockedFacts DEF IngestTypes
<1>5. StepOf(p)
  BY <1>1, <1>2, UnlockedFacts DEF StepOf, IngestTypes
<1>6. QED
  BY <1>2, <1>3, <1>4, <1>5, IdleWorks, QuietStep

LEMMA FinishImportStep ==
  ASSUME IngestInv, NEW p \in Importers, FinishImport(p)
  PROVE  IngestInv'
<1> DEFINE r == import[p].run
           ended == [ingestion[r] EXCEPT !.status = FinalStatus(ingestion[r])]
<1>1. IngestTypes /\ Works(p) /\ Importing(p) /\ r \in Runs
  BY DEF IngestInv, FinishImport, Importing, Works
<1>2. ended \in IngestRows
  BY <1>1, IngestRowTypes DEF IngestRows, IngestStatuses, FinalStatus
<1>3. /\ import' = [import EXCEPT ![p] = Idle] /\ ingestion' = [ingestion EXCEPT ![r] = ended]
      /\ UNCHANGED <<entity, source, locks>>
  BY DEF FinishImport
<1> HIDE DEF ended
<1>4. import'[p] = Idle
  BY <1>1, <1>3 DEF IngestTypes
<1>5. IngestTypes'
  <2>1. import' \in [Importers -> ImportRows] /\ ingestion' \in [Runs -> IngestRows]
    BY <1>1, <1>2, <1>3, <1>4, IngestRowTypes, IdleWorks
  <2>2. QED
    BY <1>1, <1>3, <2>1 DEF IngestTypes
<1>6. \A q \in Importers : q # p /\ Importing(q) => import[q].run # r
  BY <1>1 DEF IngestInv, OneImporter
<1>7. StepOf(p)
  BY <1>1, <1>3, <1>6 DEF StepOf, IngestTypes
<1>8. QED
  BY <1>3, <1>4, <1>5, <1>7, IdleWorks, QuietStep

LEMMA StoredTypes ==
  ASSUME IngestTypes, NEW rec \in Records, NEW r \in Runs, NEW into \in Entities \union {NoEntity},
         StoredPayload(rec, r, into)
  PROVE  /\ source' \in [Keys -> SourceRows]
         /\ \A k \in Keys : source'[k].entity =
              IF k = RecordKey(rec) /\ into # NoEntity THEN into ELSE source[k].entity
<1> DEFINE k0 == RecordKey(rec)
           row == [entity |-> IF into = NoEntity THEN source[k0].entity ELSE into,
                   run |-> r, payload |-> rec.payload]
<1>1. k0 \in Keys
  BY DEF Keys
<1>2. row \in SourceRows
  BY <1>1, IngestRowTypes DEF SourceRows, Payloads
<1>3. source' = [source EXCEPT ![k0] = row]
  BY DEF StoredPayload
<1>4. row.entity = IF into = NoEntity THEN source[k0].entity ELSE into
  OBVIOUS
<1> HIDE DEF k0, row
<1>5. source' \in [Keys -> SourceRows]
  BY <1>1, <1>2, <1>3, IngestRowTypes
<1>6. \A k \in Keys : source'[k] = IF k = k0 THEN row ELSE source[k]
  BY <1>1, <1>3 DEF IngestTypes
<1>7. \A k \in Keys : source'[k].entity = IF k = k0 /\ into # NoEntity THEN into ELSE source[k].entity
  BY <1>4, <1>6
<1>8. QED
  BY <1>5, <1>7 DEF k0

\* A record that is counted and not written.
LEMMA CountedStep ==
  ASSUME IngestInv, NEW p \in Importers, import[p].pc = "record",
         NEW row \in IngestRows, row.status = ingestion[import[p].run].status,
         ingestion' = [ingestion EXCEPT ![import[p].run] = row],
         UNCHANGED <<entity, locks, import>>,
         source' \in [Keys -> SourceRows], \A k \in Keys : source'[k].entity = source[k].entity
  PROVE  IngestInv'
<1> DEFINE r == import[p].run
<1>1. IngestTypes /\ Works(p) /\ Importing(p) /\ r \in Runs
  BY DEF IngestInv, Importing, Works
<1>2. IngestTypes'
  <2>1. ingestion' \in [Runs -> IngestRows]
    BY <1>1, IngestRowTypes
  <2>2. QED
    BY <1>1, <2>1 DEF IngestTypes
<1>3. \A q \in Importers : q # p /\ Importing(q) => import[q].run # r
  BY <1>1 DEF IngestInv, OneImporter
<1>4. StepOf(p)
  BY <1>1, <1>3 DEF StepOf, IngestTypes
<1>5. ingestion'[r].status = ingestion[r].status
  BY <1>1 DEF IngestTypes
<1>6. Works(p)'
  BY <1>1, <1>5 DEF Works, Importing, InRecord
<1>7. QED
  BY <1>1, <1>2, <1>4, <1>6, SameRun, QuietStep

LEMMA DiscardStep ==
  ASSUME IngestInv, NEW p \in Importers, Discard(p)
  PROVE  IngestInv'
<1> DEFINE r == import[p].run
<1>1. IngestTypes /\ r \in Runs /\ import[p].pc = "record"
  BY DEF IngestInv, Discard, Importing, Works
<1>2. PICK counter \in {"invalid", "failed"} : ingestion' = [ingestion EXCEPT ![r] = Advance(ingestion[r], counter)]
  BY DEF Discard
<1>3. Advance(ingestion[r], counter) \in IngestRows /\ Advance(ingestion[r], counter).status = ingestion[r].status
  BY <1>1, CountedTypes
<1>4. UNCHANGED <<entity, locks, import>> /\ source' = source
  BY DEF Discard
<1>5. QED
  BY <1>1, <1>2, <1>3, <1>4, CountedStep DEF IngestTypes

LEMMA RejectStep ==
  ASSUME IngestInv, NEW p \in Importers, Reject(p)
  PROVE  IngestInv'
<1> DEFINE r == import[p].run
<1>1. IngestTypes /\ Works(p) /\ Importing(p) /\ r \in Runs /\ import[p].pc = "record"
  BY DEF IngestInv, Reject, Importing, Works
<1>2. Current(p) \in Records /\ Current(p) \in RecordsOf(r)
  BY <1>1, RecordFacts DEF Reject
<1>3. PICK row \in {Advance(ingestion[r], "invalid"), CountedTwice(ingestion[r])} :
        ingestion' = [ingestion EXCEPT ![r] = row]
  BY DEF Reject
<1>4. UNCHANGED <<entity, locks, import>>
  BY DEF Reject
<1>5. source' \in [Keys -> SourceRows] /\ \A k \in Keys : source'[k].entity = source[k].entity
  <2>1. CASE StoredPayload(Current(p), r, NoEntity)
    <3>1. NoEntity \in Entities \union {NoEntity}
      OBVIOUS
    <3>2. QED
      BY <1>1, <1>2, <2>1, <3>1, StoredTypes
  <2>2. CASE UNCHANGED source
    BY <1>1, <2>2 DEF IngestTypes
  <2>3. QED
    BY <2>1, <2>2 DEF Reject
<1>6. row \in IngestRows /\ row.status = ingestion[r].status
  BY <1>1, <1>3, CountedTypes, TwiceTypes
<1>7. QED
  BY <1>1, <1>3, <1>4, <1>5, <1>6, CountedStep

-----------------------------------------------------------------------------
(* Imports: the steps within a record.                                     *)

LEMMA LeastNatural ==
  ASSUME NEW S \in SUBSET Nat, S # {}
  PROVE  \E n \in S : \A m \in S : n <= m
<1> DEFINE R == {pair \in Nat \X Nat : pair[1] < pair[2]}
<1>1. IsWellFoundedOn(R, Nat)
  BY NatLessThanWellFounded DEF OpToRel
<1> HIDE DEF R
<1>2. \E n \in S : \A m \in S : ~ (<<m, n>> \in R)
  BY <1>1, WFMin
<1>3. \A m, n \in Nat : m < n => <<m, n>> \in R
  BY DEF R
<1>4. PICK n \in S : \A m \in S : ~ (<<m, n>> \in R)
  BY <1>2
<1>5. ASSUME NEW m \in S PROVE n <= m
  <2>1. m \in Nat /\ n \in Nat /\ ~(m < n)
    BY <1>3, <1>4
  <2>2. QED
    BY <2>1
<1>6. QED
  BY <1>5

\* The importer of a record and its run.
LEMMA AtRecord ==
  ASSUME IngestInv, NEW p \in Importers, InRecord(p)
  PROVE  /\ IngestTypes /\ Works(p) /\ Importing(p) /\ import[p].run \in Runs
         /\ import[p] \in ImportRows /\ import[p].held \in SUBSET AllIdentities
         /\ ingestion[import[p].run].next <= Len(Batch[import[p].run])
         /\ \A q \in Importers : q # p /\ Importing(q) => import[q].run # import[p].run
         /\ Current(p) \in RecordsOf(import[p].run) /\ Current(p) \in Records
         /\ RecordKey(Current(p)) \in Keys
         /\ Identities(Current(p)) \in SUBSET AllIdentities
         /\ AllIdentities \subseteq Nat
         /\ Current(p).ids \in [Slots -> Nat]
         /\ Current(p).name \in RowNames /\ Current(p).payload \in Payloads
<1>1. IngestTypes /\ Works(p) /\ Importing(p)
  BY DEF IngestInv, InRecord, Importing
<1>2. import[p].run \in Runs /\ ingestion[import[p].run].next <= Len(Batch[import[p].run])
  BY <1>1 DEF Works
<1>3. import[p] \in ImportRows /\ import[p].held \in SUBSET AllIdentities
  BY <1>1 DEF IngestTypes, ImportRows
<1>4. \A q \in Importers : q # p /\ Importing(q) => import[q].run # import[p].run
  BY <1>1 DEF IngestInv, OneImporter
<1>5. QED
  BY <1>1, <1>2, <1>3, <1>4, RecordFacts

LEMMA BeginRecordStep ==
  ASSUME IngestInv, NEW p \in Importers, BeginRecord(p)
  PROVE  IngestInv'
<1> DEFINE r == import[p].run
           row == [import[p] EXCEPT !.pc = IF Kind[r] = "business" THEN "locking" ELSE "resolving"]
           counted == [ingestion[r] EXCEPT !.valid = @ + 1]
<1>1. IngestTypes /\ Works(p) /\ Importing(p) /\ r \in Runs /\ import[p].pc = "record"
  BY DEF IngestInv, BeginRecord, Importing, Works
<1>2. /\ row \in ImportRows /\ row.run = r /\ row.held = import[p].held
      /\ row.pc = IF Kind[r] = "business" THEN "locking" ELSE "resolving"
  BY <1>1, IngestRowTypes DEF ImportRows
<1>3. counted \in IngestRows /\ counted.status = ingestion[r].status /\ counted.next = ingestion[r].next
  BY <1>1, IngestRowTypes DEF IngestRows
<1>4. /\ import' = [import EXCEPT ![p] = row] /\ ingestion' = [ingestion EXCEPT ![r] = counted]
      /\ UNCHANGED <<entity, source, locks>> /\ ingestion[r].next <= Len(Batch[r])
  BY DEF BeginRecord
<1> HIDE DEF row, counted
<1>5. import'[p] = row /\ ingestion'[r] = counted
  BY <1>1, <1>4 DEF IngestTypes
<1>6. IngestTypes'
  <2>1. import' \in [Importers -> ImportRows] /\ ingestion' \in [Runs -> IngestRows]
    BY <1>1, <1>2, <1>3, <1>4, IngestRowTypes
  <2>2. QED
    BY <1>1, <1>4, <2>1 DEF IngestTypes
<1>7. \A q \in Importers : q # p /\ Importing(q) => import[q].run # r
  BY <1>1 DEF IngestInv, OneImporter
<1>8. StepOf(p)
  BY <1>1, <1>4, <1>7 DEF StepOf, IngestTypes
<1>9. Works(p)'
  <2>1. import[p].held = {} /\ ingestion[r].status = "running"
    BY <1>1 DEF Works, InRecord
  <2>2. ~(import'[p].pc \in {"resolving", "writing"} /\ KindOf(p)' = "business")
    BY <1>2, <1>5 DEF KindOf
  <2>3. import'[p].held = {} /\ InRecord(p)' /\ import'[p].run = r
    BY <1>2, <1>5, <2>1 DEF InRecord
  <2>4. QED
    BY <1>1, <1>3, <1>4, <1>5, <2>1, <2>2, <2>3 DEF Works
<1>10. import'[p].run = r /\ import'[p].pc # "writing"
  BY <1>2, <1>5
<1>11. QED
  BY <1>1, <1>4, <1>6, <1>8, <1>9, <1>10, SameRun, QuietStep

LEMMA TakeLockStep ==
  ASSUME IngestInv, NEW p \in Importers, TakeLock(p)
  PROVE  IngestInv'
<1> DEFINE lock == NextLock(p)
           row == [import[p] EXCEPT !.held = @ \union {lock}]
<1>1. InRecord(p) /\ import[p].pc = "locking"
  BY DEF TakeLock, InRecord
<1>2. IngestTypes /\ Works(p) /\ Importing(p) /\ import[p] \in ImportRows /\ import[p].run \in Runs
  BY <1>1, AtRecord
<1>3. lock \in Wanted(p) /\ lock \in AllIdentities
  <2>1. Wanted(p) \in SUBSET Nat /\ Wanted(p) \subseteq AllIdentities /\ Wanted(p) # {}
    BY <1>1, AtRecord DEF Wanted, TakeLock
  <2>2. \E i \in Wanted(p) : \A j \in Wanted(p) : i <= j
    BY <2>1, LeastNatural
  <2>3. lock \in Wanted(p)
    BY <2>2 DEF NextLock
  <2>4. QED
    BY <2>1, <2>3
<1>4. /\ import' = [import EXCEPT ![p] = row] /\ locks' = [locks EXCEPT ![lock] = p]
      /\ UNCHANGED <<entity, source, ingestion>> /\ locks[lock] = None
  BY DEF TakeLock
<1>5. row \in ImportRows /\ row.pc = "locking" /\ row.run = import[p].run /\ row.held = import[p].held \union {lock}
  BY <1>1, <1>2, <1>3 DEF ImportRows
<1> HIDE DEF lock, row
<1>6. import'[p] = row /\ locks'[lock] = p /\ \A i \in AllIdentities : i # lock => locks'[i] = locks[i]
  BY <1>2, <1>3, <1>4 DEF IngestTypes
<1>7. IngestTypes'
  <2>1. import' \in [Importers -> ImportRows]
    BY <1>2, <1>4, <1>5, IngestRowTypes
  <2>2. locks' \in [AllIdentities -> Importers \union {None}]
    BY <1>2, <1>4 DEF IngestTypes
  <2>3. QED
    BY <1>2, <1>4, <2>1, <2>2 DEF IngestTypes
<1>8. StepOf(p)
  <2>1. \A q \in Importers, i \in AllIdentities : q # p /\ locks[i] = q => locks'[i] = q
    BY <1>4, <1>6, IngestionAssumption
  <2>2. QED
    BY <1>2, <1>4, <2>1 DEF StepOf, IngestTypes
<1>9. Works(p)'
  <2>1. \A i \in import'[p].held : locks'[i] = p
    <3>1. \A i \in import[p].held : locks[i] = p /\ i \in AllIdentities
      BY <1>2 DEF Works, ImportRows
    <3>2. QED
      BY <1>5, <1>6, <3>1
  <2>2. /\ InRecord(p)' /\ import'[p].run = import[p].run /\ import'[p].pc = "locking"
        /\ ingestion' = ingestion
    BY <1>4, <1>5, <1>6 DEF InRecord
  <2>3. QED
    BY <1>1, <1>2, <2>1, <2>2 DEF Works
<1>10. import'[p].run = import[p].run /\ import'[p].pc # "writing"
  BY <1>5, <1>6
<1>11. QED
  BY <1>2, <1>4, <1>7, <1>8, <1>9, <1>10, SameRun, QuietStep

LEMMA LockedStep ==
  ASSUME IngestInv, NEW p \in Importers, Locked(p)
  PROVE  IngestInv'
<1> DEFINE row == [import[p] EXCEPT !.pc = "resolving"]
<1>1. InRecord(p) /\ import[p].pc = "locking"
  BY DEF Locked, InRecord
<1>2. IngestTypes /\ Works(p) /\ Importing(p) /\ import[p] \in ImportRows /\ import[p].run \in Runs
  BY <1>1, AtRecord
<1>3. /\ import' = [import EXCEPT ![p] = row]
      /\ UNCHANGED <<entity, source, ingestion, locks>> /\ Wanted(p) = {}
  BY DEF Locked
<1>4. row \in ImportRows /\ row.pc = "resolving" /\ row.run = import[p].run /\ row.held = import[p].held
  BY <1>2 DEF ImportRows
<1> HIDE DEF row
<1>5. import'[p] = row
  BY <1>2, <1>3 DEF IngestTypes
<1>6. IngestTypes'
  <2>1. import' \in [Importers -> ImportRows]
    BY <1>2, <1>3, <1>4, IngestRowTypes
  <2>2. QED
    BY <1>2, <1>3, <2>1 DEF IngestTypes
<1>7. StepOf(p)
  BY <1>2, <1>3 DEF StepOf, IngestTypes
<1>8. Works(p)'
  <2>1. Current(p)' = Current(p) /\ Importing(p)' /\ InRecord(p)'
    BY <1>3, <1>4, <1>5 DEF Current, Importing, InRecord
  <2>2. Identities(Current(p)) \subseteq import[p].held
    BY <1>3 DEF Wanted
  <2>3. QED
    BY <1>1, <1>2, <1>3, <1>4, <1>5, <2>1, <2>2 DEF Works
<1>9. QED
  BY <1>2, <1>3, <1>4, <1>5, <1>6, <1>7, <1>8, SameRun, QuietStep

\* A record is done with, whatever became of it.
LEMMA RecordEnds ==
  ASSUME IngestInv, NEW p \in Importers, InRecord(p),
         NEW counter \in {"invalid", "failed", "created", "updated", "duplicates"},
         ingestion' = [ingestion EXCEPT ![import[p].run] = Advance(@, counter)],
         locks' = Unlocked(p), import' = NextRecord(p)
  PROVE  /\ import' \in [Importers -> ImportRows]
         /\ ingestion' \in [Runs -> IngestRows]
         /\ locks' \in [AllIdentities -> Importers \union {None}]
         /\ StepOf(p) /\ OwnRun(p) /\ Works(p)'
         /\ import'[p].pc = "record"
<1> DEFINE r == import[p].run
           row == [Idle EXCEPT !.pc = "record", !.run = r]
           counted == Advance(ingestion[r], counter)
<1>1. IngestTypes /\ Works(p) /\ Importing(p) /\ r \in Runs
  BY AtRecord
<1>2. row \in ImportRows /\ row.pc = "record" /\ row.run = r /\ row.held = {}
  BY <1>1 DEF Idle, ImportRows
<1>3. counted \in IngestRows /\ counted.status = ingestion[r].status
  BY <1>1, CountedTypes
<1>4. import' = [import EXCEPT ![p] = row] /\ ingestion' = [ingestion EXCEPT ![r] = counted]
  BY DEF NextRecord
<1> HIDE DEF row, counted
<1>5. import'[p] = row /\ ingestion'[r] = counted
  BY <1>1, <1>4 DEF IngestTypes
<1>6. import' \in [Importers -> ImportRows] /\ ingestion' \in [Runs -> IngestRows]
  BY <1>1, <1>2, <1>3, <1>4, IngestRowTypes
<1>7. StepOf(p)
  <2>1. \A q \in Importers : q # p => import'[q] = import[q]
    BY <1>1, <1>4 DEF IngestTypes
  <2>2. \A q \in Importers : q # p /\ Importing(q) => ingestion'[import[q].run] = ingestion[import[q].run]
    <3>1. \A q \in Importers : q # p /\ Importing(q) => import[q].run # r /\ import[q].run \in Runs
      BY AtRecord DEF IngestInv, Works
    <3>2. QED
      BY <1>1, <1>4, <3>1 DEF IngestTypes
  <2>3. QED
    BY <1>1, <2>1, <2>2, UnlockedFacts DEF StepOf
<1>8. OwnRun(p)
  BY <1>1, <1>2, <1>5, SameRun
<1>9. Works(p)'
  <2>1. ~InRecord(p)' /\ import'[p].held = {} /\ import'[p].run = r /\ import'[p].pc = "record"
    BY <1>2, <1>5 DEF InRecord
  <2>2. ingestion'[r].status = "running"
    BY <1>1, <1>3, <1>5 DEF Works
  <2>3. QED
    BY <1>1, <2>1, <2>2 DEF Works
<1>10. QED
  BY <1>1, <1>2, <1>5, <1>6, <1>7, <1>8, <1>9, UnlockedFacts

LEMMA RecordFailsStep ==
  ASSUME IngestInv, NEW p \in Importers, InRecord(p), RecordFails(p)
  PROVE  IngestInv'
<1>1. "failed" \in {"invalid", "failed", "created", "updated", "duplicates"}
  OBVIOUS
<1>2. /\ ingestion' = [ingestion EXCEPT ![import[p].run] = Advance(@, "failed")]
      /\ locks' = Unlocked(p) /\ import' = NextRecord(p) /\ UNCHANGED <<entity, source>>
  BY DEF RecordFails
<1>3. /\ import' \in [Importers -> ImportRows] /\ ingestion' \in [Runs -> IngestRows]
      /\ locks' \in [AllIdentities -> Importers \union {None}]
      /\ StepOf(p) /\ OwnRun(p) /\ Works(p)' /\ import'[p].pc = "record"
  BY <1>1, <1>2, RecordEnds
<1>4. IngestTypes'
  BY <1>2, <1>3, AtRecord DEF IngestTypes
<1>5. QED
  BY <1>2, <1>3, <1>4, QuietStep

-----------------------------------------------------------------------------
(* Imports: resolving and writing.                                         *)

LEMMA OthersWriting ==
  ASSUME IngestInv, NEW p \in Importers, StepOf(p), NEW q \in Importers, q # p,
         import'[q].pc = "writing"
  PROVE  /\ InRecord(q) /\ Importing(q) /\ import'[q] = import[q] /\ import[q].pc = "writing"
         /\ Current(q)' = Current(q) /\ KindOf(q)' = KindOf(q)
<1>1. import'[q] = import[q] /\ import[q].pc = "writing"
  BY OthersSame
<1>2. Importing(q) /\ InRecord(q)
  BY <1>1 DEF Importing, InRecord
<1>3. QED
  BY <1>1, <1>2, OthersSame

LEMMA OneImporterStays ==
  ASSUME IngestInv, NEW p \in Importers, StepOf(p), OwnRun(p)
  PROVE  OneImporter'
<1> SUFFICES ASSUME NEW q \in Importers, NEW o \in Importers, q # o,
                    Importing(q)', Importing(o)', import'[q].run = import'[o].run
             PROVE  FALSE
  BY DEF OneImporter
<1>1. CASE q # p /\ o # p
  BY <1>1, OthersSame DEF IngestInv, OneImporter
<1>2. CASE q = p
  BY <1>2, OthersSame DEF OwnRun
<1>3. CASE o = p
  BY <1>3, OthersSame DEF OwnRun
<1>4. QED
  BY <1>1, <1>2, <1>3

LEMMA MatchFacts ==
  ASSUME IngestInv, NEW p \in Importers, InRecord(p)
  PROVE  /\ \A e \in Match(p) : e \in Entities /\ e # NoEntity /\ entity[e].kind = KindOf(p)
         /\ Match(p) = {} /\ KindOf(p) = "business" => SharingIds("business", Current(p)) = {}
<1> DEFINE rec == Current(p)
           known == source[RecordKey(rec)].entity
<1>1. /\ IngestTypes /\ import[p].run \in Runs /\ rec \in RecordsOf(import[p].run)
      /\ RecordKey(rec) \in Keys
  BY AtRecord
<1>2. known \in Entities \union {NoEntity} /\ NoEntity \notin Entities
  BY <1>1, IngestRowTypes, IngestionAssumption DEF SourceRows
<1>3. KindOf(p) \in {"business", "listing"} /\ KindOf(p) = Kind[import[p].run]
  BY <1>1, IngestionAssumption DEF KindOf
<1>4. KindOf(p) = "business" /\ known # NoEntity => entity[known].kind = "business"
  BY <1>1, <1>3 DEF IngestInv, RowsOfKind
<1> HIDE DEF rec, known
<1>5. \A kind \in {"business", "listing"} :
        /\ \A e \in SharingIds(kind, rec) : e \in Entities /\ entity[e].kind = kind
        /\ \A e \in SharingName(kind, rec) : e \in Entities /\ entity[e].kind = kind
  BY DEF SharingIds, SharingName, Rows
<1>6. CASE KindOf(p) = "business"
  <2>1. Match(p) = BusinessMatch(rec)
    BY <1>6 DEF Match, rec
  <2>2. CASE rec.ext # None /\ known # NoEntity
    BY <1>2, <1>4, <1>6, <2>1, <2>2 DEF BusinessMatch, known
  <2>3. CASE ~(rec.ext # None /\ known # NoEntity)
    <3>1. Match(p) = IF SharingIds("business", rec) # {} THEN SharingIds("business", rec)
                     ELSE IF Cardinality(SharingName("business", rec)) > 1 THEN SharingName("business", rec)
                     ELSE {}
      BY <2>1, <2>3 DEF BusinessMatch, known
    <3>2. QED
      BY <1>2, <1>5, <1>6, <3>1 DEF rec
  <2>4. QED
    BY <2>2, <2>3
<1>7. CASE KindOf(p) = "listing"
  <2>1. Match(p) = IF IdsOf(rec.ids) # {} THEN SharingIds("listing", rec) ELSE SharingName("listing", rec)
    BY <1>7 DEF Match, AgentMatch, rec
  <2>2. QED
    BY <1>2, <1>5, <1>7, <2>1
<1>8. QED
  BY <1>3, <1>6, <1>7

LEMMA ResolveStep ==
  ASSUME IngestInv, NEW p \in Importers, Resolve(p)
  PROVE  IngestInv'
<1>1. InRecord(p) /\ import[p].pc = "resolving"
  BY DEF Resolve, InRecord
<1>2. CASE Cardinality(Match(p)) > 1
  BY <1>1, <1>2, RecordFailsStep DEF Resolve
<1>3. CASE ~(Cardinality(Match(p)) > 1)
  <2> DEFINE into == IF Match(p) = {} THEN NoEntity ELSE CHOOSE e \in Match(p) : TRUE
             row == [import[p] EXCEPT !.pc = "writing", !.into = into]
  <2>1. IngestTypes /\ Works(p) /\ Importing(p) /\ import[p] \in ImportRows /\ import[p].run \in Runs
    BY <1>1, AtRecord
  <2>2. /\ import' = [import EXCEPT ![p] = row]
        /\ UNCHANGED <<ingestion, entity, source, locks>>
    BY <1>3 DEF Resolve
  <2>3. (Match(p) = {} /\ into = NoEntity) \/ into \in Match(p)
    OBVIOUS
  <2>4. into \in Entities \union {NoEntity} /\ (into # NoEntity => entity[into].kind = KindOf(p))
    BY <1>1, <2>3, MatchFacts
  <2>5. into = NoEntity => Match(p) = {}
    BY <1>1, <2>3, MatchFacts
  <2> HIDE DEF into
  <2>6. /\ row \in ImportRows /\ row.pc = "writing" /\ row.into = into
        /\ row.run = import[p].run /\ row.held = import[p].held
    BY <2>1, <2>4 DEF ImportRows
  <2> HIDE DEF row
  <2>7. import'[p] = row
    BY <2>1, <2>2 DEF IngestTypes
  <2>8. IngestTypes'
    <3>1. import' \in [Importers -> ImportRows]
      BY <2>1, <2>2, <2>6, IngestRowTypes
    <3>2. QED
      BY <2>1, <2>2, <3>1 DEF IngestTypes
  <2>9. StepOf(p)
    BY <2>1, <2>2 DEF StepOf, IngestTypes
  <2>10. Current(p)' = Current(p) /\ KindOf(p)' = KindOf(p) /\ InRecord(p)' /\ Importing(p)'
    BY <2>2, <2>6, <2>7 DEF Current, KindOf, InRecord, Importing
  <2>11. Works(p)'
    BY <1>1, <2>1, <2>2, <2>6, <2>7, <2>10 DEF Works
  <2>12. \A q \in Importers : Works(q)'
    BY <2>9, <2>11, OthersSame
  <2>13. OneImporter'
    BY <2>1, <2>6, <2>7, <2>9, SameRun, OneImporterStays
  <2>14. RowsOfKind'
    <3>1. RowsOfKind
      BY DEF IngestInv
    <3>2. \A q \in Importers : import'[q].pc = "writing" /\ import'[q].into # NoEntity =>
            entity'[import'[q].into].kind = KindOf(q)'
      <4> SUFFICES ASSUME NEW q \in Importers, import'[q].pc = "writing", import'[q].into # NoEntity
                   PROVE  entity'[import'[q].into].kind = KindOf(q)'
        OBVIOUS
      <4>1. CASE q = p
        BY <2>2, <2>4, <2>6, <2>7, <2>10, <4>1
      <4>2. CASE q # p
        BY <2>2, <2>9, <3>1, <4>2, OthersWriting DEF RowsOfKind
      <4>3. QED
        BY <4>1, <4>2
    <3>3. \A e \in Entities : Exists(e)' <=> Exists(e)
      BY <2>2 DEF Exists
    <3>4. QED
      BY <2>2, <3>1, <3>2, <3>3 DEF RowsOfKind
  <2>15. StillNew'
    <3> SUFFICES ASSUME NEW q \in Importers, import'[q].pc = "writing", import'[q].into = NoEntity,
                        KindOf(q)' = "business",
                        NEW o \in Rows("business")', NEW s \in Slots, Current(q)'.ids[s] # None
                 PROVE  entity'[o].ids[s] # Current(q)'.ids[s]
      BY DEF StillNew
    <3>1. o \in Rows("business") /\ entity'[o] = entity[o]
      BY <2>2 DEF Rows
    <3>2. CASE q = p
      <4>1. SharingIds("business", Current(p)) = {}
        BY <1>1, <2>5, <2>6, <2>7, <2>10, <3>2, MatchFacts
      <4>2. QED
        BY <2>10, <3>1, <3>2, <4>1 DEF SharingIds
    <3>3. CASE q # p
      BY <2>9, <3>1, <3>3, OthersWriting DEF IngestInv, StillNew
    <3>4. QED
      BY <3>2, <3>3
  <2>16. QED
    BY <2>8, <2>12, <2>13, <2>14, <2>15 DEF IngestInv
<1>4. QED
  BY <1>2, <1>3

\* A write that goes through: the row it creates, or merges the record into.
Writes(p, target) ==
  /\ import[p].into = NoEntity => ~Exists(target)
  /\ import[p].into # NoEntity => target = import[p].into
  /\ \/ entity' = [entity EXCEPT ![target] = Merged(entity[target], KindOf(p), Current(p))]
     \/ entity' = entity /\ import[p].into # NoEntity
  /\ StoredPayload(Current(p), import[p].run, target)
  /\ \E counter \in {"invalid", "failed", "created", "updated", "duplicates"} :
       ingestion' = [ingestion EXCEPT ![import[p].run] = Advance(@, counter)]
  /\ locks' = Unlocked(p) /\ import' = NextRecord(p)

LEMMA WriteOutcome ==
  ASSUME IngestInv, NEW p \in Importers, Write(p)
  PROVE  RecordFails(p) \/ \E target \in Entities : Writes(p, target)
<1> DEFINE created == import[p].into = NoEntity
           target == IF created THEN CHOOSE e \in Fresh : \A f \in Fresh : e <= f
                     ELSE import[p].into
           fails == KindOf(p) = "business" /\ Rewrites(p, target) /\ Refused(target, Current(p))
<1>1. InRecord(p) /\ import[p].pc = "writing"
  BY DEF Write, InRecord
<1>2. import[p] \in ImportRows
  BY <1>1, AtRecord
<1>3. created => target \in Fresh
  <2>1. Fresh \in SUBSET Nat
    BY IngestionAssumption DEF Fresh
  <2>2. created => Fresh # {}
    BY DEF Write
  <2>3. created => \E e \in Fresh : \A f \in Fresh : e <= f
    BY <2>1, <2>2, LeastNatural
  <2>4. QED
    BY <2>3
<1>4. target \in Entities
  BY <1>2, <1>3 DEF ImportRows, Fresh
<1>5. created => ~Exists(target)
  BY <1>3 DEF Fresh
<1>6. created => Rewrites(p, target)
  BY DEF Rewrites
<1>7. CASE fails
  BY <1>7 DEF Write, KindOf
<1>8. CASE ~fails
  <2>1. /\ entity' = IF Rewrites(p, target)
                       THEN [entity EXCEPT ![target] = Merged(@, KindOf(p), Current(p))]
                       ELSE entity
        /\ StoredPayload(Current(p), import[p].run, target)
        /\ \E answered \in BOOLEAN :
             ingestion' = [ingestion EXCEPT ![import[p].run] =
               Advance(@, IF ~answered THEN "failed" ELSE IF Seen(p) THEN "duplicates"
                          ELSE IF created THEN "created" ELSE "updated")]
        /\ locks' = Unlocked(p) /\ import' = NextRecord(p)
    BY <1>8 DEF Write, KindOf
  <2>2. PICK counter \in {"failed", "duplicates", "created", "updated"} :
          ingestion' = [ingestion EXCEPT ![import[p].run] = Advance(@, counter)]
    BY <2>1
  <2> HIDE DEF target
  <2>3. \/ entity' = [entity EXCEPT ![target] = Merged(entity[target], KindOf(p), Current(p))]
        \/ entity' = entity /\ ~created
    BY <1>6, <2>1
  <2>4. ~created => target = import[p].into
    BY DEF target
  <2>5. Writes(p, target)
    BY <1>5, <2>1, <2>2, <2>3, <2>4 DEF Writes
  <2>6. QED
    BY <1>4, <2>5
<1>9. QED
  BY <1>7, <1>8

\* What a write leaves and what it gives.
LEMMA WriteFacts ==
  ASSUME IngestInv, NEW p \in Importers, import[p].pc = "writing", NEW target \in Entities,
         Writes(p, target)
  PROVE  /\ entity' \in [Entities -> EntityRows]
         /\ \A e \in Entities : e # target => entity'[e] = entity[e]
         /\ entity'[target].kind = KindOf(p)
         /\ Exists(target) => entity[target].kind = KindOf(p)
         /\ \A s \in Slots : entity'[target].ids[s] \in {entity[target].ids[s], Current(p).ids[s]}
         /\ import[p].into = NoEntity => \A s \in Slots : entity'[target].ids[s] = Current(p).ids[s]
<1> DEFINE row == Merged(entity[target], KindOf(p), Current(p))
<1>1. InRecord(p)
  BY DEF InRecord
<1>2. /\ IngestTypes /\ Current(p).ids \in [Slots -> Nat] /\ Current(p).name \in RowNames
      /\ import[p].run \in Runs
  BY <1>1, AtRecord
<1>3. KindOf(p) \in {"business", "listing"}
  BY <1>2, IngestionAssumption DEF KindOf
<1>4. entity[target] \in EntityRows
  BY <1>2 DEF IngestTypes
<1>5. /\ row \in EntityRows /\ row.kind = KindOf(p)
      /\ \A s \in Slots : row.ids[s] = IF Current(p).ids[s] = None THEN entity[target].ids[s]
                                       ELSE Current(p).ids[s]
  BY <1>2, <1>3, <1>4 DEF Merged, EntityRows
<1> HIDE DEF row
<1>6. Exists(target) => import[p].into # NoEntity /\ entity[target].kind = KindOf(p)
  BY DEF Writes, IngestInv, RowsOfKind
<1>7. ~Exists(target) => \A s \in Slots : entity[target].ids[s] = None
  BY DEF IngestInv, RowsOfKind
<1>8. CASE entity' = [entity EXCEPT ![target] = row]
  <2>1. entity'[target] = row /\ \A e \in Entities : e # target => entity'[e] = entity[e]
    BY <1>2, <1>8 DEF IngestTypes
  <2>2. entity' \in [Entities -> EntityRows]
    BY <1>2, <1>5, <1>8, IngestRowTypes
  <2>3. import[p].into = NoEntity => \A s \in Slots : entity[target].ids[s] = None
    BY <1>7 DEF Writes
  <2>4. QED
    BY <1>5, <1>6, <2>1, <2>2, <2>3
<1>9. CASE entity' = entity /\ import[p].into # NoEntity
  <2>1. entity[target].kind = KindOf(p)
    BY <1>9 DEF Writes, IngestInv, RowsOfKind
  <2>2. QED
    BY <1>2, <1>9, <2>1 DEF IngestTypes
<1>10. QED
  BY <1>8, <1>9 DEF Writes, row

\* Two importers past locking have no identifier in common.
LEMMA NothingShared ==
  ASSUME IngestInv, NEW p \in Importers, NEW q \in Importers, q # p,
         import[p].pc = "writing", import[q].pc = "writing",
         KindOf(p) = "business", KindOf(q) = "business", NEW s \in Slots,
         Current(q).ids[s] # None
  PROVE  Current(p).ids[s] # Current(q).ids[s]
<1> SUFFICES ASSUME Current(p).ids[s] = Current(q).ids[s] PROVE FALSE
  OBVIOUS
<1> DEFINE i == Current(q).ids[s]
<1>1. i \in Identities(Current(p)) /\ i \in Identities(Current(q))
  BY DEF Identities, IdsOf
<1> HIDE DEF i
<1>2. i \in import[p].held /\ i \in import[q].held
  BY <1>1 DEF IngestInv, Works
<1>3. locks[i] = p /\ locks[i] = q
  BY <1>2 DEF IngestInv, Works
<1>4. QED
  BY <1>3

LEMMA WriteStep ==
  ASSUME IngestInv, NEW p \in Importers, Write(p)
  PROVE  IngestInv'
<1>1. InRecord(p) /\ import[p].pc = "writing"
  BY DEF Write, InRecord
<1>2. CASE RecordFails(p)
  BY <1>1, <1>2, RecordFailsStep
<1>3. ASSUME NEW target \in Entities, Writes(p, target)
      PROVE  IngestInv'
  <2>1. PICK counter \in {"invalid", "failed", "created", "updated", "duplicates"} :
          ingestion' = [ingestion EXCEPT ![import[p].run] = Advance(@, counter)]
    BY <1>3 DEF Writes
  <2>2. /\ import' \in [Importers -> ImportRows] /\ ingestion' \in [Runs -> IngestRows]
        /\ locks' \in [AllIdentities -> Importers \union {None}]
        /\ StepOf(p) /\ OwnRun(p) /\ Works(p)' /\ import'[p].pc = "record"
    BY <1>1, <1>3, <2>1, RecordEnds DEF Writes
  <2>3. /\ IngestTypes /\ import[p].run \in Runs /\ Current(p) \in RecordsOf(import[p].run)
        /\ Current(p) \in Records
    BY <1>1, AtRecord
  <2>4. /\ source' \in [Keys -> SourceRows]
        /\ \A k \in Keys : source'[k].entity =
             IF k = RecordKey(Current(p)) THEN target ELSE source[k].entity
    <3>1. StoredPayload(Current(p), import[p].run, target) /\ target \in Entities \union {NoEntity}
      BY <1>3 DEF Writes
    <3>2. target # NoEntity
      BY IngestionAssumption
    <3>3. QED
      BY <2>3, <3>1, <3>2, StoredTypes
  <2>5. /\ entity' \in [Entities -> EntityRows]
        /\ \A e \in Entities : e # target => entity'[e] = entity[e]
        /\ entity'[target].kind = KindOf(p)
        /\ Exists(target) => entity[target].kind = KindOf(p)
        /\ \A s \in Slots : entity'[target].ids[s] \in {entity[target].ids[s], Current(p).ids[s]}
    BY <1>1, <1>3, WriteFacts
  <2>6. IngestTypes'
    BY <2>2, <2>4, <2>5 DEF IngestTypes
  <2>7. \A q \in Importers : Works(q)'
    BY <2>2, OthersSame
  <2>8. OneImporter'
    BY <2>2, OneImporterStays
  <2>9. KindOf(p) \in {"business", "listing"} /\ KindOf(p) = Kind[import[p].run]
    BY <2>3, IngestionAssumption DEF KindOf
  <2>10. \A e \in Entities : Exists(e) => entity'[e].kind = entity[e].kind
    BY <2>5
  <2>11. RowsOfKind'
    <3>1. RowsOfKind
      BY DEF IngestInv
    <3>2. \A e \in Entities : ~Exists(e)' => \A s \in Slots : entity'[e].ids[s] = None
      <4>1. Exists(target)'
        BY <2>5, <2>9 DEF Exists
      <4>2. QED
        BY <2>5, <3>1, <4>1 DEF RowsOfKind, Exists
    <3>3. \A q \in Importers : import'[q].pc = "writing" /\ import'[q].into # NoEntity =>
            entity'[import'[q].into].kind = KindOf(q)'
      <4> SUFFICES ASSUME NEW q \in Importers, import'[q].pc = "writing", import'[q].into # NoEntity
                   PROVE  entity'[import'[q].into].kind = KindOf(q)'
        OBVIOUS
      <4>1. q # p
        BY <2>2
      <4>2. InRecord(q) /\ import'[q] = import[q] /\ import[q].pc = "writing" /\ KindOf(q)' = KindOf(q)
        BY <2>2, <4>1, OthersWriting
      <4>3. entity[import[q].into].kind = KindOf(q) /\ import[q].into \in Entities
        BY <2>3, <3>1, <4>2 DEF RowsOfKind, IngestTypes, ImportRows
      <4>4. KindOf(q) \in {"business", "listing"}
        BY <4>2, AtRecord, IngestionAssumption DEF KindOf
      <4>5. QED
        BY <2>10, <4>2, <4>3, <4>4 DEF Exists
    <3>4. \A r \in Runs : Kind[r] = "business" => \A rec \in RecordsOf(r) :
            source'[RecordKey(rec)].entity # NoEntity =>
              entity'[source'[RecordKey(rec)].entity].kind = "business"
      <4> SUFFICES ASSUME NEW r \in Runs, Kind[r] = "business", NEW rec \in RecordsOf(r),
                          source'[RecordKey(rec)].entity # NoEntity
                   PROVE  entity'[source'[RecordKey(rec)].entity].kind = "business"
        OBVIOUS
      <4>1. RecordKey(rec) \in Keys
        BY DEF Keys, Records
      <4>2. CASE RecordKey(rec) = RecordKey(Current(p))
        <5>1. KindOf(p) = "business"
          BY <2>3, <2>9, <4>2, IngestionAssumption
        <5>2. QED
          BY <2>4, <2>5, <4>1, <4>2, <5>1
      <4>3. CASE RecordKey(rec) # RecordKey(Current(p))
        <5>1. source'[RecordKey(rec)].entity = source[RecordKey(rec)].entity
          BY <2>4, <4>1, <4>3
        <5>2. source[RecordKey(rec)].entity \in Entities
          BY <2>3, <4>1, <5>1, IngestRowTypes DEF SourceRows
        <5>3. entity[source[RecordKey(rec)].entity].kind = "business"
          BY <3>1, <5>1 DEF RowsOfKind
        <5>4. QED
          BY <2>10, <5>1, <5>2, <5>3 DEF Exists
      <4>4. QED
        BY <4>2, <4>3
    <3>5. QED
      BY <3>2, <3>3, <3>4 DEF RowsOfKind
  <2>12. StillNew'
    <3> SUFFICES ASSUME NEW q \in Importers, import'[q].pc = "writing", import'[q].into = NoEntity,
                        KindOf(q)' = "business",
                        NEW o \in Rows("business")', NEW s \in Slots, Current(q)'.ids[s] # None
                 PROVE  entity'[o].ids[s] # Current(q)'.ids[s]
      BY DEF StillNew
    <3>1. q # p
      BY <2>2
    <3>2. /\ import'[q] = import[q] /\ import[q].pc = "writing"
          /\ Current(q)' = Current(q) /\ KindOf(q)' = KindOf(q)
      BY <2>2, <3>1, OthersWriting
    <3>3. o \in Entities /\ entity'[o].kind = "business"
      BY DEF Rows
    <3>4. \A e \in Rows("business") : entity[e].ids[s] # Current(q).ids[s]
      BY <3>2 DEF IngestInv, StillNew
    <3>5. CASE o # target
      BY <2>5, <3>2, <3>3, <3>4, <3>5 DEF Rows
    <3>6. CASE o = target
      <4>1. KindOf(p) = "business"
        BY <2>5, <3>3, <3>6
      <4>2. Current(p).ids[s] # Current(q).ids[s]
        BY <1>1, <3>1, <3>2, <4>1, NothingShared
      <4>3. entity[target].ids[s] # Current(q).ids[s]
        <5>1. CASE Exists(target)
          BY <2>5, <3>4, <4>1, <5>1 DEF Rows
        <5>2. CASE ~Exists(target)
          BY <3>2, <5>2 DEF IngestInv, RowsOfKind
        <5>3. QED
          BY <5>1, <5>2
      <4>4. QED
        BY <2>5, <3>2, <3>6, <4>2, <4>3
    <3>7. QED
      BY <3>5, <3>6
  <2>13. QED
    BY <2>6, <2>7, <2>8, <2>11, <2>12 DEF IngestInv
<1>4. QED
  BY <1>2, <1>3, WriteOutcome

-----------------------------------------------------------------------------
(* Imports: the results.                                                   *)

IngestSpec == IngestInit /\ [][IngestNext]_ingestVars

LEMMA IngestNextStep ==
  ASSUME IngestInv, [IngestNext]_ingestVars
  PROVE  IngestInv'
<1>1. CASE IngestNext
  <2>1. PICK p \in Importers :
          \/ \E r \in Runs : BeginImport(p, r)
          \/ ImportThrows(p) \/ Discard(p) \/ Reject(p) \/ BeginRecord(p) \/ TakeLock(p) \/ Locked(p)
          \/ Resolve(p) \/ Write(p) \/ TransactionFails(p) \/ FinishImport(p) \/ ImporterDies(p)
    BY <1>1 DEF IngestNext
  <2>2. QED
    BY <2>1, BeginImportStep, DiscardStep, RejectStep, ImportThrowsStep, BeginRecordStep, TakeLockStep,
       LockedStep, ResolveStep, WriteStep, RecordFailsStep, FinishImportStep, ImporterDiesStep
       DEF TransactionFails
<1>2. CASE UNCHANGED ingestVars
  <2>1. ingestion' = ingestion /\ entity' = entity /\ source' = source /\ locks' = locks /\ import' = import
    BY <1>2 DEF ingestVars
  <2>2. IngestTypes' /\ OneImporter'
    BY <2>1 DEF IngestInv, IngestTypes, OneImporter, Importing
  <2>3. (\A p \in Importers : Works(p))'
    BY <2>1 DEF IngestInv, Works, Importing, InRecord, KindOf, Current
  <2>4. RowsOfKind' /\ StillNew'
    BY <2>1 DEF IngestInv, RowsOfKind, StillNew, KindOf, Current, Exists, Rows
  <2>5. QED
    BY <2>2, <2>3, <2>4 DEF IngestInv
<1>3. QED
  BY <1>1, <1>2

\* Imports keep rows and locks in step: past locking an importer holds every
\* identity of its record, and what it found to be new is new until it
\* writes (service.ts 76-104, businesses.ts).
THEOREM IngestInductive == IngestSpec => []IngestInv
<1>1. IngestInit => IngestInv
  BY IngestInit0
<1>2. IngestInv /\ [IngestNext]_ingestVars => IngestInv'
  BY IngestNextStep
<1>3. QED
  BY <1>1, <1>2, PTL DEF IngestSpec

LEMMA NewStep ==
  ASSUME IngestInv, IngestNext, NEW e \in Entities, entity'[e].kind = "business", ~Exists(e),
         NEW o \in Rows("business"), NEW s \in Slots, entity'[e].ids[s] # None
  PROVE  entity[o].ids[s] # entity'[e].ids[s]
<1>1. entity'[e] # entity[e]
  BY DEF Exists
<1>2. PICK p \in Importers : Write(p)
  <2>1. PICK p \in Importers :
          \/ \E r \in Runs : BeginImport(p, r)
          \/ ImportThrows(p) \/ Discard(p) \/ Reject(p) \/ BeginRecord(p) \/ TakeLock(p) \/ Locked(p)
          \/ Resolve(p) \/ Write(p) \/ TransactionFails(p) \/ FinishImport(p) \/ ImporterDies(p)
    BY DEF IngestNext
  <2>2. /\ (\E r \in Runs : BeginImport(p, r)) => entity' = entity
        /\ ImportThrows(p) => entity' = entity
        /\ Discard(p) => entity' = entity
        /\ Reject(p) => entity' = entity
    <3>1. (\E r \in Runs : BeginImport(p, r)) => entity' = entity
      BY DEF BeginImport
    <3>2. ImportThrows(p) => entity' = entity
      BY DEF ImportThrows
    <3>3. Discard(p) => entity' = entity
      BY DEF Discard
    <3>4. Reject(p) => entity' = entity
      BY DEF Reject
    <3>5. QED
      BY <3>1, <3>2, <3>3, <3>4
  <2>3. BeginRecord(p) \/ TakeLock(p) \/ Locked(p) \/ Resolve(p) => entity' = entity
    BY DEF BeginRecord, TakeLock, Locked, Resolve, RecordFails
  <2>4. TransactionFails(p) \/ FinishImport(p) \/ ImporterDies(p) => entity' = entity
    BY DEF TransactionFails, RecordFails, FinishImport, ImporterDies
  <2>5. QED
    BY <1>1, <2>1, <2>2, <2>3, <2>4
<1>3. import[p].pc = "writing" /\ ~RecordFails(p)
  BY <1>1, <1>2 DEF Write, RecordFails
<1>4. PICK target \in Entities : Writes(p, target)
  BY <1>2, <1>3, WriteOutcome
<1>5. /\ \A f \in Entities : f # target => entity'[f] = entity[f]
      /\ entity'[target].kind = KindOf(p)
      /\ Exists(target) => entity[target].kind = KindOf(p)
      /\ import[p].into = NoEntity => \A t \in Slots : entity'[target].ids[t] = Current(p).ids[t]
  BY <1>3, <1>4, WriteFacts
<1>6. e = target /\ KindOf(p) = "business"
  BY <1>1, <1>5
<1>7. import[p].into = NoEntity
  BY <1>3, <1>4, <1>6 DEF Writes, IngestInv, RowsOfKind, Exists
<1>8. QED
  BY <1>3, <1>5, <1>6, <1>7 DEF IngestInv, StillNew

\* A business that is created shares no identifier with a business that
\* exists, however imports of the same prospect interleave, die or fail
\* (service.ts 76-104 and the writes after it).
THEOREM NewIsNew == IngestSpec => NewBusinessIsNew
<1>1. IngestInv /\ [IngestNext]_ingestVars =>
        [\A e \in Entities : entity'[e].kind = "business" /\ ~Exists(e) =>
           \A o \in Rows("business"), s \in Slots :
             entity'[e].ids[s] # None => entity[o].ids[s] # entity'[e].ids[s]]_ingestVars
  BY NewStep
<1>2. QED
  BY <1>1, IngestInductive, PTL DEF IngestSpec, NewBusinessIsNew

Brought(row) == row.created + row.updated + row.duplicates

\* The row of a run accounts for the records before its next one, and is
\* completed only when it brought in each of them.
Accounts(r, row) ==
  /\ row.next - 1 + row.twice = row.invalid + row.failed + Brought(row)
  /\ row.twice <= row.invalid /\ row.twice <= row.failed
  /\ row.next <= Len(Batch[r]) + 1
  /\ row.status = "completed" => row.invalid = 0 /\ row.failed = 0 /\ row.next > Len(Batch[r])

LEMMA BatchLength == ASSUME NEW r \in Runs PROVE Len(Batch[r]) \in Nat
BY IngestionAssumption

LEMMA BroughtTypes == ASSUME NEW row \in IngestRows PROVE Brought(row) \in Nat
<1>1. row.created \in Nat /\ row.updated \in Nat /\ row.duplicates \in Nat
  BY DEF IngestRows
<1>2. QED
  BY <1>1 DEF Brought

\* A record is counted by one counter, or by two that twice counts.
LEMMA OnceAccounts ==
  ASSUME NEW r \in Runs, NEW row \in IngestRows, NEW new \in IngestRows, Accounts(r, row),
         row.next <= Len(Batch[r]), row.status = "running", new.status = row.status,
         new.next = row.next + 1,
         new.twice = row.twice, new.invalid >= row.invalid, new.failed >= row.failed,
         new.invalid + new.failed + Brought(new) = row.invalid + row.failed + Brought(row) + 1
  PROVE  Accounts(r, new)
<1> DEFINE l == Len(Batch[r])
           a == Brought(row)
           b == Brought(new)
           n == row.next
           t == row.twice
           i == row.invalid
           f == row.failed
           j == new.invalid
           g == new.failed
<1>1. l \in Nat /\ a \in Nat /\ b \in Nat
  BY BatchLength, BroughtTypes
<1>2. n \in Nat /\ t \in Nat /\ i \in Nat /\ f \in Nat /\ j \in Nat /\ g \in Nat
  BY DEF IngestRows
<1>3. n - 1 + t = i + f + a /\ t <= i /\ t <= f /\ n <= l
  BY DEF Accounts
<1>4. new.next = n + 1 /\ new.twice = t /\ j + g + b = i + f + a + 1 /\ j >= i /\ g >= f /\ new.status # "completed"
  OBVIOUS
<1>5. Accounts(r, new) <=>
        /\ new.next - 1 + new.twice = j + g + b /\ new.twice <= j /\ new.twice <= g
        /\ new.next <= l + 1
  BY <1>4 DEF Accounts
<1> HIDE DEF l, a, b, n, t, i, f, j, g
<1>6. (n + 1) - 1 + t = j + g + b /\ t <= j /\ t <= g /\ n + 1 <= l + 1
  BY <1>1, <1>2, <1>3, <1>4
<1>7. QED
  BY <1>4, <1>5, <1>6

LEMMA AgainAccounts ==
  ASSUME NEW r \in Runs, NEW row \in IngestRows, NEW new \in IngestRows, Accounts(r, row),
         row.next <= Len(Batch[r]), row.status = "running", new.status = row.status,
         new.next = row.next + 1,
         new.twice = row.twice + 1, new.invalid = row.invalid + 1, new.failed = row.failed + 1,
         Brought(new) = Brought(row)
  PROVE  Accounts(r, new)
<1> DEFINE l == Len(Batch[r])
           a == Brought(row)
           b == Brought(new)
           n == row.next
           t == row.twice
           i == row.invalid
           f == row.failed
           j == new.invalid
           g == new.failed
<1>1. l \in Nat /\ a \in Nat /\ b \in Nat
  BY BatchLength, BroughtTypes
<1>2. n \in Nat /\ t \in Nat /\ i \in Nat /\ f \in Nat /\ j \in Nat /\ g \in Nat
  BY DEF IngestRows
<1>3. n - 1 + t = i + f + a /\ t <= i /\ t <= f /\ n <= l
  BY DEF Accounts
<1>4. new.next = n + 1 /\ new.twice = t + 1 /\ j = i + 1 /\ g = f + 1 /\ b = a /\ new.status # "completed"
  OBVIOUS
<1>5. Accounts(r, new) <=>
        /\ new.next - 1 + new.twice = j + g + b /\ new.twice <= j /\ new.twice <= g
        /\ new.next <= l + 1
  BY <1>4 DEF Accounts
<1> HIDE DEF l, a, b, n, t, i, f, j, g
<1>6. (n + 1) - 1 + (t + 1) = j + g + b /\ t + 1 <= j /\ t + 1 <= g /\ n + 1 <= l + 1
  BY <1>1, <1>2, <1>3, <1>4
<1>7. QED
  BY <1>4, <1>5, <1>6

LEMMA NextTypes == \A n \in Nat \ {0} : n + 1 \in Nat \ {0}
OBVIOUS

LEMMA AdvanceAccounts ==
  ASSUME IngestTypes, NEW r \in Runs, Accounts(r, ingestion[r]), ingestion[r].next <= Len(Batch[r]),
         ingestion[r].status = "running",
         NEW counter \in {"invalid", "failed", "created", "updated", "duplicates"}
  PROVE  Accounts(r, Advance(ingestion[r], counter))
<1> DEFINE row == ingestion[r]
           moved == [row EXCEPT !.next = @ + 1]
           new == Advance(row, counter)
<1>1. row \in IngestRows /\ new \in IngestRows /\ new.status = row.status
  BY IngestRowTypes, CountedTypes
<1> HIDE DEF row
<1>2. /\ moved \in IngestRows /\ moved.next = row.next + 1 /\ moved.invalid = row.invalid
      /\ moved.failed = row.failed /\ moved.created = row.created /\ moved.updated = row.updated
      /\ moved.duplicates = row.duplicates /\ moved.twice = row.twice
  <2>1. moved \in IngestRows
    BY <1>1, NextTypes DEF IngestRows
  <2>2. QED
    BY <1>1, <2>1 DEF IngestRows
<1>3. new = [moved EXCEPT ![counter] = @ + 1]
  BY <1>1 DEF Advance, IngestRows
<1> HIDE DEF moved, new
<1>4. new.next = moved.next /\ new.twice = moved.twice
  BY <1>2, <1>3 DEF IngestRows
<1>5. /\ new.invalid = IF counter = "invalid" THEN row.invalid + 1 ELSE row.invalid
      /\ new.failed = IF counter = "failed" THEN row.failed + 1 ELSE row.failed
      /\ new.created = IF counter = "created" THEN row.created + 1 ELSE row.created
      /\ new.updated = IF counter = "updated" THEN row.updated + 1 ELSE row.updated
      /\ new.duplicates = IF counter = "duplicates" THEN row.duplicates + 1 ELSE row.duplicates
  BY <1>2, <1>3 DEF IngestRows
<1> DEFINE i == row.invalid
           f == row.failed
           c == row.created
           u == row.updated
           d == row.duplicates
<1>6. i \in Nat /\ f \in Nat /\ c \in Nat /\ u \in Nat /\ d \in Nat
  BY <1>1 DEF IngestRows
<1>7. /\ new.invalid + new.failed + Brought(new) = i + f + (c + u + d) + 1
      /\ new.invalid >= i /\ new.failed >= f
  <2>1. CASE counter = "invalid"
    <3>1. new.invalid = (i + 1) /\ new.failed = f /\ Brought(new) = c + u + d
      BY <1>5, <2>1 DEF Brought
    <3> HIDE DEF i, f, c, u, d
    <3>2. (i + 1) + f + (c + u + d) = i + f + (c + u + d) + 1 /\ (i + 1) >= i /\ f >= f
      BY <1>6
    <3>3. QED
      BY <3>1, <3>2
  <2>2. CASE counter = "failed"
    <3>1. new.invalid = i /\ new.failed = (f + 1) /\ Brought(new) = c + u + d
      BY <1>5, <2>2 DEF Brought
    <3> HIDE DEF i, f, c, u, d
    <3>2. i + (f + 1) + (c + u + d) = i + f + (c + u + d) + 1 /\ i >= i /\ (f + 1) >= f
      BY <1>6
    <3>3. QED
      BY <3>1, <3>2
  <2>3. CASE counter = "created"
    <3>1. new.invalid = i /\ new.failed = f /\ Brought(new) = (c + 1) + u + d
      BY <1>5, <2>3 DEF Brought
    <3> HIDE DEF i, f, c, u, d
    <3>2. i + f + ((c + 1) + u + d) = i + f + (c + u + d) + 1 /\ i >= i /\ f >= f
      BY <1>6
    <3>3. QED
      BY <3>1, <3>2
  <2>4. CASE counter = "updated"
    <3>1. new.invalid = i /\ new.failed = f /\ Brought(new) = c + (u + 1) + d
      BY <1>5, <2>4 DEF Brought
    <3> HIDE DEF i, f, c, u, d
    <3>2. i + f + (c + (u + 1) + d) = i + f + (c + u + d) + 1 /\ i >= i /\ f >= f
      BY <1>6
    <3>3. QED
      BY <3>1, <3>2
  <2>5. CASE counter = "duplicates"
    <3>1. new.invalid = i /\ new.failed = f /\ Brought(new) = c + u + (d + 1)
      BY <1>5, <2>5 DEF Brought
    <3> HIDE DEF i, f, c, u, d
    <3>2. i + f + (c + u + (d + 1)) = i + f + (c + u + d) + 1 /\ i >= i /\ f >= f
      BY <1>6
    <3>3. QED
      BY <3>1, <3>2
  <2>6. QED
    BY <2>1, <2>2, <2>3, <2>4, <2>5
<1>8. Accounts(r, row) /\ row.next <= Len(Batch[r]) /\ row.status = "running"
  BY DEF row
<1>9. Accounts(r, new)
  <2>1. new.invalid + new.failed + Brought(new) = row.invalid + row.failed + Brought(row) + 1
    BY <1>7 DEF Brought
  <2>2. QED
    BY <1>1, <1>2, <1>4, <1>7, <1>8, <2>1, OnceAccounts
<1>10. QED
  BY <1>9 DEF new, row

LEMMA TwiceAccounts ==
  ASSUME IngestTypes, NEW r \in Runs, Accounts(r, ingestion[r]), ingestion[r].next <= Len(Batch[r]),
         ingestion[r].status = "running"
  PROVE  Accounts(r, CountedTwice(ingestion[r]))
<1> DEFINE row == ingestion[r]
           new == CountedTwice(row)
<1>1. row \in IngestRows /\ new \in IngestRows /\ new.status = row.status
  BY IngestRowTypes, TwiceTypes
<1>2. new = [row EXCEPT !.next = @ + 1, !.invalid = @ + 1, !.failed = @ + 1, !.twice = @ + 1]
  BY <1>1 DEF CountedTwice, Advance, IngestRows
<1> HIDE DEF new, row
<1>3. /\ new.next = row.next + 1 /\ new.invalid = row.invalid + 1 /\ new.failed = row.failed + 1
      /\ new.twice = row.twice + 1 /\ new.created = row.created /\ new.updated = row.updated
      /\ new.duplicates = row.duplicates
  BY <1>1, <1>2 DEF IngestRows
<1>4. Accounts(r, row) /\ row.next <= Len(Batch[r]) /\ row.status = "running"
  BY DEF row
<1>5. Brought(new) = Brought(row)
  BY <1>3 DEF Brought
<1>6. Accounts(r, new)
  BY <1>1, <1>3, <1>4, <1>5, AgainAccounts
<1>7. QED
  BY <1>6 DEF new, row

LEMMA RunsAccount ==
  ASSUME IngestInv, \A r \in Runs : Accounts(r, ingestion[r]), IngestNext
  PROVE  \A r \in Runs : Accounts(r, ingestion'[r])
<1>1. IngestTypes /\ \A r \in Runs : ingestion[r] \in IngestRows
  BY IngestRowTypes DEF IngestInv
<1>2. CASE UNCHANGED ingestion
  BY <1>2
<1>3. ASSUME NEW r \in Runs, NEW row, Accounts(r, row), ingestion' = [ingestion EXCEPT ![r] = row]
      PROVE  \A q \in Runs : Accounts(q, ingestion'[q])
  BY <1>1, <1>3 DEF IngestTypes
<1>4. \A p \in Importers : Importing(p) =>
        import[p].run \in Runs /\ ingestion[import[p].run].status = "running"
  BY DEF IngestInv, Works
<1>5. ASSUME NEW p \in Importers, InRecord(p),
             NEW counter \in {"invalid", "failed", "created", "updated", "duplicates"},
             ingestion' = [ingestion EXCEPT ![import[p].run] = Advance(@, counter)]
      PROVE  \A q \in Runs : Accounts(q, ingestion'[q])
  <2>1. Importing(p) /\ ingestion[import[p].run].next <= Len(Batch[import[p].run])
    BY <1>5 DEF IngestInv, Works, Importing, InRecord
  <2>2. Accounts(import[p].run, Advance(ingestion[import[p].run], counter))
    BY <1>1, <1>4, <2>1, AdvanceAccounts
  <2>3. QED
    BY <1>3, <1>4, <1>5, <2>1, <2>2
<1>6. ASSUME NEW p \in Importers, NEW r \in Runs, BeginImport(p, r)
      PROVE  \A q \in Runs : Accounts(q, ingestion'[q])
  <2> DEFINE row == [ingestion[r] EXCEPT !.status = "running"]
  <2>1. Accounts(r, row)
    BY <1>1 DEF Accounts, Brought, IngestRows
  <2>2. QED
    BY <1>3, <1>6, <2>1 DEF BeginImport
<1>7. ASSUME NEW p \in Importers, BeginRecord(p)
      PROVE  \A q \in Runs : Accounts(q, ingestion'[q])
  <2> DEFINE r == import[p].run
             row == [ingestion[r] EXCEPT !.valid = @ + 1]
  <2>1. r \in Runs
    BY <1>4, <1>7 DEF BeginRecord, Importing
  <2>2. Accounts(r, row)
    BY <1>1, <2>1 DEF Accounts, Brought, IngestRows
  <2>3. QED
    BY <1>3, <1>7, <2>1, <2>2 DEF BeginRecord
<1>8. ASSUME NEW p \in Importers, FinishImport(p)
      PROVE  \A q \in Runs : Accounts(q, ingestion'[q])
  <2> DEFINE r == import[p].run
             row == [ingestion[r] EXCEPT !.status = FinalStatus(ingestion[r])]
  <2>1. r \in Runs /\ ingestion[r].next > Len(Batch[r])
    BY <1>4, <1>8 DEF FinishImport, Importing
  <2>2. Accounts(r, row)
    BY <1>1, <2>1 DEF Accounts, Brought, IngestRows, FinalStatus
  <2>3. QED
    BY <1>3, <1>8, <2>1, <2>2 DEF FinishImport
<1>9. ASSUME NEW p \in Importers, Discard(p) \/ Reject(p)
      PROVE  \A q \in Runs : Accounts(q, ingestion'[q])
  <2> DEFINE r == import[p].run
  <2>1. /\ r \in Runs /\ ingestion[r].status = "running" /\ ingestion[r].next <= Len(Batch[r])
        /\ \/ \E counter \in {"invalid", "failed"} :
                ingestion' = [ingestion EXCEPT ![r] = Advance(ingestion[r], counter)]
           \/ ingestion' = [ingestion EXCEPT ![r] = CountedTwice(ingestion[r])]
    BY <1>4, <1>9 DEF Discard, Reject, Importing
  <2> HIDE DEF r
  <2>2. Accounts(r, CountedTwice(ingestion[r])) /\ Accounts(r, Advance(ingestion[r], "invalid"))
        /\ Accounts(r, Advance(ingestion[r], "failed"))
    BY <1>1, <2>1, AdvanceAccounts, TwiceAccounts
  <2>3. QED
    BY <1>3, <2>1, <2>2
<1>10. ASSUME NEW p \in Importers, InRecord(p), RecordFails(p)
       PROVE  \A q \in Runs : Accounts(q, ingestion'[q])
  BY <1>5, <1>10 DEF RecordFails
<1>11. ASSUME NEW p \in Importers, Write(p)
       PROVE  \A q \in Runs : Accounts(q, ingestion'[q])
  <2>1. InRecord(p)
    BY <1>11 DEF Write, InRecord
  <2>2. QED
    BY <1>5, <1>10, <1>11, <2>1, WriteOutcome DEF Writes
<1>12. ASSUME NEW p \in Importers, Resolve(p) \/ TransactionFails(p)
       PROVE  \A q \in Runs : Accounts(q, ingestion'[q])
  BY <1>2, <1>10, <1>12 DEF Resolve, TransactionFails, InRecord
<1>13. ASSUME NEW p \in Importers, ImportThrows(p) \/ TakeLock(p) \/ Locked(p) \/ ImporterDies(p)
       PROVE  \A q \in Runs : Accounts(q, ingestion'[q])
  BY <1>2, <1>13 DEF ImportThrows, TakeLock, Locked, ImporterDies
<1>14. QED
  BY <1>6, <1>7, <1>8, <1>9, <1>11, <1>12, <1>13 DEF IngestNext

Kept == \A k \in Keys : Known(k) => <<k, Named(source[k].run), source[k].payload>> \in version

LEMMA PayloadsKept ==
  ASSUME IngestInv, Kept, IngestNext
  PROVE  Kept'
<1>1. IngestTypes
  BY DEF IngestInv
<1>2. CASE UNCHANGED <<source, version>>
  BY <1>2 DEF Kept, Known
<1>3. ASSUME NEW rec, NEW r, NEW into, StoredPayload(rec, r, into)
      PROVE  Kept'
  <2> DEFINE k0 == RecordKey(rec)
             row == [entity |-> IF into = NoEntity THEN source[k0].entity ELSE into,
                     run |-> r, payload |-> rec.payload]
  <2>1. source' = [source EXCEPT ![k0] = row] /\ version' = version \union {<<k0, Named(r), rec.payload>>}
    BY <1>3 DEF StoredPayload
  <2>2. row.run = r /\ row.payload = rec.payload
    OBVIOUS
  <2> HIDE DEF k0, row
  <2>3. \A k \in Keys : source'[k] = IF k = k0 THEN row ELSE source[k]
    BY <1>1, <2>1 DEF IngestTypes
  <2>4. QED
    BY <2>1, <2>2, <2>3 DEF Kept, Known
<1>4. ASSUME NEW p \in Importers, Reject(p) \/ Write(p)
      PROVE  Kept'
  BY <1>2, <1>3, <1>4, WriteOutcome DEF Reject, RecordFails, Writes
<1>5. ASSUME NEW p \in Importers,
             \/ \E r \in Runs : BeginImport(p, r)
             \/ ImportThrows(p) \/ Discard(p) \/ BeginRecord(p) \/ TakeLock(p) \/ Locked(p)
             \/ Resolve(p) \/ TransactionFails(p) \/ FinishImport(p) \/ ImporterDies(p)
      PROVE  Kept'
  <2>1. /\ (\E r \in Runs : BeginImport(p, r)) => UNCHANGED <<source, version>>
        /\ ImportThrows(p) => UNCHANGED <<source, version>>
        /\ Discard(p) => UNCHANGED <<source, version>>
    <3>1. (\E r \in Runs : BeginImport(p, r)) => UNCHANGED <<source, version>>
      BY DEF BeginImport
    <3>2. ImportThrows(p) => UNCHANGED <<source, version>>
      BY DEF ImportThrows
    <3>3. Discard(p) => UNCHANGED <<source, version>>
      BY DEF Discard
    <3>4. QED
      BY <3>1, <3>2, <3>3
  <2>2. BeginRecord(p) \/ TakeLock(p) \/ Locked(p) \/ Resolve(p) => UNCHANGED <<source, version>>
    BY DEF BeginRecord, TakeLock, Locked, Resolve, RecordFails
  <2>3. TransactionFails(p) \/ FinishImport(p) \/ ImporterDies(p) => UNCHANGED <<source, version>>
    BY DEF TransactionFails, RecordFails, FinishImport, ImporterDies
  <2>4. QED
    BY <1>2, <1>5, <2>1, <2>2, <2>3
<1>6. QED
  BY <1>4, <1>5 DEF IngestNext

\* The result of an import accounts for its records, each once or, when an
\* invalid prospect is not stored, twice; a completed import brought in every
\* record; and every payload a source record shows is kept as a raw version,
\* whatever conflicts, failing statements, lost answers and deaths come between.
THEOREM ImportsAreAccounted == IngestSpec => []ImportAccounted
<1> DEFINE Both == (\A r \in Runs : Accounts(r, ingestion[r])) /\ Kept
<1>1. IngestInit => Both
  BY BatchLength DEF IngestInit, Accounts, Brought, Kept, NoRun, Known, NoSource
<1>2. IngestInv /\ Both /\ [IngestNext]_ingestVars => Both'
  <2> SUFFICES ASSUME IngestInv, Both, [IngestNext]_ingestVars
               PROVE  Both'
    OBVIOUS
  <2>1. CASE IngestNext
    BY <2>1, RunsAccount, PayloadsKept
  <2>2. CASE UNCHANGED ingestVars
    BY <2>2 DEF ingestVars, Kept, Known
  <2>3. QED
    BY <2>1, <2>2
<1>3. IngestInv /\ Both => ImportAccounted
  <2> SUFFICES ASSUME IngestInv, Both PROVE ImportAccounted
    OBVIOUS
  <2>1. ASSUME NEW r \in Runs
        PROVE  LET it == ingestion[r] brought == it.created + it.updated + it.duplicates IN
               /\ it.next - 1 + it.twice = it.invalid + it.failed + brought
               /\ it.twice <= it.invalid /\ it.twice <= it.failed
               /\ it.status = "completed" => brought = Len(Batch[r])
    <3> DEFINE brought == Brought(ingestion[r])
    <3>1. ingestion[r] \in IngestRows /\ Len(Batch[r]) \in Nat /\ brought \in Nat
      BY BatchLength, IngestRowTypes DEF IngestInv, IngestRows, Brought
    <3>2. Accounts(r, ingestion[r])
      OBVIOUS
    <3> HIDE DEF brought
    <3>3. ingestion[r].status = "completed" => brought = Len(Batch[r])
      BY <3>1, <3>2 DEF Accounts, IngestRows, brought
    <3>4. QED
      BY <3>2, <3>3 DEF Accounts, Brought, brought
  <2>2. QED
    BY <2>1 DEF ImportAccounted, Kept
<1> HIDE DEF Both
<1>4. QED
  BY <1>1, <1>2, <1>3, IngestInductive, PTL DEF IngestSpec

-----------------------------------------------------------------------------
(* Scores: the points of a tier.                                           *)

LEMMA TierReached ==
  ASSUME NEW tiers, NEW value, NEW t \in tiers, value >= t[1],
         \A u \in tiers : value >= u[1] => u[1] <= t[1],
         \A u \in tiers : t[1] <= u[1] /\ u[1] <= t[1] => u = t
  PROVE  Tier(tiers, value) = t[2]
<1> DEFINE reached == {u \in tiers : value >= u[1]}
<1>1. t \in reached /\ \A u \in reached : u[1] <= t[1]
  OBVIOUS
<1>2. ASSUME NEW u \in reached, \A w \in reached : w[1] <= u[1]
      PROVE  u = t
  BY <1>1, <1>2
<1>3. (CHOOSE u \in reached : \A w \in reached : w[1] <= u[1]) = t
  <2> HIDE DEF reached
  <2>1. QED
    BY <1>1, <1>2
<1>4. QED
  BY <1>1, <1>3 DEF Tier

LEMMA TierMissed ==
  ASSUME NEW tiers, NEW value, \A u \in tiers : ~(value >= u[1])
  PROVE  Tier(tiers, value) = 0
<1>1. {u \in tiers : value >= u[1]} = {}
  OBVIOUS
<1>2. QED
  BY <1>1 DEF Tier

LEMMA FourTiers ==
  ASSUME NEW p, NEW q, NEW r, NEW s, NEW tiers, tiers = {p, q, r, s},
         p[1] \in Int, q[1] \in Int, r[1] \in Int, s[1] \in Int,
         p[1] > q[1], q[1] > r[1], r[1] > s[1], NEW x \in Int
  PROVE  Tier(tiers, x) = IF x >= p[1] THEN p[2] ELSE IF x >= q[1] THEN q[2]
                          ELSE IF x >= r[1] THEN r[2] ELSE IF x >= s[1] THEN s[2] ELSE 0
<1>1. /\ p \in tiers /\ q \in tiers /\ r \in tiers /\ s \in tiers
      /\ \A u \in tiers : u = p \/ u = q \/ u = r \/ u = s
  OBVIOUS
<1>2. CASE x >= p[1]
  <2>1. Tier(tiers, x) = p[2]
    BY <1>1, <1>2, TierReached
  <2>2. QED
    BY <1>2, <2>1
<1>3. CASE ~(x >= p[1]) /\ x >= q[1]
  <2>1. Tier(tiers, x) = q[2]
    BY <1>1, <1>3, TierReached
  <2>2. QED
    BY <1>3, <2>1
<1>4. CASE ~(x >= q[1]) /\ x >= r[1]
  <2>1. Tier(tiers, x) = r[2]
    BY <1>1, <1>4, TierReached
  <2>2. QED
    BY <1>4, <2>1
<1>5. CASE ~(x >= r[1]) /\ x >= s[1]
  <2>1. Tier(tiers, x) = s[2]
    BY <1>1, <1>5, TierReached
  <2>2. QED
    BY <1>5, <2>1
<1>6. CASE ~(x >= s[1])
  <2>1. Tier(tiers, x) = 0
    BY <1>1, <1>6, TierMissed
  <2>2. QED
    BY <1>6, <2>1
<1>7. QED
  BY <1>2, <1>3, <1>4, <1>5, <1>6

LEMMA ThreeTiers ==
  ASSUME NEW p, NEW q, NEW r, NEW tiers, tiers = {p, q, r},
         p[1] \in Int, q[1] \in Int, r[1] \in Int, p[1] > q[1], q[1] > r[1], NEW x \in Int
  PROVE  Tier(tiers, x) = IF x >= p[1] THEN p[2] ELSE IF x >= q[1] THEN q[2]
                          ELSE IF x >= r[1] THEN r[2] ELSE 0
<1>1. /\ p \in tiers /\ q \in tiers /\ r \in tiers
      /\ \A u \in tiers : u = p \/ u = q \/ u = r
  OBVIOUS
<1>2. CASE x >= p[1]
  <2>1. Tier(tiers, x) = p[2]
    BY <1>1, <1>2, TierReached
  <2>2. QED
    BY <1>2, <2>1
<1>3. CASE ~(x >= p[1]) /\ x >= q[1]
  <2>1. Tier(tiers, x) = q[2]
    BY <1>1, <1>3, TierReached
  <2>2. QED
    BY <1>3, <2>1
<1>4. CASE ~(x >= q[1]) /\ x >= r[1]
  <2>1. Tier(tiers, x) = r[2]
    BY <1>1, <1>4, TierReached
  <2>2. QED
    BY <1>4, <2>1
<1>5. CASE ~(x >= r[1])
  <2>1. Tier(tiers, x) = 0
    BY <1>1, <1>5, TierMissed
  <2>2. QED
    BY <1>5, <2>1
<1>6. QED
  BY <1>2, <1>3, <1>4, <1>5

LEMMA TwoTiers ==
  ASSUME NEW p, NEW q, NEW tiers, tiers = {p, q}, p[1] \in Int, q[1] \in Int, p[1] > q[1],
         NEW x \in Int
  PROVE  Tier(tiers, x) = IF x >= p[1] THEN p[2] ELSE IF x >= q[1] THEN q[2] ELSE 0
<1>1. p \in tiers /\ q \in tiers /\ \A u \in tiers : u = p \/ u = q
  OBVIOUS
<1>2. CASE x >= p[1]
  <2>1. Tier(tiers, x) = p[2]
    BY <1>1, <1>2, TierReached
  <2>2. QED
    BY <1>2, <2>1
<1>3. CASE ~(x >= p[1]) /\ x >= q[1]
  <2>1. Tier(tiers, x) = q[2]
    BY <1>1, <1>3, TierReached
  <2>2. QED
    BY <1>3, <2>1
<1>4. CASE ~(x >= q[1])
  <2>1. Tier(tiers, x) = 0
    BY <1>1, <1>4, TierMissed
  <2>2. QED
    BY <1>4, <2>1
<1>5. QED
  BY <1>2, <1>3, <1>4

LEMMA ReviewTiers ==
  ASSUME NEW x \in Int
  PROVE  Tier({<<150, 20>>, <<75, 15>>, <<30, 10>>, <<10, 5>>}, x) =
           IF x >= 150 THEN 20 ELSE IF x >= 75 THEN 15 ELSE IF x >= 30 THEN 10
           ELSE IF x >= 10 THEN 5 ELSE 0
<1> DEFINE p == <<150, 20>>
           q == <<75, 15>>
           r == <<30, 10>>
           s == <<10, 5>>
<1>1. /\ p[1] = 150 /\ q[1] = 75 /\ r[1] = 30 /\ s[1] = 10
      /\ p[2] = 20 /\ q[2] = 15 /\ r[2] = 10 /\ s[2] = 5
  OBVIOUS
<1> HIDE DEF p, q, r, s
<1>2. Tier({p, q, r, s}, x) =
        IF x >= p[1] THEN p[2] ELSE IF x >= q[1] THEN q[2]
        ELSE IF x >= r[1] THEN r[2] ELSE IF x >= s[1] THEN s[2] ELSE 0
  BY SMTT(20), <1>1, FourTiers
<1>3. Tier({p, q, r, s}, x) =
        IF x >= 150 THEN 20 ELSE IF x >= 75 THEN 15 ELSE IF x >= 30 THEN 10 ELSE IF x >= 10 THEN 5 ELSE 0
  BY <1>1, <1>2
<1>4. QED
  BY <1>3, SMT DEF p, q, r, s

LEMMA RatingTiers ==
  ASSUME NEW x \in Int
  PROVE  Tier({<<45, 5>>, <<40, 3>>}, x) = IF x >= 45 THEN 5 ELSE IF x >= 40 THEN 3 ELSE 0
<1> DEFINE p == <<45, 5>>
           q == <<40, 3>>
<1>1. p[1] = 45 /\ q[1] = 40 /\ p[2] = 5 /\ q[2] = 3
  OBVIOUS
<1> HIDE DEF p, q
<1>2. Tier({p, q}, x) = IF x >= p[1] THEN p[2] ELSE IF x >= q[1] THEN q[2] ELSE 0
  BY <1>1, TwoTiers
<1>3. Tier({p, q}, x) = IF x >= 45 THEN 5 ELSE IF x >= 40 THEN 3 ELSE 0
  BY <1>1, <1>2
<1>4. QED
  BY <1>3, SMT DEF p, q

LEMMA CountTiers ==
  ASSUME NEW x \in Int
  PROVE  Tier({<<4, 20>>, <<2, 10>>, <<1, 5>>}, x) \in Int
<1> DEFINE p == <<4, 20>>
           q == <<2, 10>>
           r == <<1, 5>>
<1>1. p[1] = 4 /\ q[1] = 2 /\ r[1] = 1 /\ p[2] = 20 /\ q[2] = 10 /\ r[2] = 5
  OBVIOUS
<1> HIDE DEF p, q, r
<1> DEFINE tiers == {p, q, r}
<1>2. tiers = {p, q, r} /\ p[1] > q[1] /\ q[1] > r[1]
  BY <1>1
<1> HIDE DEF tiers
<1>3. Tier(tiers, x) = IF x >= p[1] THEN p[2] ELSE IF x >= q[1] THEN q[2]
                       ELSE IF x >= r[1] THEN r[2] ELSE 0
  BY SMTT(20), <1>1, <1>2, ThreeTiers
<1>4. Tier({p, q, r}, x) \in Int
  BY <1>1, <1>2, <1>3
<1>5. QED
  BY <1>4, SMT DEF p, q, r

LEMMA PriceTiers ==
  ASSUME NEW x \in Int
  PROVE  Tier({<<1000000, 20>>, <<750000, 15>>, <<400000, 10>>, <<250000, 5>>}, x) \in Int
<1> DEFINE p == <<1000000, 20>>
           q == <<750000, 15>>
           r == <<400000, 10>>
           s == <<250000, 5>>
<1>1. /\ p[1] \in Int /\ q[1] \in Int /\ r[1] \in Int /\ s[1] \in Int
      /\ p[1] > q[1] /\ q[1] > r[1] /\ r[1] > s[1]
      /\ p[2] = 20 /\ q[2] = 15 /\ r[2] = 10 /\ s[2] = 5
  BY SMT
<1> HIDE DEF p, q, r, s
<1>2. Tier({p, q, r, s}, x) =
        IF x >= p[1] THEN p[2] ELSE IF x >= q[1] THEN q[2]
        ELSE IF x >= r[1] THEN r[2] ELSE IF x >= s[1] THEN s[2] ELSE 0
  BY <1>1, FourTiers
<1>3. Tier({p, q, r, s}, x) \in Int
  BY <1>1, <1>2
<1>4. QED
  BY <1>3, SMT DEF p, q, r, s

-----------------------------------------------------------------------------
(* Scores are numbers, and grow with the activity of a business.           *)

Valued(v) == \A k \in SignalKeys : v[k] \in Int

LEMMA PointsAre ==
  ASSUME NEW applies, NEW n \in Int
  PROVE  Points(applies, n) \in Int /\ Points(applies, n) = (IF applies THEN n ELSE 0)
BY DEF Points

ReviewPoints(v) ==
  Points(HasValue(v, "google_review_count"),
         Tier({<<150, 20>>, <<75, 15>>, <<30, 10>>, <<10, 5>>}, v["google_review_count"]))
RatingPoints(v) ==
  Points(HasValue(v, "google_rating"), Tier({<<45, 5>>, <<40, 3>>}, v["google_rating"]))
BusyPoints(v) == Points(v["google_review_count"] >= 100 /\ v["photo_count"] >= 50, 2)
WeakPoints(v) == Points(WeakBusiness(v), 5)

\* What does not depend on activity.
StillPoints(b, v) ==
  Points(b.niche, 15)
  + Points(True(v, "is_24_hour") \/ True(v, "mentions_24_7"), 15)
  + Points(True(v, "mentions_emergency"), 15) + Points(True(v, "mentions_same_day"), 5)
  + Points(False(v, "has_chatbot"), 10) + Points(False(v, "has_online_booking"), 10)
  + Points(True(v, "has_website") /\ True(v, "website_reachable"), 5)
  + Points(True(v, "google_verified"), 3)
FranchisePoints(b, v) ==
  Points(b.brand \/ \E k \in {"multiple_locations", "is_national_franchise", "is_enterprise"} :
             True(v, k), 10)

LEMMA VoiceParts ==
  ASSUME NEW b, NEW v, Valued(v)
  PROVE  /\ ReviewPoints(v) \in Int /\ RatingPoints(v) \in Int /\ BusyPoints(v) \in Int
         /\ WeakPoints(v) \in Int /\ StillPoints(b, v) \in Int /\ FranchisePoints(b, v) \in Int
         /\ VoicePoints(b, v) = ReviewPoints(v) + RatingPoints(v) + StillPoints(b, v)
                                  + BusyPoints(v) - WeakPoints(v) - FranchisePoints(b, v)
<1>1. v["google_review_count"] \in Int /\ v["google_rating"] \in Int
  BY DEF Valued, SignalKeys
<1>2. Tier({<<150, 20>>, <<75, 15>>, <<30, 10>>, <<10, 5>>}, v["google_review_count"]) \in Int
  BY <1>1, ReviewTiers
<1>3. Tier({<<45, 5>>, <<40, 3>>}, v["google_rating"]) \in Int
  BY <1>1, RatingTiers
<1>4. ReviewPoints(v) \in Int /\ RatingPoints(v) \in Int
  BY <1>2, <1>3, PointsAre DEF ReviewPoints, RatingPoints
<1>5. BusyPoints(v) \in Int /\ WeakPoints(v) \in Int /\ FranchisePoints(b, v) \in Int
  BY PointsAre DEF BusyPoints, WeakPoints, FranchisePoints
<1>6. /\ Points(b.niche, 15) \in Int
      /\ Points(True(v, "is_24_hour") \/ True(v, "mentions_24_7"), 15) \in Int
      /\ Points(True(v, "mentions_emergency"), 15) \in Int /\ Points(True(v, "mentions_same_day"), 5) \in Int
      /\ Points(False(v, "has_chatbot"), 10) \in Int /\ Points(False(v, "has_online_booking"), 10) \in Int
      /\ Points(True(v, "has_website") /\ True(v, "website_reachable"), 5) \in Int
      /\ Points(True(v, "google_verified"), 3) \in Int
  BY PointsAre
<1>7. StillPoints(b, v) \in Int
  BY <1>6 DEF StillPoints
<1>8. VoicePoints(b, v) = ReviewPoints(v) + RatingPoints(v) + StillPoints(b, v)
                            + BusyPoints(v) - WeakPoints(v) - FranchisePoints(b, v)
  BY <1>4, <1>5, <1>6 DEF VoicePoints, StillPoints, ReviewPoints, RatingPoints, BusyPoints, WeakPoints,
                          FranchisePoints
<1>9. QED
  BY <1>4, <1>5, <1>7, <1>8

LEMMA ListingIsNumber ==
  ASSUME NEW v, Valued(v)
  PROVE  ListingPoints(v) \in Int
<1>1. v["active_listing_count"] \in Int /\ v["latest_listing_price"] \in Int
  BY DEF Valued, SignalKeys
<1>2. Tier({<<4, 20>>, <<2, 10>>, <<1, 5>>}, v["active_listing_count"]) \in Int
  BY <1>1, CountTiers
<1>3. Tier({<<1000000, 20>>, <<750000, 15>>, <<400000, 10>>, <<250000, 5>>},
           v["latest_listing_price"]) \in Int
  BY <1>1, PriceTiers, SMT
<1>4. (IF v["listing_age"] < 24 THEN 30 ELSE IF v["listing_age"] < 72 THEN 25 ELSE 15) \in Int
  OBVIOUS
<1>5. /\ Points(HasValue(v, "listing_age") /\ v["listing_age"] < 168,
                IF v["listing_age"] < 24 THEN 30 ELSE IF v["listing_age"] < 72 THEN 25 ELSE 15) \in Int
      /\ Points(v["active_listing_count"] >= 1,
                Tier({<<4, 20>>, <<2, 10>>, <<1, 5>>}, v["active_listing_count"])) \in Int
      /\ Points(v["active_listing_count"] >= 2, 5) \in Int
      /\ Points(v["latest_listing_price"] >= 250000,
                Tier({<<1000000, 20>>, <<750000, 15>>, <<400000, 10>>, <<250000, 5>>},
                     v["latest_listing_price"])) \in Int
  BY <1>2, <1>3, <1>4, PointsAre, SMT
<1>6. /\ Points(True(v, "has_instagram"), 10) \in Int /\ Points(True(v, "has_tiktok"), 10) \in Int
      /\ Points(True(v, "has_facebook"), 5) \in Int /\ Points(True(v, "has_agent_headshot"), 10) \in Int
      /\ Points(True(v, "has_agent_website"), 5) \in Int /\ Points(True(v, "brokerage"), 5) \in Int
  BY PointsAre
<1>7. QED
  BY <1>5, <1>6, SMT DEF ListingPoints

LEMMA ScoreIsPercent ==
  ASSUME NEW b, NEW v, Valued(v)
  PROVE  Score(b, v) \in 0 .. 100
<1>1. VoicePoints(b, v) \in Int
  BY VoiceParts
<1>2. RawScore(b, v) \in Int
  BY <1>1, ListingIsNumber DEF RawScore
<1>3. QED
  BY <1>2 DEF Score, Clamp

LEMMA MoreIsBetter ==
  ASSUME NEW b, NEW v, NEW w, Valued(v), Valued(w), Improves(v, w)
  PROVE  Score(b, v) <= Score(b, w)
<1>1. \A k \in SignalKeys \ Activity : v[k] = w[k]
  BY DEF Improves
<1>2. /\ v["google_review_count"] <= w["google_review_count"]
      /\ v["photo_count"] <= w["photo_count"] /\ v["google_rating"] <= w["google_rating"]
      /\ HasValue(v, "google_review_count") <=> HasValue(w, "google_review_count")
      /\ HasValue(v, "photo_count") <=> HasValue(w, "photo_count")
      /\ HasValue(v, "google_rating") <=> HasValue(w, "google_rating")
  BY DEF Improves, Activity
<1>3. /\ v["google_review_count"] \in Int /\ v["photo_count"] \in Int /\ v["google_rating"] \in Int
      /\ w["google_review_count"] \in Int /\ w["photo_count"] \in Int /\ w["google_rating"] \in Int
  BY DEF Valued, SignalKeys
<1>4. ReviewPoints(v) <= ReviewPoints(w)
  <2>1. ASSUME NEW x \in Int
        PROVE  Tier({<<150, 20>>, <<75, 15>>, <<30, 10>>, <<10, 5>>}, x) =
                 IF x >= 150 THEN 20 ELSE IF x >= 75 THEN 15 ELSE IF x >= 30 THEN 10
                 ELSE IF x >= 10 THEN 5 ELSE 0
    BY ReviewTiers
  <2>2. Tier({<<150, 20>>, <<75, 15>>, <<30, 10>>, <<10, 5>>}, v["google_review_count"])
          <= Tier({<<150, 20>>, <<75, 15>>, <<30, 10>>, <<10, 5>>}, w["google_review_count"])
    BY <1>2, <1>3, <2>1
  <2>3. QED
    BY <1>2, <2>2 DEF ReviewPoints, Points
<1>5. RatingPoints(v) <= RatingPoints(w)
  <2>1. ASSUME NEW x \in Int
        PROVE  Tier({<<45, 5>>, <<40, 3>>}, x) = IF x >= 45 THEN 5 ELSE IF x >= 40 THEN 3 ELSE 0
    BY RatingTiers
  <2>2. Tier({<<45, 5>>, <<40, 3>>}, v["google_rating"]) <= Tier({<<45, 5>>, <<40, 3>>}, w["google_rating"])
    BY <1>2, <1>3, <2>1
  <2>3. QED
    BY <1>2, <2>2 DEF RatingPoints, Points
<1>6. BusyPoints(v) <= BusyPoints(w)
  BY <1>2, <1>3 DEF BusyPoints, Points
<1>7. WeakPoints(w) <= WeakPoints(v)
  BY <1>2, <1>3 DEF WeakPoints, Points, WeakBusiness
<1>8. StillPoints(b, v) = StillPoints(b, w) /\ FranchisePoints(b, v) = FranchisePoints(b, w)
  <2>1. \A k \in {"is_24_hour", "mentions_24_7", "mentions_emergency", "mentions_same_day", "has_chatbot",
                  "has_online_booking", "has_website", "website_reachable", "google_verified",
                  "multiple_locations", "is_national_franchise", "is_enterprise"} : v[k] = w[k]
    BY <1>1 DEF SignalKeys, Activity
  <2>2. QED
    BY <2>1 DEF StillPoints, FranchisePoints, True, False
<1>9. VoicePoints(b, v) <= VoicePoints(b, w) /\ VoicePoints(b, v) \in Int /\ VoicePoints(b, w) \in Int
  <2>1. /\ ReviewPoints(v) \in Int /\ RatingPoints(v) \in Int /\ BusyPoints(v) \in Int
        /\ WeakPoints(v) \in Int /\ StillPoints(b, v) \in Int /\ FranchisePoints(b, v) \in Int
        /\ VoicePoints(b, v) = ReviewPoints(v) + RatingPoints(v) + StillPoints(b, v)
                                 + BusyPoints(v) - WeakPoints(v) - FranchisePoints(b, v)
    BY VoiceParts
  <2>2. /\ ReviewPoints(w) \in Int /\ RatingPoints(w) \in Int /\ BusyPoints(w) \in Int
        /\ WeakPoints(w) \in Int /\ StillPoints(b, w) \in Int /\ FranchisePoints(b, w) \in Int
        /\ VoicePoints(b, w) = ReviewPoints(w) + RatingPoints(w) + StillPoints(b, w)
                                 + BusyPoints(w) - WeakPoints(w) - FranchisePoints(b, w)
    BY VoiceParts
  <2>3. QED
    BY <1>4, <1>5, <1>6, <1>7, <1>8, <2>1, <2>2
<1>10. ListingPoints(v) = ListingPoints(w) /\ ListingPoints(v) \in Int
  <2>1. \A k \in {"listing_age", "active_listing_count", "latest_listing_price", "has_instagram", "has_tiktok",
                  "has_facebook", "has_agent_headshot", "has_agent_website", "brokerage"} : v[k] = w[k]
    BY <1>1 DEF SignalKeys, Activity
  <2>2. QED
    BY <2>1, ListingIsNumber, SMT DEF ListingPoints, True, HasValue
<1>11. Eligible(b, v) <=> Eligible(b, w)
  BY <1>1 DEF Eligible, True, SignalKeys, Activity
<1>12. RawScore(b, v) <= RawScore(b, w) /\ RawScore(b, v) \in Int /\ RawScore(b, w) \in Int
  BY <1>9, <1>10 DEF RawScore
<1>13. QED
  BY <1>11, <1>12 DEF Score, Clamp

-----------------------------------------------------------------------------
(* Scoring: the rows and the times that are compared.                      *)

LeadRows == [kind : {"business", "agent"}, phone : BOOLEAN, niche : BOOLEAN, brand : BOOLEAN,
                 updatedAt : Nat]
SignalRows == [no : 1 .. MaxSignals, key : SignalKeys, value : Nat, at : Nat]
StageRows == [pc : {"idle", "ingest", "enrich", "auditing", "score", "scoring", "recommend"},
                 since : Int, evidence : SUBSET SignalRows]
ScorerRows == [pc : {"idle", "reading", "scoring"}, as : Int, row : Int]
AllFacts == Imports \union Listings \union Audits

ScoringTypes ==
  /\ clock \in Nat /\ prospect \in LeadRows
  /\ signals \subseteq SignalRows /\ IsFiniteSet(signals)
  /\ audit \in [Auditors -> Int] /\ pipeline \in StageRows
  /\ scorer \in [Scorers -> ScorerRows]

\* Nothing is dated ahead of the row of the prospect, nor the row of the clock.
Dated ==
  /\ clock <= MaxTime /\ prospect.updatedAt <= clock
  /\ \A s \in signals : s.at <= prospect.updatedAt

\* Who is at work has taken the time; a score is a percentage at some time.
Timed ==
  /\ \A a \in Auditors : audit[a] = Never \/ audit[a] \in 0 .. clock
  /\ pipeline.pc = "auditing" => audit["pipeline"] # Never
  /\ pipeline.pc # "idle" => pipeline.since \in 0 .. clock
  /\ \A p \in Scorers : /\ scorer[p].pc # "idle" => scorer[p].as \in 0 .. clock
                        /\ scorer[p].pc = "scoring" => scorer[p].row \in 0 .. prospect.updatedAt
  /\ \A s \in snapshots : s.score \in 0 .. 100 /\ s.calculatedAt \in 0 .. clock
  /\ recommended \subseteq snapshots

ScoringInv == ScoringTypes /\ Dated /\ Timed

LEMMA LargestBelow ==
  ASSUME NEW bound \in Nat, NEW S \in SUBSET (0 .. bound), S # {}
  PROVE  Max(S) \in S /\ \A m \in S : m <= Max(S)
<1> DEFINE R == {pair \in Nat \X Nat : pair[1] < pair[2]}
           T == {bound - m : m \in S}
<1>1. IsWellFoundedOn(R, Nat)
  BY NatLessThanWellFounded DEF OpToRel
<1> HIDE DEF R
<1>2. T \in SUBSET Nat /\ T # {}
  <2>1. \A m \in S : bound - m \in Nat
    OBVIOUS
  <2>2. QED
    BY <2>1
<1>3. \E n \in T : \A m \in T : ~ (<<m, n>> \in R)
  BY <1>1, <1>2, WFMin
<1>4. \A m, n \in Nat : m < n => <<m, n>> \in R
  BY DEF R
<1>5. PICK n \in T : \A m \in T : ~(m < n)
  BY <1>2, <1>3, <1>4
<1>6. PICK x \in S : n = bound - x
  OBVIOUS
<1>7. \A m \in S : m <= x
  <2> SUFFICES ASSUME NEW m \in S PROVE m <= x
    OBVIOUS
  <2>1. ~(bound - m < n)
    BY <1>5
  <2>2. QED
    BY <1>6, <2>1
<1>8. Max(S) \in S /\ \A m \in S : Max(S) >= m
  <2>1. \E y \in S : \A m \in S : y >= m
    BY <1>7
  <2>2. QED
    BY <2>1 DEF Max
<1>9. QED
  BY <1>8

\* The latest of some rows of a key is one of them, and none is later.
LEMMA LatestIs ==
  ASSUME NEW rows \in SUBSET SignalRows, NEW bound \in Nat, \A s \in rows : s.at <= bound,
         NEW key, \E s \in rows : s.key = key
  PROVE  /\ Latest(rows, key) \in rows /\ Latest(rows, key).key = key
         /\ \A t \in rows : t.key = key => t.at <= Latest(rows, key).at
<1> DEFINE K == {s \in rows : s.key = key}
           ats == {s.at : s \in K}
<1>1. K # {} /\ \A s \in K : s \in rows /\ s.key = key /\ s.at \in 0 .. bound /\ s.no \in 0 .. MaxSignals
  <2>1. \A s \in rows : s.at \in Nat /\ s.no \in 1 .. MaxSignals
    BY DEF SignalRows
  <2>2. QED
    BY <2>1, ScoringAssumption
<1>2. \A t \in rows : t.key = key => t \in K
  OBVIOUS
<1> HIDE DEF K
<1>3. ats \in SUBSET (0 .. bound) /\ ats # {}
  BY <1>1
<1>4. PICK m \in ats : \A n \in ats : n <= m
  BY <1>3, LargestBelow
<1>5. \A s \in K : s.at <= m
  BY <1>4
<1> DEFINE J == {s \in K : s.at = m}
           nos == {s.no : s \in J}
<1>6. J # {} /\ J \subseteq K
  OBVIOUS
<1> HIDE DEF ats
<1>7. \A s \in J : s.at = m
  OBVIOUS
<1> HIDE DEF J
<1>8. nos \in SUBSET (0 .. MaxSignals) /\ nos # {}
  BY <1>1, <1>6
<1>9. PICK last \in nos : \A n \in nos : n <= last
  BY <1>8, LargestBelow, ScoringAssumption
<1>10. PICK s \in J : s.no = last
  OBVIOUS
<1>11. ASSUME NEW t \in rows, t.key = key
       PROVE  t.at < s.at \/ (t.at = s.at /\ t.no <= s.no)
  <2>1. t \in K /\ t.at <= m /\ s.at = m /\ t.at \in Nat
    BY <1>1, <1>2, <1>5, <1>7, <1>10, <1>11 DEF SignalRows
  <2>2. CASE t.at = m
    <3>1. t \in J
      BY <2>1, <2>2 DEF J
    <3>2. t.no <= last
      BY <1>9, <3>1
    <3>3. QED
      BY <1>10, <2>1, <2>2, <3>2
  <2>3. CASE t.at # m
    <3>1. m \in Nat
      BY <1>1, <1>6, <1>7, <1>10
    <3>2. QED
      BY <2>1, <2>3, <3>1
  <2>4. QED
    BY <2>2, <2>3
<1>12. s \in rows /\ s.key = key
  BY <1>1, <1>6
<1> DEFINE Last(x) == /\ x.key = key
                      /\ \A t \in rows : t.key = key =>
                           t.at < x.at \/ (t.at = x.at /\ t.no <= x.no)
<1>13. Latest(rows, key) = CHOOSE x \in rows : Last(x)
  BY DEF Latest
<1>14. Latest(rows, key) \in rows /\ Last(Latest(rows, key))
  <2>1. Last(s)
    BY <1>11, <1>12
  <2> HIDE DEF Last
  <2>2. QED
    BY <1>12, <1>13, <2>1
<1>15. \A t \in rows : t.at \in Nat
  BY DEF SignalRows
<1>16. QED
  BY <1>14, <1>15

LEMMA ValuesAre ==
  ASSUME ScoringTypes, NEW rows \in SUBSET SignalRows, NEW bound \in Nat, \A s \in rows : s.at <= bound
  PROVE  Valued(Values(rows))
<1> SUFFICES ASSUME NEW k \in SignalKeys PROVE Values(rows)[k] \in Int
  BY DEF Valued
<1>1. Values(rows)[k] = IF \E s \in rows : s.key = k THEN Latest(rows, k).value ELSE Unknown
  BY DEF Values
<1>2. CASE \E s \in rows : s.key = k
  <2>1. Latest(rows, k) \in SignalRows
    BY <1>2, LatestIs
  <2>2. Latest(rows, k).value \in Nat
    BY <2>1 DEF SignalRows
  <2>3. QED
    BY <1>1, <1>2, <2>2
<1>3. CASE ~(\E s \in rows : s.key = k)
  BY <1>1, <1>3 DEF Unknown
<1>4. QED
  BY <1>2, <1>3

LEMMA ScoringStart == ScoringInit => ScoringInv
<1> SUFFICES ASSUME ScoringInit PROVE ScoringInv
  OBVIOUS
<1>1. prospect \in LeadRows /\ prospect.updatedAt = 0
  BY ScoringAssumption DEF ScoringInit, LeadRows
<1>2. pipeline \in StageRows
  BY DEF ScoringInit, StageRows, Never
<1>3. NoScoring \in ScorerRows /\ NoScoring.pc = "idle"
  BY DEF NoScoring, ScorerRows, Never
<1>4. IsFiniteSet(signals) /\ signals = {}
  BY FS_EmptySet DEF ScoringInit
<1>5. ScoringTypes
  BY <1>1, <1>2, <1>3, <1>4 DEF ScoringInit, ScoringTypes, Never
<1>6. Dated
  BY <1>1, <1>4, ScoringAssumption DEF ScoringInit, Dated
<1>7. Timed
  BY <1>3 DEF ScoringInit, Timed
<1>8. QED
  BY <1>5, <1>6, <1>7 DEF ScoringInv

\* What an observation writes.
LEMMA Observed ==
  ASSUME ScoringInv, NEW facts \in AllFacts, NEW at \in 0 .. clock, Observe(facts, at)
  PROVE  /\ signals' \subseteq SignalRows /\ IsFiniteSet(signals') /\ signals \subseteq signals'
         /\ prospect' \in LeadRows /\ prospect'.updatedAt = clock
         /\ prospect.updatedAt <= clock
         /\ \A s \in signals' : s.at <= clock
         /\ \A v : /\ Score(prospect', v) = Score(prospect, v)
<1> DEFINE no == Cardinality(signals) + 1
           new == {[no |-> no, key |-> f.key, value |-> f.value, at |-> at] : f \in facts}
<1>1. /\ Cardinality(signals) + Cardinality(facts) <= MaxSignals
      /\ signals' = signals \union new /\ prospect' = [prospect EXCEPT !.updatedAt = clock]
  BY DEF Observe
<1>2. facts \subseteq [key : SignalKeys, value : Nat] /\ IsFiniteSet(facts)
  BY ScoringAssumption DEF AllFacts
<1>3. /\ clock \in Nat /\ prospect \in LeadRows /\ signals \subseteq SignalRows
      /\ IsFiniteSet(signals) /\ prospect.updatedAt <= clock
      /\ \A s \in signals : s.at <= prospect.updatedAt
  BY DEF ScoringInv, ScoringTypes, Dated
<1>4. Cardinality(signals) \in Nat /\ Cardinality(facts) \in Nat /\ (facts # {} => Cardinality(facts) # 0)
  BY <1>2, <1>3, FS_CardinalityType, FS_EmptySet
<1>5. facts # {} => no \in 1 .. MaxSignals
  BY <1>1, <1>4, ScoringAssumption
<1>6. new \subseteq SignalRows /\ (\A s \in new : s.at = at) /\ IsFiniteSet(new)
  <2> HIDE DEF no
  <2>1. ASSUME NEW f \in facts
        PROVE  /\ [no |-> no, key |-> f.key, value |-> f.value, at |-> at] \in SignalRows
               /\ [no |-> no, key |-> f.key, value |-> f.value, at |-> at].at = at
    <3>1. f.key \in SignalKeys /\ f.value \in Nat /\ at \in Nat /\ no \in 1 .. MaxSignals
      BY <1>2, <1>3, <1>5
    <3>2. QED
      BY <3>1 DEF SignalRows
  <2>2. IsFiniteSet(new)
    <3> DEFINE row == [f \in facts |-> [no |-> no, key |-> f.key, value |-> f.value, at |-> at]]
    <3>1. row \in Surjection(facts, new)
      BY DEF Surjection
    <3> HIDE DEF row
    <3>2. QED
      BY <1>2, <3>1, FS_Surjection
  <2>3. QED
    BY <2>1, <2>2
<1> HIDE DEF new
<1>7. signals' \subseteq SignalRows /\ IsFiniteSet(signals') /\ signals \subseteq signals'
  BY <1>1, <1>3, <1>6, FS_Union
<1>8. /\ prospect' \in LeadRows /\ prospect'.updatedAt = clock /\ prospect'.kind = prospect.kind
      /\ prospect'.phone = prospect.phone /\ prospect'.niche = prospect.niche
      /\ prospect'.brand = prospect.brand
  BY <1>1, <1>3 DEF LeadRows
<1>9. \A s \in signals' : s.at <= clock
  <2>1. prospect.updatedAt \in Nat
    BY <1>3 DEF LeadRows
  <2>2. \A s \in signals : s.at \in Nat
    BY <1>3 DEF SignalRows
  <2>3. QED
    BY <1>1, <1>3, <1>6, <2>1, <2>2
<1>10. ASSUME NEW v PROVE Score(prospect', v) = Score(prospect, v)
  <2>1. VoicePoints(prospect', v) = VoicePoints(prospect, v)
    BY <1>8 DEF VoicePoints
  <2>2. QED
    BY <1>8, <2>1 DEF Score, Eligible, RawScore
<1>11. QED
  BY <1>3, <1>7, <1>8, <1>9, <1>10

LEMMA TickStep ==
  ASSUME ScoringInv, Tick
  PROVE  ScoringInv'
<1>1. /\ clock < MaxTime /\ clock' = clock + 1
      /\ UNCHANGED <<prospect, signals, snapshots, recommended, audit, pipeline, scorer>>
  BY DEF Tick
<1>2. ScoringTypes /\ Dated /\ Timed /\ clock \in Nat
  BY DEF ScoringInv, ScoringTypes
<1>3. clock' \in Nat /\ 0 .. clock \subseteq 0 .. clock'
  BY <1>1, <1>2
<1>4. ScoringTypes'
  BY <1>1, <1>2, <1>3 DEF ScoringTypes
<1>5. Dated'
  <2>1. prospect.updatedAt \in Nat
    BY <1>2 DEF ScoringTypes, LeadRows
  <2>2. clock' <= MaxTime /\ prospect.updatedAt <= clock'
    BY <1>1, <1>2, <2>1, ScoringAssumption DEF Dated
  <2>3. QED
    BY <1>1, <1>2, <2>2 DEF Dated
<1>6. Timed'
  BY <1>1, <1>2, <1>3 DEF Timed
<1>7. QED
  BY <1>4, <1>5, <1>6 DEF ScoringInv

\* An observation by itself: the clock and who is at work stay as they are.
LEMMA ObservationStep ==
  ASSUME ScoringInv, NEW facts \in AllFacts, NEW at \in 0 .. clock, Observe(facts, at),
         UNCHANGED <<snapshots, recommended, scorer, clock>>,
         audit' \in [Auditors -> Int] /\ pipeline' \in StageRows,
         \A a \in Auditors : audit'[a] = Never \/ audit'[a] \in 0 .. clock,
         pipeline'.pc # "auditing" \/ UNCHANGED <<audit, pipeline>>
           \/ (audit'["pipeline"] = audit["pipeline"] /\ UNCHANGED pipeline),
         pipeline'.pc # "idle" => pipeline'.since \in 0 .. clock
  PROVE  ScoringInv'
<1>1. ScoringTypes /\ Dated /\ Timed
  BY DEF ScoringInv
<1>2. /\ signals' \subseteq SignalRows /\ IsFiniteSet(signals') /\ signals \subseteq signals'
      /\ prospect' \in LeadRows /\ prospect'.updatedAt = clock /\ prospect.updatedAt <= clock
      /\ \A s \in signals' : s.at <= clock
  BY Observed
<1>3. ScoringTypes'
  BY <1>1, <1>2 DEF ScoringTypes
<1>4. clock \in Nat /\ prospect.updatedAt \in Nat
  BY <1>1 DEF ScoringTypes, LeadRows
<1>5. Dated'
  BY <1>1, <1>2, <1>4 DEF Dated
<1>6. 0 .. prospect.updatedAt \subseteq 0 .. prospect'.updatedAt
  BY <1>2, <1>4
<1>7. Timed'
  BY <1>1, <1>6 DEF Timed
<1>8. QED
  BY <1>3, <1>5, <1>7 DEF ScoringInv

LEMMA EvidenceStep ==
  ASSUME ScoringInv, NEW facts \in AllFacts,
         Import(facts) \/ ImportListing(facts) \/ EndAudit(facts)
  PROVE  ScoringInv'
<1>1. UNCHANGED <<snapshots, recommended, pipeline, scorer, clock>>
  BY DEF Import, ImportListing, EndAudit
<1>2. ScoringTypes /\ Timed /\ clock \in Nat /\ clock \in 0 .. clock
  BY DEF ScoringInv, ScoringTypes
<1>3. "operator" \in Auditors /\ "pipeline" \in Auditors
  BY DEF Auditors
<1>4. CASE Import(facts) \/ ImportListing(facts)
  <2>1. Observe(facts, clock) /\ UNCHANGED audit
    BY <1>4 DEF Import, ImportListing
  <2>2. QED
    BY <1>1, <1>2, <2>1, ObservationStep DEF ScoringTypes, Timed
<1>5. CASE EndAudit(facts)
  <2>1. /\ audit["operator"] # Never /\ Observe(facts, audit["operator"])
        /\ audit' = [audit EXCEPT !["operator"] = Never]
    BY <1>5 DEF EndAudit
  <2>2. audit["operator"] \in 0 .. clock
    BY <1>2, <1>3, <2>1 DEF Timed
  <2>3. /\ audit' \in [Auditors -> Int] /\ audit'["pipeline"] = audit["pipeline"]
        /\ \A a \in Auditors : audit'[a] = Never \/ audit'[a] \in 0 .. clock
    BY <1>2, <1>3, <2>1 DEF ScoringTypes, Timed, Never
  <2>4. pipeline' \in StageRows /\ (pipeline'.pc # "idle" => pipeline'.since \in 0 .. clock)
    BY <1>1, <1>2 DEF ScoringTypes, Timed
  <2>5. QED
    BY <1>1, <2>1, <2>2, <2>3, <2>4, ObservationStep
<1>6. QED
  BY <1>4, <1>5

LEMMA PipelineEvidenceStep ==
  ASSUME ScoringInv, NEW facts \in AllFacts, PipelineIngest(facts) \/ PipelineAudited(facts)
  PROVE  ScoringInv'
<1>1. UNCHANGED <<snapshots, recommended, scorer, clock>>
  BY DEF PipelineIngest, PipelineAudited
<1>2. ScoringTypes /\ Timed /\ clock \in Nat /\ clock \in 0 .. clock /\ pipeline \in StageRows
  BY DEF ScoringInv, ScoringTypes
<1>3. "pipeline" \in Auditors
  BY DEF Auditors
<1>4. pipeline.pc # "idle" /\ pipeline.since \in 0 .. clock
  BY <1>2 DEF PipelineIngest, PipelineAudited, Timed
<1>5. ASSUME NEW pc \in {"enrich", "score"}, signals' \subseteq SignalRows,
             pipeline' = [pipeline EXCEPT !.pc = pc, !.evidence = @ \union NewEvidence]
      PROVE  pipeline' \in StageRows /\ pipeline'.pc = pc /\ pipeline'.since = pipeline.since
  <2>1. pipeline.evidence \union NewEvidence \in SUBSET SignalRows
    BY <1>2, <1>5 DEF StageRows, NewEvidence
  <2> DEFINE evidence == pipeline.evidence \union NewEvidence
  <2>2. pipeline' = [[pipeline EXCEPT !.pc = pc] EXCEPT !.evidence = evidence]
    BY <1>2, <1>5 DEF StageRows
  <2> HIDE DEF evidence
  <2>3. QED
    BY <1>2, <2>1, <2>2 DEF StageRows, evidence
<1>6. CASE PipelineIngest(facts)
  <2> DEFINE at == IF prospect.kind = "business" THEN clock ELSE pipeline.since
  <2>1. at \in 0 .. clock /\ Observe(facts, at) /\ UNCHANGED audit
    BY <1>2, <1>4, <1>6 DEF PipelineIngest
  <2> HIDE DEF at
  <2>2. signals' \subseteq SignalRows
    BY <2>1, Observed
  <2>3. \E pc \in {"enrich", "score"} :
          pipeline' = [pipeline EXCEPT !.pc = pc, !.evidence = @ \union NewEvidence]
    BY <1>6 DEF PipelineIngest
  <2>4. /\ pipeline' \in StageRows /\ pipeline'.pc # "auditing"
        /\ pipeline'.since \in 0 .. clock
    BY <1>4, <1>5, <2>2, <2>3
  <2>5. /\ audit' \in [Auditors -> Int]
        /\ \A a \in Auditors : audit'[a] = Never \/ audit'[a] \in 0 .. clock
    BY <1>2, <2>1 DEF ScoringTypes, Timed
  <2>6. QED
    BY <1>1, <2>1, <2>4, <2>5, ObservationStep
<1>7. CASE PipelineAudited(facts)
  <2>1. /\ pipeline.pc = "auditing" /\ Observe(facts, audit["pipeline"])
        /\ audit' = [audit EXCEPT !["pipeline"] = Never]
        /\ pipeline' = [pipeline EXCEPT !.pc = "score", !.evidence = @ \union NewEvidence]
    BY <1>7 DEF PipelineAudited
  <2>2. audit["pipeline"] \in 0 .. clock
    BY <1>2, <1>3, <2>1 DEF Timed
  <2>3. signals' \subseteq SignalRows
    BY <2>1, <2>2, Observed
  <2>4. /\ pipeline' \in StageRows /\ pipeline'.pc = "score"
        /\ pipeline'.since \in 0 .. clock
    BY <1>4, <1>5, <2>1, <2>3
  <2>5. /\ audit' \in [Auditors -> Int]
        /\ \A a \in Auditors : audit'[a] = Never \/ audit'[a] \in 0 .. clock
    BY <1>2, <1>3, <2>1 DEF ScoringTypes, Timed, Never
  <2>6. QED
    BY <1>1, <2>1, <2>2, <2>4, <2>5, ObservationStep
<1>8. QED
  BY <1>6, <1>7

LEMMA ProspectStays ==
  ASSUME ScoringInv, UNCHANGED <<prospect, signals, clock>>
  PROVE  /\ clock' \in Nat /\ prospect' \in LeadRows /\ signals' \subseteq SignalRows
         /\ IsFiniteSet(signals') /\ Dated'
BY DEF ScoringInv, ScoringTypes, Dated

LEMMA AuditStep ==
  ASSUME ScoringInv, BeginAudit \/ StartPipeline \/ PipelineAudit
  PROVE  ScoringInv'
<1>1. UNCHANGED <<prospect, signals, snapshots, recommended, scorer, clock>>
  BY DEF BeginAudit, StartPipeline, PipelineAudit
<1>2. ScoringTypes /\ Timed /\ clock \in Nat /\ clock \in 0 .. clock /\ pipeline \in StageRows
  BY DEF ScoringInv, ScoringTypes
<1>3. "operator" \in Auditors /\ "pipeline" \in Auditors
  BY DEF Auditors
<1>4. /\ clock' \in Nat /\ prospect' \in LeadRows /\ signals' \subseteq SignalRows
      /\ IsFiniteSet(signals') /\ Dated'
  BY <1>1, ProspectStays
<1>5. CASE BeginAudit
  <2>1. audit' = [audit EXCEPT !["operator"] = clock] /\ UNCHANGED pipeline
    BY <1>5 DEF BeginAudit
  <2>2. audit' \in [Auditors -> Int]
    <3>1. clock \in Int /\ audit \in [Auditors -> Int]
      BY <1>2 DEF ScoringTypes
    <3>2. QED
      BY <2>1, <3>1
  <2>3. /\ \A a \in Auditors : audit'[a] = Never \/ audit'[a] \in 0 .. clock
        /\ audit'["pipeline"] = audit["pipeline"]
    BY <1>2, <1>3, <2>1 DEF ScoringTypes, Timed
  <2>4. QED
    BY <1>1, <1>2, <1>4, <2>1, <2>2, <2>3 DEF ScoringInv, ScoringTypes, Timed
<1>6. CASE StartPipeline
  <2>1. pipeline' = [pc |-> "ingest", since |-> clock, evidence |-> {}] /\ UNCHANGED audit
    BY <1>6 DEF StartPipeline
  <2>2. pipeline' \in StageRows /\ pipeline'.pc = "ingest" /\ pipeline'.since = clock
    BY <1>2, <2>1 DEF StageRows
  <2>3. QED
    BY <1>1, <1>2, <1>4, <2>1, <2>2 DEF ScoringInv, ScoringTypes, Timed
<1>7. CASE PipelineAudit
  <2>1. /\ pipeline.pc = "enrich" /\ audit' = [audit EXCEPT !["pipeline"] = clock]
        /\ pipeline' = [pipeline EXCEPT !.pc = "auditing"]
    BY <1>7 DEF PipelineAudit
  <2>2. pipeline' \in StageRows /\ pipeline'.pc = "auditing" /\ pipeline'.since = pipeline.since
    BY <1>2, <2>1 DEF StageRows
  <2>3. /\ audit' \in [Auditors -> Int] /\ audit'["pipeline"] = clock /\ clock # Never
        /\ \A a \in Auditors : audit'[a] = Never \/ audit'[a] \in 0 .. clock
    BY <1>2, <1>3, <2>1 DEF ScoringTypes, Timed, Never
  <2>4. QED
    BY <1>1, <1>2, <1>4, <2>1, <2>2, <2>3 DEF ScoringInv, ScoringTypes, Timed
<1>8. QED
  BY <1>5, <1>6, <1>7

\* A process that turns to a score, or reads the row for it.
LEMMA ScorerStep ==
  ASSUME ScoringInv, NEW p, NEW row \in ScorerRows, scorer' = [scorer EXCEPT ![p] = row],
         row.pc # "idle" => row.as \in 0 .. clock,
         row.pc = "scoring" => row.row \in 0 .. prospect.updatedAt,
         UNCHANGED <<prospect, signals, recommended, audit, clock>>,
         \A s \in snapshots' : s.score \in 0 .. 100 /\ s.calculatedAt \in 0 .. clock,
         snapshots \subseteq snapshots',
         pipeline' \in StageRows, pipeline'.pc # "auditing" \/ UNCHANGED pipeline,
         pipeline'.pc # "idle" => pipeline'.since \in 0 .. clock
  PROVE  ScoringInv'
<1>1. /\ clock' \in Nat /\ prospect' \in LeadRows /\ signals' \subseteq SignalRows
      /\ IsFiniteSet(signals') /\ Dated'
  BY ProspectStays
<1>2. ScoringTypes /\ Timed
  BY DEF ScoringInv
<1>3. scorer' \in [Scorers -> ScorerRows]
  BY <1>2 DEF ScoringTypes
<1>4. ASSUME NEW q \in Scorers
      PROVE  /\ scorer'[q].pc # "idle" => scorer'[q].as \in 0 .. clock
             /\ scorer'[q].pc = "scoring" => scorer'[q].row \in 0 .. prospect.updatedAt
  <2>1. CASE q = p
    <3>1. scorer'[q] = row
      BY <1>2, <2>1 DEF ScoringTypes
    <3>2. QED
      BY <3>1
  <2>2. CASE q # p
    <3>1. scorer'[q] = scorer[q]
      BY <1>2, <2>2 DEF ScoringTypes
    <3>2. QED
      BY <1>2, <3>1 DEF Timed
  <2>3. QED
    BY <2>1, <2>2
<1>5. Timed'
  BY <1>2, <1>4 DEF Timed
<1>6. QED
  BY <1>1, <1>2, <1>3, <1>5 DEF ScoringInv, ScoringTypes

LEMMA BeginsScore ==
  ASSUME ScoringInv, NEW p, NEW as \in 0 .. clock, BeginScore(p, as),
         UNCHANGED <<prospect, signals, snapshots, recommended, audit, clock>>,
         pipeline' \in StageRows, pipeline'.pc # "auditing" \/ UNCHANGED pipeline,
         pipeline'.pc # "idle" => pipeline'.since \in 0 .. clock
  PROVE  ScoringInv'
<1> DEFINE row == [pc |-> "reading", as |-> as, row |-> Never]
<1>1. row \in ScorerRows /\ row.pc = "reading" /\ row.as = as
  BY DEF ScorerRows, Never
<1>2. scorer' = [scorer EXCEPT ![p] = row]
  BY DEF BeginScore
<1> HIDE DEF row
<1>3. \A s \in snapshots' : s.score \in 0 .. 100 /\ s.calculatedAt \in 0 .. clock
  BY DEF ScoringInv, Timed
<1>4. QED
  BY <1>1, <1>2, <1>3, ScorerStep

LEMMA TurnsToScore ==
  ASSUME ScoringInv, PipelineScore \/ \E p \in Scorers : Rescore(p) \/ Sweep(p)
  PROVE  ScoringInv'
<1>1. UNCHANGED <<prospect, signals, snapshots, recommended, audit, clock>>
  BY DEF PipelineScore, Rescore, Sweep
<1>2. Timed /\ clock \in 0 .. clock /\ pipeline \in StageRows
  BY DEF ScoringInv, ScoringTypes
<1>3. CASE PipelineScore
  <2>1. /\ pipeline.pc = "score" /\ BeginScore("pipeline", pipeline.since)
        /\ pipeline' = [pipeline EXCEPT !.pc = "scoring"]
    BY <1>3 DEF PipelineScore
  <2>2. pipeline.since \in 0 .. clock
    BY <1>2, <2>1 DEF Timed
  <2>3. pipeline' \in StageRows /\ pipeline'.pc = "scoring" /\ pipeline'.since = pipeline.since
    BY <1>2, <2>1 DEF StageRows
  <2>4. QED
    BY <1>1, <2>1, <2>2, <2>3, BeginsScore
<1>4. CASE \E p \in Scorers : Rescore(p) \/ Sweep(p)
  <2>1. PICK p \in Scorers : BeginScore(p, clock) /\ UNCHANGED pipeline
    BY <1>4 DEF Rescore, Sweep
  <2>2. QED
    BY <1>1, <1>2, <2>1, BeginsScore DEF Timed
<1>5. QED
  BY <1>3, <1>4

LEMMA ReadStep ==
  ASSUME ScoringInv, NEW p \in Scorers, ReadProspect(p)
  PROVE  ScoringInv'
<1>1. /\ scorer[p].pc = "reading"
      /\ scorer' = [scorer EXCEPT ![p].pc = "scoring", ![p].row = prospect.updatedAt]
      /\ UNCHANGED <<prospect, signals, snapshots, recommended, audit, pipeline, clock>>
  BY DEF ReadProspect
<1>2. ScoringTypes /\ Timed /\ scorer[p] \in ScorerRows /\ prospect.updatedAt \in Nat
  BY DEF ScoringInv, ScoringTypes, LeadRows
<1> DEFINE row == [pc |-> "scoring", as |-> scorer[p].as, row |-> prospect.updatedAt]
<1>3. row \in ScorerRows /\ row.pc = "scoring" /\ row.as = scorer[p].as /\ row.row = prospect.updatedAt
  BY <1>2 DEF ScorerRows
<1>4. scorer' = [scorer EXCEPT ![p] = row]
  <2>1. [[scorer[p] EXCEPT !.pc = "scoring"] EXCEPT !.row = prospect.updatedAt] = row
    <3>1. ASSUME NEW x \in ScorerRows, NEW n \in Nat
          PROVE  [[x EXCEPT !.pc = "scoring"] EXCEPT !.row = n] =
                   [pc |-> "scoring", as |-> x.as, row |-> n]
      <4> DEFINE y == [x EXCEPT !.pc = "scoring"]
      <4>1. y \in ScorerRows /\ y.pc = "scoring" /\ y.as = x.as
        BY DEF ScorerRows
      <4> HIDE DEF y
      <4>2. [y EXCEPT !.row = n] = [pc |-> "scoring", as |-> x.as, row |-> n]
        BY <4>1 DEF ScorerRows
      <4>3. QED
        BY <4>2 DEF y
    <3>2. QED
      BY <1>2, <3>1
  <2>2. scorer' = [scorer EXCEPT ![p] =
                     [[scorer[p] EXCEPT !.pc = "scoring"] EXCEPT !.row = prospect.updatedAt]]
    BY <1>1, <1>2 DEF ScoringTypes
  <2> HIDE DEF row
  <2>3. QED
    BY <2>1, <2>2
<1>5. row.as \in 0 .. clock
  BY <1>1, <1>2, <1>3 DEF Timed
<1>6. row.row \in 0 .. prospect.updatedAt
  BY <1>2, <1>3
<1> HIDE DEF row
<1>7. /\ \A s \in snapshots' : s.score \in 0 .. 100 /\ s.calculatedAt \in 0 .. clock
      /\ snapshots \subseteq snapshots' /\ pipeline' \in StageRows
      /\ pipeline'.pc # "idle" => pipeline'.since \in 0 .. clock
  BY <1>1, <1>2 DEF ScoringTypes, Timed
<1>8. QED
  BY <1>1, <1>3, <1>4, <1>5, <1>6, <1>7, ScorerStep

\* The score that is stored.
LEMMA Stored ==
  ASSUME ScoringInv, NEW p \in Scorers, scorer[p].pc = "scoring"
  PROVE  /\ Snapshot(p).score \in 0 .. 100 /\ Snapshot(p).calculatedAt = scorer[p].as
         /\ Snapshot(p).inputAsOf \in Nat
         /\ scorer[p].row <= Snapshot(p).inputAsOf
<1> DEFINE seenBy == {s \in signals : s.at <= scorer[p].as}
           rows == LatestOf(seenBy)
           dates == {scorer[p].row} \union {s.at : s \in rows}
<1>1. /\ Snapshot(p).calculatedAt = scorer[p].as
      /\ Snapshot(p).inputAsOf = AsOf(p, rows) /\ Snapshot(p).score = Score(prospect, Values(rows))
  BY DEF Snapshot
<1>2. /\ ScoringTypes /\ scorer[p].as \in 0 .. clock /\ scorer[p].row \in 0 .. prospect.updatedAt
      /\ clock \in Nat /\ prospect.updatedAt \in Nat /\ prospect.updatedAt <= clock
      /\ signals \subseteq SignalRows /\ \A s \in signals : s.at \in 0 .. clock
  <2>1. ScoringTypes /\ Dated /\ Timed
    BY DEF ScoringInv
  <2>2. clock \in Nat /\ prospect.updatedAt \in Nat /\ signals \subseteq SignalRows
    BY <2>1 DEF ScoringTypes, LeadRows
  <2>3. \A s \in signals : s.at \in Nat
    BY <2>2 DEF SignalRows
  <2>4. \A s \in signals : s.at \in 0 .. clock
    BY <2>1, <2>2, <2>3 DEF Dated
  <2>5. QED
    BY <2>1, <2>2, <2>4 DEF Dated, Timed
<1>3. seenBy \in SUBSET SignalRows /\ \A s \in seenBy : s.at \in 0 .. clock
  BY <1>2
<1> HIDE DEF seenBy
<1>4. rows \subseteq seenBy
  <2> SUFFICES ASSUME NEW k \in {s.key : s \in seenBy} PROVE Latest(seenBy, k) \in seenBy
    BY DEF LatestOf
  <2>1. \E s \in seenBy : s.key = k
    OBVIOUS
  <2>2. \A s \in seenBy : s.at <= clock
    BY <1>2, <1>3
  <2>3. QED
    BY <1>2, <1>3, <2>1, <2>2, LatestIs
<1> HIDE DEF rows
<1>5. Score(prospect, Values(rows)) \in 0 .. 100
  <2>1. rows \in SUBSET SignalRows /\ \A s \in rows : s.at <= clock
    BY <1>2, <1>3, <1>4
  <2>2. QED
    BY <1>2, <2>1, ValuesAre, ScoreIsPercent
<1>6. dates \in SUBSET (0 .. clock) /\ dates # {} /\ scorer[p].row \in dates
  BY <1>2, <1>3, <1>4
<1> HIDE DEF dates
<1>7. Max(dates) \in dates /\ scorer[p].row <= Max(dates)
  BY <1>2, <1>6, LargestBelow
<1>8. AsOf(p, rows) = IF Max(dates) > 0 THEN Max(dates) ELSE scorer[p].as
  BY DEF AsOf, dates
<1>9. Max(dates) \in 0 .. clock
  BY <1>6, <1>7
<1>10. QED
  BY <1>1, <1>2, <1>5, <1>7, <1>8, <1>9

LEMMA StoreStep ==
  ASSUME ScoringInv, NEW p \in Scorers, StoreScore(p)
  PROVE  ScoringInv'
<1>1. /\ scorer[p].pc = "scoring" /\ snapshots' = snapshots \union {Snapshot(p)}
      /\ scorer' = [scorer EXCEPT ![p] = NoScoring]
      /\ pipeline' = (IF pipeline.pc = "scoring" /\ p = "pipeline"
                        THEN [pipeline EXCEPT !.pc = "recommend"] ELSE pipeline)
      /\ UNCHANGED <<prospect, signals, recommended, audit, clock>>
  BY DEF StoreScore
<1>2. ScoringTypes /\ Timed /\ pipeline \in StageRows
  BY DEF ScoringInv, ScoringTypes
<1>3. NoScoring \in ScorerRows /\ NoScoring.pc = "idle"
  BY DEF NoScoring, ScorerRows, Never
<1>4. Snapshot(p).score \in 0 .. 100 /\ Snapshot(p).calculatedAt = scorer[p].as
  BY <1>1, Stored
<1>5. \A s \in snapshots' : s.score \in 0 .. 100 /\ s.calculatedAt \in 0 .. clock
  BY <1>1, <1>2, <1>4 DEF Timed
<1>6. pipeline' \in StageRows /\ (pipeline'.pc # "auditing" \/ UNCHANGED pipeline)
  BY <1>1, <1>2 DEF StageRows
<1>7. pipeline'.pc # "idle" => pipeline'.since \in 0 .. clock
  BY <1>1, <1>2 DEF StageRows, Timed
<1>8. QED
  BY <1>1, <1>3, <1>5, <1>6, <1>7, ScorerStep

LEMMA RecommendStep ==
  ASSUME ScoringInv, Recommend
  PROVE  ScoringInv'
<1>1. /\ recommended' \subseteq snapshots
      /\ pipeline' = [pc |-> "idle", since |-> Never, evidence |-> {}]
      /\ UNCHANGED <<prospect, signals, snapshots, audit, scorer, clock>>
  BY DEF Recommend, CurrentScores, ScoringInv, Timed
<1>2. pipeline' \in StageRows /\ pipeline'.pc = "idle"
  BY <1>1 DEF StageRows, Never
<1>3. /\ clock' \in Nat /\ prospect' \in LeadRows /\ signals' \subseteq SignalRows
      /\ IsFiniteSet(signals') /\ Dated'
  BY <1>1, ProspectStays
<1>4. QED
  BY <1>1, <1>2, <1>3 DEF ScoringInv, ScoringTypes, Timed

\* Nothing is dated ahead of the row it was stored with, and a score is a
\* percentage (website-audit.ts:81-112, voice-ai.ts:300-349).
THEOREM ScoringInductive == ScoringInit /\ [][ScoringNext]_scoringVars => []ScoringInv
<1>1. ScoringInv /\ [ScoringNext]_scoringVars => ScoringInv'
  <2> SUFFICES ASSUME ScoringInv, [ScoringNext]_scoringVars PROVE ScoringInv'
    OBVIOUS
  <2>1. CASE UNCHANGED scoringVars
    BY <2>1 DEF scoringVars, ScoringInv, ScoringTypes, Dated, Timed
  <2>2. CASE Tick
    BY <2>2, TickStep
  <2>3. CASE BeginAudit \/ StartPipeline \/ PipelineAudit
    BY <2>3, AuditStep
  <2>4. CASE \E facts \in Imports \union Listings :
               Import(facts) \/ ImportListing(facts) \/ PipelineIngest(facts)
    <3>1. PICK facts \in AllFacts : Import(facts) \/ ImportListing(facts) \/ PipelineIngest(facts)
      BY <2>4 DEF AllFacts
    <3>2. QED
      BY <3>1, EvidenceStep, PipelineEvidenceStep
  <2>5. CASE \E facts \in Audits : EndAudit(facts) \/ PipelineAudited(facts)
    <3>1. PICK facts \in AllFacts : EndAudit(facts) \/ PipelineAudited(facts)
      BY <2>5 DEF AllFacts
    <3>2. QED
      BY <3>1, EvidenceStep, PipelineEvidenceStep
  <2>6. CASE PipelineScore \/ \E p \in Scorers : Rescore(p) \/ Sweep(p)
    BY <2>6, TurnsToScore
  <2>7. CASE \E p \in Scorers : ReadProspect(p) \/ StoreScore(p)
    BY <2>7, ReadStep, StoreStep
  <2>8. CASE Recommend
    BY <2>8, RecommendStep
  <2>9. QED
    BY <2>1, <2>2, <2>3, <2>4, <2>5, <2>6, <2>7, <2>8 DEF ScoringNext
<1>2. QED
  BY <1>1, ScoringStart, PTL

\* More reviews, photos or a better rating never lower the score of a business,
\* whatever other signals are known of it (voice-ai.ts:154-349).
THEOREM ActivityHelps == ScoringInit /\ [][ScoringNext]_scoringVars => ActivityNeverHurts
<1> DEFINE Helps == signals' # signals /\ Improves(Values(signals), Values(signals')) =>
                      Score(prospect, Values(signals)) <= Score(prospect', Values(signals'))
<1>1. ScoringInv /\ ScoringInv' /\ [ScoringNext]_scoringVars => [Helps]_scoringVars
  <2> SUFFICES ASSUME ScoringInv, ScoringInv', ScoringNext, signals' # signals,
                      Improves(Values(signals), Values(signals'))
               PROVE  Score(prospect, Values(signals)) <= Score(prospect', Values(signals'))
    OBVIOUS
  <2>1. \E facts \in AllFacts, at \in 0 .. clock : Observe(facts, at)
    <3>1. Timed /\ clock \in 0 .. clock
      BY DEF ScoringInv, ScoringTypes
    <3>2. CASE \E facts \in Imports \union Listings :
                 Import(facts) \/ ImportListing(facts) \/ PipelineIngest(facts)
      BY <3>1, <3>2 DEF Import, ImportListing, PipelineIngest, AllFacts, Timed
    <3>3. CASE \E facts \in Audits : EndAudit(facts) \/ PipelineAudited(facts)
      <4>1. "operator" \in Auditors /\ "pipeline" \in Auditors
        BY DEF Auditors
      <4>2. QED
        BY <3>1, <3>3, <4>1 DEF EndAudit, PipelineAudited, AllFacts, Timed
    <3>4. QED
      BY <3>2, <3>3 DEF ScoringNext, Tick, BeginAudit, StartPipeline, PipelineAudit, PipelineScore,
                        Recommend, Rescore, Sweep, ReadProspect, StoreScore
  <2>2. Score(prospect', Values(signals')) = Score(prospect, Values(signals'))
    BY <2>1, Observed
  <2>3. Valued(Values(signals))
    <3>1. ScoringTypes /\ clock \in Nat /\ signals \in SUBSET SignalRows
      BY DEF ScoringInv, ScoringTypes
    <3>2. \A s \in signals : s.at <= clock
      <4>1. \A s \in signals : s.at \in Nat
        BY <3>1 DEF SignalRows
      <4>2. prospect.updatedAt \in Nat /\ prospect.updatedAt <= clock
        BY <3>1 DEF ScoringInv, ScoringTypes, LeadRows, Dated
      <4>3. QED
        BY <3>1, <4>1, <4>2 DEF ScoringInv, Dated
    <3>3. QED
      BY <3>1, <3>2, ValuesAre
  <2>4. Valued(Values(signals'))
    <3>1. ScoringTypes /\ clock \in Nat /\ signals' \in SUBSET SignalRows
      BY DEF ScoringInv, ScoringTypes
    <3>2. \A s \in signals' : s.at <= clock
      BY <2>1, Observed
    <3>3. QED
      BY <3>1, <3>2, ValuesAre
  <2>5. QED
    BY <2>2, <2>3, <2>4, MoreIsBetter
<1>2. QED
  BY <1>1, ScoringInductive, PTL DEF ActivityNeverHurts

LEMMA NoLongerStale ==
  ASSUME ScoringInv, ScoringInv', NEW p \in Scorers, StoreScore(p),
         scorer[p].row = prospect.updatedAt, \A s \in snapshots : s.calculatedAt < scorer[p].as
  PROVE  ~Stale'
<1>1. /\ scorer[p].pc = "scoring" /\ snapshots' = snapshots \union {Snapshot(p)}
      /\ UNCHANGED <<prospect, signals, clock>>
  BY DEF StoreScore
<1>2. /\ Snapshot(p).calculatedAt = scorer[p].as /\ Snapshot(p).inputAsOf \in Nat
      /\ scorer[p].row <= Snapshot(p).inputAsOf
  BY <1>1, Stored
<1>3. /\ scorer[p].as \in 0 .. clock /\ clock \in Nat
      /\ \A s \in snapshots : s.calculatedAt \in 0 .. clock
  BY <1>1 DEF ScoringInv, ScoringTypes, Timed
<1>4. \A s \in CurrentScores' : s = Snapshot(p)
  <2> SUFFICES ASSUME NEW s \in snapshots', \A t \in snapshots' : t.calculatedAt <= s.calculatedAt
               PROVE  s = Snapshot(p)
    BY DEF CurrentScores
  <2>1. scorer[p].as <= s.calculatedAt
    BY <1>1, <1>2
  <2>2. ~(s \in snapshots)
    BY <1>3, <2>1
  <2>3. QED
    BY <1>1, <2>2
<1> DEFINE dates == {prospect.updatedAt} \union {x.at : x \in signals}
<1>5. /\ prospect.updatedAt \in Nat /\ dates \in SUBSET (0 .. prospect.updatedAt) /\ dates # {}
  <2>1. prospect.updatedAt \in Nat /\ signals \subseteq SignalRows
    BY DEF ScoringInv, ScoringTypes, LeadRows
  <2>2. \A s \in signals : s.at \in Nat /\ s.at <= prospect.updatedAt
    BY <2>1 DEF ScoringInv, Dated, SignalRows
  <2>3. QED
    BY <2>1, <2>2
<1>6. Max({prospect'.updatedAt} \union {x.at : x \in signals'}) = Max(dates)
  BY <1>1
<1> HIDE DEF dates
<1>7. Max(dates) \in 0 .. prospect.updatedAt
  BY <1>5, LargestBelow
<1>8. ~(Snapshot(p).inputAsOf < Max(dates))
  BY <1>2, <1>5, <1>7
<1>9. snapshots' # {}
  BY <1>1
<1>10. QED
  BY <1>4, <1>6, <1>8, <1>9 DEF Stale

\* A score of the rows as they are leaves the business not stale, so the sweeps
\* do not score an unchanged business for ever (service.ts:274-284).
THEOREM ScoredStays == ScoringInit /\ [][ScoringNext]_scoringVars => ScoredIsNotStale
<1>1. ScoringInv /\ ScoringInv' /\ [ScoringNext]_scoringVars =>
        [\A p \in Scorers : StoresCurrent(p) => ~Stale']_scoringVars
  <2> SUFFICES ASSUME ScoringInv, ScoringInv', ScoringNext, NEW p \in Scorers, StoresCurrent(p)
               PROVE  ~Stale'
    OBVIOUS
  <2>1. /\ scorer[p].pc = "scoring" /\ scorer'[p].pc = "idle" /\ scorer[p].row = prospect.updatedAt
        /\ \A s \in snapshots : s.calculatedAt < scorer[p].as
    BY DEF StoresCurrent
  <2>2. scorer \in [Scorers -> ScorerRows]
    BY DEF ScoringInv, ScoringTypes
  <2>3. \A q, as : BeginScore(q, as) => scorer'[p].pc # "idle"
    BY <2>1, <2>2 DEF BeginScore, ScorerRows
  <2>4. \A q \in Scorers : ReadProspect(q) => scorer'[p].pc # "idle"
    BY <2>1, <2>2 DEF ReadProspect, ScorerRows
  <2>5. \A q \in Scorers : StoreScore(q) => q = p
    BY <2>1, <2>2 DEF StoreScore, NoScoring
  <2>6. scorer' # scorer
    BY <2>1
  <2>7. StoreScore(p)
    BY <2>1, <2>3, <2>4, <2>5, <2>6 DEF ScoringNext, Tick, BeginAudit, Import, ImportListing, EndAudit,
       PipelineIngest, PipelineAudited, StartPipeline, PipelineAudit, PipelineScore, Recommend,
       Rescore, Sweep
  <2>8. QED
    BY <2>1, <2>7, NoLongerStale
<1>2. QED
  BY <1>1, ScoringInductive, PTL DEF ScoredIsNotStale
=============================================================================
