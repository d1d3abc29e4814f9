---------------------------- MODULE AgentRuntime ----------------------------
(***************************************************************************)
(* The universal agent runtime for one agent and one CRM subject: runs are *)
(* admitted (src/agents/service.ts), leased and advanced one model step at *)
(* a time (src/agents/runtime.ts), wait for human approval                  *)
(* (src/agents/approvals.ts), expire (src/agents/scheduler.ts) or are      *)
(* stopped by an administrator.                                             *)
(*                                                                          *)
(* The model call runs outside any transaction, for up to 30 seconds; the  *)
(* agent, the subject and the run may all have changed when its decision   *)
(* is committed.  Every transaction takes the organization's lock and is   *)
(* one action.  The claim is a single statement of its own; a claim that   *)
(* commits inside another worker's transaction is overwritten by it.        *)
(***************************************************************************)
EXTENDS Naturals, FiniteSets

CONSTANTS Runs,             \* trigger keys of the agent's runs
          Inputs,           \* deduplication keys: tool and input
          Workers,          \* processes polling the "agents" lane
          NoRun,            \* a worker holds no row
          NoWorker,         \* no lease token on the row
          NoInput,          \* a step without an AgentAction
          MaxSteps,         \* limits.maxSteps (at most 12)
          MaxActions,       \* limits.maxActions (at most 6)
          MaximumAttempts,  \* maximumAttempts per agent and subject
          MaxEdits,         \* bound: changes of the subject's CRM context
          MaxVersions,      \* bound: versions of the agent
          MaxDeferrals,     \* bound: checks that fall outside operating hours
          MaxStalls,        \* bound: leases that run out under a live worker
          MaxCrashes        \* bound: workers that stop with a claim

ASSUME ConstantsAssumption ==
    /\ NoRun \notin Runs
    /\ NoWorker \notin Workers
    /\ NoInput \notin Inputs
    /\ MaxSteps \in Nat \ {0}
    /\ MaxActions \in Nat
    /\ MaximumAttempts \in Nat
    /\ MaxEdits \in Nat
    /\ MaxVersions \in Nat \ {0}
    /\ MaxDeferrals \in Nat
    /\ MaxStalls \in Nat
    /\ MaxCrashes \in Nat

VARIABLES
    enabled,       \* WorkforceAgent.enabled
    configVersion, \* WorkforceAgent.configVersion
    context,       \* the fingerprint of the subject's context
    subject,       \* whether the subject is "eligible", "ineligible" or "gone"
    status,        \* AgentRun.status; "none" when there is no row
    version,       \* the number of AgentRun.versionId
    leaseToken,    \* AgentRun.leaseToken: whose latest claim it is, if any
    leaseOver,     \* leasedUntil <= now
    due,           \* availableAt <= now
    deadlineOver,  \* deadlineAt <= now
    step,          \* AgentStep.status by run and sequence; "none": no row
    action,        \* AgentAction and its HumanApproval, by run and sequence
    executed,      \* [Inputs -> Nat], committed executions of a tool
    pc,            \* where each worker is
    held,          \* the run and prepared context of its claim
    deferrals, stalls, crashes

agentVars == <<enabled, configVersion>>
subjectVars == <<context, subject>>
leaseVars == <<leaseToken, leaseOver>>
journal == <<step, action, executed>>
workerVars == <<pc, held>>
budgets == <<deferrals, stalls, crashes>>
vars == <<agentVars, subjectVars, status, version, leaseVars, due, deadlineOver,
          journal, workerVars, budgets>>

Sequence == 1..MaxSteps
Terminal == {"completed", "failed", "stopped", "skipped"}
Statuses == {"none", "pending", "running", "waiting_approval"} \cup Terminal
StepStatuses == {"none", "planning", "interrupted", "completed", "failed"}
ActionStatuses == {"none", "pending_approval", "completed", "blocked", "recommended"}
Approvals == {"none", "pending", "approved", "rejected", "expired"}

\* over: the approval's expiresAt has passed.
Action == [input : Inputs \cup {NoInput}, context : 0..MaxEdits,
           status : ActionStatuses, approval : Approvals, over : BOOLEAN]
NoAction == [input |-> NoInput, context |-> 0, status |-> "none",
             approval |-> "none", over |-> FALSE]
NoClaim == [run |-> NoRun, context |-> 0]

TypeOK ==
    /\ enabled \in BOOLEAN
    /\ configVersion \in 1..MaxVersions
    /\ context \in 0..MaxEdits
    /\ subject \in {"eligible", "ineligible", "gone"}
    /\ status \in [Runs -> Statuses]
    /\ version \in [Runs -> 1..MaxVersions]
    /\ leaseToken \in [Runs -> Workers \cup {NoWorker}]
    /\ \A r \in Runs : (leaseToken[r] # NoWorker) <=> (status[r] = "running")
    /\ leaseOver \in [Runs -> BOOLEAN]
    /\ due \in [Runs -> BOOLEAN]
    /\ deadlineOver \in [Runs -> BOOLEAN]
    /\ step \in [Runs -> [Sequence -> StepStatuses]]
    /\ action \in [Runs -> [Sequence -> Action]]
    /\ executed \in [Inputs -> Nat]
    /\ pc \in [Workers -> {"idle", "claimed", "thinking", "failing"}]
    /\ held \in [Workers -> [run : Runs \cup {NoRun}, context : 0..MaxEdits]]
    /\ stalls \in 0..MaxStalls
    /\ deferrals \in 0..MaxDeferrals
    /\ crashes \in 0..MaxCrashes

Init ==
    /\ enabled = TRUE
    /\ configVersion = 1
    /\ context = 0
    /\ subject = "eligible"
    /\ status = [r \in Runs |-> "none"]
    /\ version = [r \in Runs |-> 1]
    /\ leaseToken = [r \in Runs |-> NoWorker]
    /\ leaseOver = [r \in Runs |-> FALSE]
    /\ due = [r \in Runs |-> FALSE]
    /\ deadlineOver = [r \in Runs |-> FALSE]
    /\ step = [r \in Runs |-> [n \in Sequence |-> "none"]]
    /\ action = [r \in Runs |-> [n \in Sequence |-> NoAction]]
    /\ executed = [i \in Inputs |-> 0]
    /\ pc = [w \in Workers |-> "idle"]
    /\ held = [w \in Workers |-> NoClaim]
    /\ stalls = 0
    /\ deferrals = 0
    /\ crashes = 0

------------------------------------------------------------------------------
(* The rows of a run.                                                       *)

\* AgentRun.stepCount, actionCount, and the actions of the agent on the
\* subject over all runs, which actionPolicy counts.
StepCount(r) == Cardinality({n \in Sequence : step[r][n] # "none"})
Acted(r) == {n \in Sequence : action[r][n].status # "none"}
Proposals == UNION {{<<r, n>> : n \in Acted(r)} : r \in Runs}

Current(r) == enabled /\ configVersion = version[r]

\* A run leaves "running" or "waiting_approval": its lease is given up.
Leave(r, s) ==
    /\ status' = [status EXCEPT ![r] = s]
    /\ leaseToken' = [leaseToken EXCEPT ![r] = NoWorker]
    /\ leaseOver' = [leaseOver EXCEPT ![r] = FALSE]

FinishRun(r, s) == Leave(r, s) /\ UNCHANGED <<due, deadlineOver>>

Resume(r) ==
    /\ Leave(r, "pending")
    /\ due' = [due EXCEPT ![r] = TRUE]
    /\ UNCHANGED deadlineOver

\* executeTool for a tool with an effect: it may change the subject's records.
Execute(i) ==
    /\ executed' = [executed EXCEPT ![i] = @ + 1]
    /\ context' \in {context, context + 1} \cap (0..MaxEdits)
    /\ UNCHANGED subject

------------------------------------------------------------------------------
(* Admission and administration.                                            *)

\* enqueueRun, from an event, a schedule or a member: one run per trigger
\* key, pinned to the current version.
EnqueueRun(r) ==
    /\ status[r] = "none"
    /\ enabled
    /\ subject # "gone"
    /\ status' = [status EXCEPT ![r] = IF subject = "eligible" THEN "pending" ELSE "skipped"]
    /\ version' = [version EXCEPT ![r] = configVersion]
    /\ due' = [due EXCEPT ![r] = TRUE]
    /\ UNCHANGED <<agentVars, subjectVars, leaseVars, deadlineOver, journal,
                   workerVars, budgets>>

Enable ==
    /\ enabled' = ~enabled
    /\ UNCHANGED <<configVersion, subjectVars, status, version, leaseVars, due,
                   deadlineOver, journal, workerVars, budgets>>

\* appendAgentVersionInTransaction: a new version is not yet enabled.
AppendVersion ==
    /\ configVersion < MaxVersions
    /\ configVersion' = configVersion + 1
    /\ enabled' = FALSE
    /\ UNCHANGED <<subjectVars, status, version, leaseVars, due, deadlineOver,
                   journal, workerVars, budgets>>

\* The subject's records are edited, closed or archived.
EditSubject ==
    /\ context < MaxEdits
    /\ context' = context + 1
    /\ subject' \in {"eligible", "ineligible", "gone"}
    /\ UNCHANGED <<agentVars, status, version, leaseVars, due, deadlineOver,
                   journal, workerVars, budgets>>

\* The step a lost claim had reserved.
Interrupt(r) ==
    [n \in Sequence |-> IF step[r][n] = "planning" THEN "interrupted" ELSE step[r][n]]

\* Two updates: of the pending approvals and of the actions that wait for one.
RejectPending(r) ==
    [n \in Sequence |->
        [action[r][n] EXCEPT
            !.approval = IF @ = "pending" THEN "rejected" ELSE @,
            !.status = IF @ = "pending_approval" THEN "blocked" ELSE @]]

\* Mutant: the run is stopped, its approval stays open.
StopRunOnly(r) ==
    /\ status[r] \in {"pending", "running", "waiting_approval"}
    /\ step' = [step EXCEPT ![r] = Interrupt(r)]
    /\ FinishRun(r, "stopped")
    /\ UNCHANGED <<agentVars, subjectVars, version, action, executed, workerVars, budgets>>

\* stop: pending approvals are rejected, their actions blocked and the step in
\* flight interrupted, together with the run.
Stop(r) ==
    /\ status[r] \in {"pending", "running", "waiting_approval"}
    /\ action' = [action EXCEPT ![r] = RejectPending(r)]
    /\ step' = [step EXCEPT ![r] = Interrupt(r)]
    /\ FinishRun(r, "stopped")
    /\ UNCHANGED <<agentVars, subjectVars, version, executed, workerVars, budgets>>

------------------------------------------------------------------------------
(* A worker: the claim and the transaction before the model call.           *)

\* Mutant: a run is claimed only once.
ClaimableOnce(r) == status[r] = "pending" /\ due[r]

Claimable(r) ==
    \/ status[r] = "pending" /\ due[r]
    \/ status[r] = "running" /\ leaseOver[r]

ClaimRun(w, r) ==
    /\ pc[w] = "idle"
    /\ Claimable(r)
    /\ status' = [status EXCEPT ![r] = "running"]
    /\ leaseToken' = [leaseToken EXCEPT ![r] = w]
    /\ leaseOver' = [leaseOver EXCEPT ![r] = FALSE]
    /\ pc' = [pc EXCEPT ![w] = "claimed"]
    /\ held' = [held EXCEPT ![w] = [run |-> r, context |-> 0]]
    /\ UNCHANGED <<agentVars, subjectVars, version, due, deadlineOver, journal, budgets>>

Release(w) ==
    /\ pc' = [pc EXCEPT ![w] = "idle"]
    /\ held' = [held EXCEPT ![w] = NoClaim]

\* The commit is acknowledged, or its answer is lost and the catch block runs.
Committed(w) ==
    \/ Release(w)
    \/ pc' = [pc EXCEPT ![w] = "failing"] /\ UNCHANGED held

\* The run is running under this worker's claim.  (A worker has one claim at a
\* time, so the worker stands for its claim's token.)
Holds(w, r) ==
    /\ held[w].run = r
    /\ status[r] = "running"
    /\ leaseToken[r] = w

\* The claim was lost to another worker, or the run was stopped.
PrepareStale(w) ==
    /\ pc[w] = "claimed"
    /\ ~Holds(w, held[w].run)
    /\ Release(w)
    /\ UNCHANGED <<agentVars, subjectVars, status, version, leaseVars, due,
                   deadlineOver, journal, budgets>>

MayThink(r) == Current(r) /\ StepCount(r) < MaxSteps /\ ~deadlineOver[r]

\* The agent changed, the budget or the deadline is used up, or the subject is
\* no longer eligible: the run ends.
PrepareEnds(w, r) ==
    /\ pc[w] = "claimed"
    /\ Holds(w, r)
    /\ \/ ~MayThink(r) /\ FinishRun(r, "stopped")
       \/ MayThink(r) /\ subject = "ineligible" /\ FinishRun(r, "skipped")
    /\ step' = [step EXCEPT ![r] = Interrupt(r)]
    /\ Committed(w)
    /\ UNCHANGED <<agentVars, subjectVars, version, action, executed, budgets>>

\* Outside the operating hours: one minute later, with a minute more.
PrepareDefers(w, r) ==
    /\ pc[w] = "claimed"
    /\ Holds(w, r)
    /\ MayThink(r)
    /\ deferrals < MaxDeferrals
    /\ deferrals' = deferrals + 1
    /\ Leave(r, "pending")
    /\ due' = [due EXCEPT ![r] = FALSE]
    /\ step' = [step EXCEPT ![r] = Interrupt(r)]
    /\ Committed(w)
    /\ UNCHANGED <<agentVars, subjectVars, version, deadlineOver, action, executed, stalls,
                   crashes>>

\* A numbered step is reserved before the model is called.
PrepareStep(w, r) ==
    /\ pc[w] = "claimed"
    /\ Holds(w, r)
    /\ MayThink(r)
    /\ subject = "eligible"
    /\ step' = [step EXCEPT ![r] = [Interrupt(r) EXCEPT ![StepCount(r) + 1] = "planning"]]
    /\ held' = [held EXCEPT ![w].context = context]
    /\ pc' = [pc EXCEPT ![w] = "thinking"]
    /\ UNCHANGED <<agentVars, subjectVars, status, version, leaseVars, due,
                   deadlineOver, action, executed, budgets>>

------------------------------------------------------------------------------
(* The transaction that commits the model's decision.                       *)

MayCommit(w, r) == pc[w] = "thinking" /\ Holds(w, r) /\ ~leaseOver[r]

\* Fresh: nothing the model was shown has changed, and there is time.
Fresh(w, r) == ~deadlineOver[r] /\ context = held[w].context

CommitStale(w) ==
    /\ pc[w] = "thinking"
    /\ ~MayCommit(w, held[w].run)
    /\ Release(w)
    /\ UNCHANGED <<agentVars, subjectVars, status, version, leaseVars, due,
                   deadlineOver, journal, budgets>>

\* The step itself is left "planning".
CommitLate(w, r) ==
    /\ MayCommit(w, r)
    /\ deadlineOver[r]
    /\ FinishRun(r, "stopped")
    /\ Committed(w)
    /\ UNCHANGED <<agentVars, subjectVars, version, journal, budgets>>

StepDone(r) == [step EXCEPT ![r][StepCount(r)] = "completed"]

\* "finish", stop_agent_run, or a read: allowed for a current agent that has
\* the permission, and the run goes on only after a read.
CommitWithoutAction(w, r) ==
    /\ MayCommit(w, r)
    /\ Fresh(w, r)
    /\ step' = StepDone(r)
    /\ \/ FinishRun(r, "completed")
       \/ FinishRun(r, "stopped")
       \/ Current(r) /\ Resume(r)
    /\ Committed(w)
    /\ UNCHANGED <<agentVars, subjectVars, version, action, executed, budgets>>

\* Mutant: the attempts on the subject and the action budget are not counted.
OutcomesUncounted(r) ==
    IF Current(r) THEN {"deny", "recommend", "require_approval", "allow"} ELSE {"deny"}

\* evaluate for an action: the version's permissions, mode and hours decide
\* within what the agent, the budget and the attempts leave.
Outcomes(r) ==
    IF /\ Current(r)
       /\ Cardinality(Acted(r)) < MaxActions
       /\ Cardinality(Proposals) < MaximumAttempts
    THEN {"deny", "recommend", "require_approval", "allow"}
    ELSE {"deny"}

Used(i) == \E p \in Proposals : action[p[1]][p[2]].input = i

\* A proposal made before, by any run of the agent, or beyond the run's budget
\* ends the run and leaves no action.
CommitSuppressed(w, r, i) ==
    /\ MayCommit(w, r)
    /\ Fresh(w, r)
    /\ Used(i) \/ Cardinality(Acted(r)) >= MaxActions
    /\ step' = StepDone(r)
    /\ FinishRun(r, "stopped")
    /\ Committed(w)
    /\ UNCHANGED <<agentVars, subjectVars, version, action, executed, budgets>>

\* The proposal becomes an AgentAction with the policy's outcome.
CommitAction(w, r, i, outcome) ==
    /\ MayCommit(w, r)
    /\ Fresh(w, r)
    /\ ~Used(i)
    /\ Cardinality(Acted(r)) < MaxActions
    /\ outcome \in Outcomes(r)
    /\ step' = StepDone(r)
    /\ action' = [action EXCEPT ![r][StepCount(r)] =
                    [NoAction EXCEPT !.input = i, !.context = context,
                        !.status = CASE outcome = "deny" -> "blocked"
                                     [] outcome = "recommend" -> "recommended"
                                     [] outcome = "require_approval" -> "pending_approval"
                                     [] outcome = "allow" -> "completed",
                        !.approval = IF outcome = "require_approval" THEN "pending"
                                     ELSE "none"]]
    /\ CASE outcome = "deny" -> FinishRun(r, "stopped")
         [] outcome = "recommend" -> FinishRun(r, "completed")
         [] outcome = "require_approval" -> FinishRun(r, "waiting_approval")
         [] outcome = "allow" -> Resume(r)
    /\ IF outcome = "allow" THEN Execute(i) ELSE UNCHANGED <<executed, subjectVars>>
    /\ Committed(w)
    /\ UNCHANGED <<agentVars, version, budgets>>

\* Either transaction or the model call throws: an unavailable subject, a
\* timeout, an invalid decision, a changed context, a tool that fails.
Throws(w) ==
    /\ pc[w] \in {"claimed", "thinking"}
    /\ pc' = [pc EXCEPT ![w] = "failing"]
    /\ UNCHANGED <<agentVars, subjectVars, status, version, leaseVars, due,
                   deadlineOver, journal, held, budgets>>

\* The catch block: the run fails if it is still this claim's, and with it the
\* step of its stepCount, which is an earlier one if none was reserved.
FailRun(w, r) ==
    /\ pc[w] = "failing"
    /\ Holds(w, r)
    /\ step' = [step EXCEPT ![r] = [n \in Sequence |->
                  IF n = StepCount(r) THEN "failed" ELSE @[n]]]
    /\ FinishRun(r, "failed")
    /\ Release(w)
    /\ UNCHANGED <<agentVars, subjectVars, version, action, executed, budgets>>

FailStale(w) ==
    /\ pc[w] = "failing"
    /\ ~Holds(w, held[w].run)
    /\ Release(w)
    /\ UNCHANGED <<agentVars, subjectVars, status, version, leaseVars, due,
                   deadlineOver, journal, budgets>>

------------------------------------------------------------------------------
(* Approvals.                                                               *)

\* Mutant: an approval is executed as it was proposed.
StillSafeAsProposed(r, n) == r \in Runs /\ n \in Sequence

\* The checks an approval passes before its action is executed: this action
\* itself does not count against the budgets.
StillSafe(r, n) ==
    /\ context = action[r][n].context
    /\ subject = "eligible"
    /\ Current(r)
    /\ Cardinality(Acted(r)) - 1 < MaxActions
    /\ Cardinality(Proposals \ {<<r, n>>}) < MaximumAttempts

Decidable(r, n) ==
    /\ action[r][n].approval = "pending"
    /\ action[r][n].status = "pending_approval"
    /\ status[r] = "waiting_approval"

Decide(r, n, approval, s) ==
    action' = [action EXCEPT ![r][n].approval = approval, ![r][n].status = s]

\* decideApproval, approved and revalidated: executed in the same transaction,
\* and the run goes on with a new deadline.
Approve(r, n) ==
    /\ Decidable(r, n)
    /\ ~action[r][n].over
    /\ StillSafe(r, n)
    /\ Decide(r, n, "approved", "completed")
    /\ Execute(action[r][n].input)
    /\ Leave(r, "pending")
    /\ due' = [due EXCEPT ![r] = TRUE]
    /\ deadlineOver' = [deadlineOver EXCEPT ![r] = FALSE]
    /\ UNCHANGED <<agentVars, version, step, workerVars, budgets>>

\* Rejected by the member, expired, or no longer safe.
Reject(r, n) ==
    /\ Decidable(r, n)
    /\ Decide(r, n, IF action[r][n].over THEN "expired" ELSE "rejected", "blocked")
    /\ FinishRun(r, "stopped")
    /\ UNCHANGED <<agentVars, subjectVars, version, step, executed, workerVars,
                   budgets>>

\* scheduleAgents: looks at the approval only, not at the action or the run.
ExpireApproval(r, n) ==
    /\ action[r][n].approval = "pending"
    /\ action[r][n].over
    /\ Decide(r, n, "expired", "blocked")
    /\ FinishRun(r, "stopped")
    /\ UNCHANGED <<agentVars, subjectVars, version, step, executed, workerVars,
                   budgets>>

------------------------------------------------------------------------------
(* Crashes and time.                                                        *)

Crash(w) ==
    /\ pc[w] # "idle"
    /\ crashes < MaxCrashes
    /\ crashes' = crashes + 1
    /\ Release(w)
    /\ UNCHANGED <<agentVars, subjectVars, status, version, leaseVars, due,
                   deadlineOver, journal, deferrals, stalls>>

\* 120 seconds, one minute, limits.maxRunSeconds and 24 hours.
LeaseEnds(r) ==
    /\ status[r] = "running" /\ ~leaseOver[r]
    /\ \/ (\A w \in Workers : ~Holds(w, r)) /\ UNCHANGED stalls
       \/ (\E w \in Workers : Holds(w, r)) /\ stalls < MaxStalls /\ stalls' = stalls + 1
    /\ leaseOver' = [leaseOver EXCEPT ![r] = TRUE]
    /\ UNCHANGED <<agentVars, subjectVars, status, version, leaseToken, due,
                   deadlineOver, journal, workerVars, deferrals, crashes>>

MinutePasses(r) ==
    /\ status[r] = "pending" /\ ~due[r]
    /\ due' = [due EXCEPT ![r] = TRUE]
    /\ UNCHANGED <<agentVars, subjectVars, status, version, leaseVars,
                   deadlineOver, journal, workerVars, budgets>>

DeadlinePasses(r) ==
    /\ status[r] \in {"pending", "running"} /\ ~deadlineOver[r]
    /\ deadlineOver' = [deadlineOver EXCEPT ![r] = TRUE]
    /\ UNCHANGED <<agentVars, subjectVars, status, version, leaseVars, due,
                   journal, workerVars, budgets>>

DayPasses(r, n) ==
    /\ action[r][n].approval = "pending" /\ ~action[r][n].over
    /\ action' = [action EXCEPT ![r][n].over = TRUE]
    /\ UNCHANGED <<agentVars, subjectVars, status, version, leaseVars, due,
                   deadlineOver, step, executed, workerVars, budgets>>

------------------------------------------------------------------------------
Administer ==
    \/ \E r \in Runs : EnqueueRun(r) \/ Stop(r)
    \/ Enable \/ AppendVersion \/ EditSubject

Prepare(w) ==
    \/ PrepareStale(w)
    \/ \E r \in Runs : PrepareEnds(w, r) \/ PrepareDefers(w, r) \/ PrepareStep(w, r)

Commit(w) ==
    \/ CommitStale(w)
    \/ \E r \in Runs : CommitLate(w, r) \/ CommitWithoutAction(w, r)
    \/ \E r \in Runs, i \in Inputs :
          \/ CommitSuppressed(w, r, i)
          \/ \E outcome \in Outcomes(r) : CommitAction(w, r, i, outcome)

Fail(w) == FailStale(w) \/ \E r \in Runs : FailRun(w, r)

Advance(w) == Prepare(w) \/ Commit(w) \/ Throws(w) \/ Fail(w)

Expire(r) == \E n \in Sequence : ExpireApproval(r, n)

Next ==
    \/ Administer
    \/ \E w \in Workers : (\E r \in Runs : ClaimRun(w, r)) \/ Advance(w) \/ Crash(w)
    \/ \E r \in Runs, n \in Sequence : Approve(r, n) \/ Reject(r, n) \/ DayPasses(r, n)
    \/ \E r \in Runs : Expire(r) \/ LeaseEnds(r) \/ MinutePasses(r) \/ DeadlinePasses(r)

Spec == Init /\ [][Next]_vars

\* Workers poll and finish what they start, the scheduler runs, time passes.
\* Nothing is assumed of the model, of members or of crashes.
Fairness ==
    /\ \A w \in Workers : WF_vars(Advance(w))
    /\ \A r \in Runs : /\ WF_vars(\E w \in Workers : ClaimRun(w, r))
                       /\ WF_vars(Expire(r))
                       /\ WF_vars(LeaseEnds(r))
                       /\ WF_vars(MinutePasses(r))
                       /\ \A n \in Sequence : WF_vars(DayPasses(r, n))

FairSpec == Spec /\ Fairness

------------------------------------------------------------------------------
(* Properties.                                                              *)

\* A run waits exactly while one of its actions is pending with a pending
\* approval: the scheduler may stop the run of an expired approval without
\* looking at it, and no approval is left that nobody can decide.
WaitsForItsApproval ==
    \A r \in Runs :
        LET pending == {n \in Sequence : action[r][n].approval = "pending"} IN
        /\ (status[r] = "waiting_approval") <=> (pending # {})
        /\ Cardinality(pending) <= 1
        /\ pending = {n \in Sequence : action[r][n].status = "pending_approval"}

\* An input is executed at most once by all runs of the agent, and exactly for
\* the actions recorded as completed; across approvals decided late and runs
\* side by side no run executes more than its budget and the agent never more
\* than maximumAttempts on the subject.
ExecutedWithinBudget ==
    LET Done(r) == {n \in Sequence : action[r][n].status = "completed"} IN
    /\ \A i \in Inputs :
          /\ executed[i] <= 1
          /\ executed[i] = Cardinality({r \in Runs : \E n \in Done(r) : action[r][n].input = i})
    /\ \A r \in Runs : Cardinality(Done(r)) <= MaxActions
    /\ Cardinality({i \in Inputs : executed[i] > 0}) <= MaximumAttempts

\* Only the last step of a run can be waiting for the model, and only while it
\* runs or after it was stopped: every step a later model call is shown, and
\* every step of a waiting or finished run, has been resolved.
JournalInOrder ==
    \A r \in Runs, n \in Sequence :
        /\ step[r][n] = "none" => action[r][n] = NoAction
        /\ step[r][n] = "planning" =>
              n = StepCount(r) /\ status[r] \in {"running", "stopped"}

\* A finished run is finished: a decision in flight, an expired approval or a
\* failure reported late changes neither its outcome nor its journal.
FinishedRunsStay ==
    [][\A r \in Runs : status[r] \in Terminal =>
          UNCHANGED <<status[r], step[r], action[r]>>]_vars

\* Whenever a tool is executed, the agent is enabled and at the version of the
\* run that asked for it, even if the decision or the approval is older.
OnlyCurrentAgentActs ==
    [][executed' # executed =>
          \E r \in Runs : Current(r) /\ action'[r] # action[r] /\ status'[r] = "pending"]_vars

\* Every admitted run ends, whatever the model, the members and the crashes do.
RunsEnd ==
    \A r \in Runs : (status[r] # "none") ~> (status[r] \in Terminal)
==============================================================================
