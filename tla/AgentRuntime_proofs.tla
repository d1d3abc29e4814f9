------------------------- MODULE AgentRuntime_proofs -------------------------
(***************************************************************************)
(* Theorems about AgentRuntime, for any runs, inputs and workers and any   *)
(* limits.                                                                  *)
(***************************************************************************)
EXTENDS AgentRuntime, FiniteSetTheorems, TLAPS

Pending(r, n) == action[r][n].approval = "pending"
Waits(r) == status[r] = "waiting_approval"

\* The rows: a blank one has no action, and an approval is pending exactly as
\* long as its action is.
RowMeans(row) ==
    /\ row.status = "none" <=> row = NoAction
    /\ row.status = "none" <=> row.input = NoInput
    /\ row.approval = "pending" <=> row.status = "pending_approval"
RowsMean == \A r \in Runs, n \in Sequence : RowMeans(action[r][n])

\* A run waits for one approval.
OneApproval ==
    \A r \in Runs :
        /\ Waits(r) <=> \E n \in Sequence : Pending(r, n)
        /\ \A m, n \in Sequence : Pending(r, m) /\ Pending(r, n) => m = n

\* No two actions have one input.
InputsOnce ==
    \A r, q \in Runs, m, n \in Sequence :
        action[r][m].status # "none" /\ action[r][m].input = action[q][n].input => r = q /\ m = n

Completed(i) ==
    \E r \in Runs, n \in Sequence : action[r][n].status = "completed" /\ action[r][n].input = i
ExecutedMeans == \A i \in Inputs : executed[i] = IF Completed(i) THEN 1 ELSE 0

\* An action stays within the budget of its run, whatever became of it; the
\* attempts on the subject are counted when one is executed.
Budgets ==
    /\ IsFiniteSet(Proposals)
    /\ \A r \in Runs : Cardinality(Acted(r)) <= MaxActions
    /\ Cardinality({i \in Inputs : executed[i] > 0}) <= MaximumAttempts

RowsInv == RowsMean /\ OneApproval /\ InputsOnce /\ ExecutedMeans /\ Budgets

\* The steps of a run are numbered without a gap, an open one is the last and
\* has no action, and the worker that thinks about a run thinks about that one.
RunInOrder(r) ==
    /\ StepCount(r) \in 0..MaxSteps
    /\ \A n \in Sequence : step[r][n] # "none" <=> n <= StepCount(r)
    /\ \A n \in Sequence : step[r][n] \in {"none", "planning"} => action[r][n] = NoAction
    /\ \A n \in Sequence : step[r][n] = "planning" =>
          n = StepCount(r) /\ status[r] \in {"running", "stopped"}
    /\ \A w \in Workers : pc[w] = "thinking" /\ Holds(w, r) =>
          StepCount(r) # 0 /\ step[r][StepCount(r)] = "planning"
StepsInv == \A r \in Runs : RunInOrder(r)

IInv == TypeOK /\ RowsInv /\ StepsInv

------------------------------------------------------------------------------
(* Types.                                                                   *)

LEMMA TypeInit == Init => TypeOK
<1> SUFFICES ASSUME Init
             PROVE  TypeOK
  OBVIOUS
<1>1. NoAction \in Action
  BY ConstantsAssumption DEF NoAction, Action, ActionStatuses, Approvals
<1>2. NoClaim \in [run : Runs \cup {NoRun}, context : 0..MaxEdits]
  BY ConstantsAssumption DEF NoClaim
<1>3. QED
  BY <1>1, <1>2, ConstantsAssumption DEF Init, TypeOK, Statuses, StepStatuses

\* The rows of runs and workers, without their types.
Leased == \A r \in Runs : (leaseToken[r] # NoWorker) <=> (status[r] = "running")
StatusType == status \in [Runs -> Statuses] /\ leaseToken \in [Runs -> Workers \cup {NoWorker}]
              /\ leaseOver \in [Runs -> BOOLEAN]
WorkerType == pc \in [Workers -> {"idle", "claimed", "thinking", "failing"}]
              /\ held \in [Workers -> [run : Runs \cup {NoRun}, context : 0..MaxEdits]]

\* A run that is left has no lease; the others keep theirs.
LEMMA Left ==
    ASSUME TypeOK, NEW r \in Runs, NEW s \in Statuses \ {"running"}, Leave(r, s)
    PROVE  /\ StatusType' /\ Leased'
           /\ status'[r] = s /\ leaseToken'[r] = NoWorker
           /\ \A q \in Runs \ {r} : status'[q] = status[q] /\ leaseToken'[q] = leaseToken[q]
BY DEF TypeOK, Leave, StatusType, Leased, Statuses

\* A worker that is done, or whose answer is lost, thinks of nothing.
LEMMA Done ==
    ASSUME TypeOK, NEW w \in Workers, Release(w) \/ Committed(w)
    PROVE  /\ WorkerType'
           /\ pc'[w] # "thinking"
           /\ \A v \in Workers \ {w} : pc'[v] = pc[v] /\ held'[v] = held[v]
<1>1. NoClaim \in [run : Runs \cup {NoRun}, context : 0..MaxEdits]
  BY ConstantsAssumption DEF NoClaim
<1>2. CASE Release(w)
  BY <1>1, <1>2 DEF TypeOK, Release, WorkerType
<1>3. CASE pc' = [pc EXCEPT ![w] = "failing"] /\ UNCHANGED held
  BY <1>3 DEF TypeOK, WorkerType
<1>4. QED
  BY <1>2, <1>3 DEF Committed

LEMMA InterruptType ==
    ASSUME TypeOK, NEW r \in Runs
    PROVE  /\ Interrupt(r) \in [Sequence -> StepStatuses]
           /\ \A n \in Sequence : /\ Interrupt(r)[n] = "none" <=> step[r][n] = "none"
                                  /\ Interrupt(r)[n] # "planning"
BY DEF TypeOK, Interrupt, StepStatuses

\* One run's steps change.
LEMMA OneJournal ==
    ASSUME TypeOK, NEW r \in Runs, NEW f \in [Sequence -> StepStatuses], step' = [step EXCEPT ![r] = f]
    PROVE  /\ step' \in [Runs -> [Sequence -> StepStatuses]]
           /\ step'[r] = f /\ \A q \in Runs \ {r} : step'[q] = step[q]
BY DEF TypeOK

\* The last step is completed, or a failure is written to it.
LEMMA StepDoneType ==
    ASSUME TypeOK, NEW r \in Runs, step' = StepDone(r)
    PROVE  /\ step' \in [Runs -> [Sequence -> StepStatuses]]
           /\ \A q \in Runs \ {r} : step'[q] = step[q]
           /\ \A n \in Sequence : step'[r][n] = IF n = StepCount(r) THEN "completed" ELSE step[r][n]
<1> DEFINE k == StepCount(r)
<1> HIDE DEF k
<1> DEFINE f == [step[r] EXCEPT ![k] = "completed"]
<1>1. step' = [step EXCEPT ![r] = f]
  BY DEF StepDone, k
<1>2. /\ f \in [Sequence -> StepStatuses]
      /\ \A n \in Sequence : f[n] = IF n = k THEN "completed" ELSE step[r][n]
  BY DEF TypeOK, StepStatuses
<1> HIDE DEF f
<1>3. /\ step' \in [Runs -> [Sequence -> StepStatuses]]
      /\ \A q \in Runs \ {r} : step'[q] = step[q]
      /\ \A n \in Sequence : step'[r][n] = IF n = k THEN "completed" ELSE step[r][n]
  BY <1>1, <1>2, OneJournal
<1>4. QED
  BY <1>3 DEF k

\* One row changes.
Decided(row, approval, s) == [row EXCEPT !.approval = approval, !.status = s]

LEMMA DecidedRow ==
    ASSUME NEW row \in Action, NEW a, NEW s
    PROVE  /\ Decided(row, a, s).input = row.input
           /\ Decided(row, a, s).approval = a /\ Decided(row, a, s).status = s
BY DEF Action, Decided

LEMMA DecideType ==
    ASSUME TypeOK, NEW r \in Runs, NEW n \in Sequence,
           NEW approval \in Approvals, NEW s \in ActionStatuses, Decide(r, n, approval, s)
    PROVE  /\ action' \in [Runs -> [Sequence -> Action]]
           /\ action'[r][n].input = action[r][n].input
           /\ action'[r][n].approval = approval /\ action'[r][n].status = s
           /\ \A q \in Runs, m \in Sequence : q # r \/ m # n => action'[q][m] = action[q][m]
<1> DEFINE row == Decided(action[r][n], approval, s)
<1>1. action[r][n] \in Action
  BY DEF TypeOK
<1>2. row \in Action /\ row.input = action[r][n].input /\ row.approval = approval /\ row.status = s
  BY <1>1 DEF Action, Decided
<1>3. action' = [action EXCEPT ![r][n] = row]
  BY DEF Decide, Decided, TypeOK
<1> HIDE DEF row
<1>4. /\ action' \in [Runs -> [Sequence -> Action]]
      /\ action'[r][n] = row
      /\ \A q \in Runs, m \in Sequence : q # r \/ m # n => action'[q][m] = action[q][m]
  BY <1>2, <1>3 DEF TypeOK
<1>5. QED
  BY <1>2, <1>4

LEMMA DayRow ==
    ASSUME TypeOK, NEW r \in Runs, NEW n \in Sequence, action' = [action EXCEPT ![r][n].over = TRUE]
    PROVE  /\ action' \in [Runs -> [Sequence -> Action]]
           /\ action'[r][n].input = action[r][n].input
           /\ action'[r][n].approval = action[r][n].approval
           /\ action'[r][n].status = action[r][n].status
           /\ \A q \in Runs, m \in Sequence : q # r \/ m # n => action'[q][m] = action[q][m]
<1> DEFINE row == [action[r][n] EXCEPT !.over = TRUE]
<1>1. action[r][n] \in Action
  BY DEF TypeOK
<1>2. /\ row \in Action /\ row.input = action[r][n].input
      /\ row.approval = action[r][n].approval /\ row.status = action[r][n].status
  BY <1>1 DEF Action
<1> DEFINE f == [action[r] EXCEPT ![n] = row]
<1>3. action' = [action EXCEPT ![r] = f]
  OBVIOUS
<1> HIDE DEF row
<1>4. /\ f \in [Sequence -> Action] /\ f[n] = row
      /\ \A m \in Sequence \ {n} : f[m] = action[r][m]
  BY <1>2 DEF TypeOK
<1> HIDE DEF f
<1>5. /\ action' \in [Runs -> [Sequence -> Action]]
      /\ action'[r] = f /\ \A q \in Runs \ {r} : action'[q] = action[q]
  BY ZenonT(30), <1>3, <1>4 DEF TypeOK
<1>6. /\ action' \in [Runs -> [Sequence -> Action]]
      /\ action'[r][n] = row
      /\ \A q \in Runs, m \in Sequence : q # r \/ m # n => action'[q][m] = action[q][m]
  BY <1>4, <1>5
<1>7. QED
  BY <1>2, <1>6

\* The row of a proposal, by the policy's outcome.
Proposed(i, outcome) ==
    [NoAction EXCEPT !.input = i, !.context = context,
        !.status = CASE outcome = "deny" -> "blocked"
                     [] outcome = "recommend" -> "recommended"
                     [] outcome = "require_approval" -> "pending_approval"
                     [] outcome = "allow" -> "completed",
        !.approval = IF outcome = "require_approval" THEN "pending" ELSE "none"]

AllOutcomes == {"deny", "recommend", "require_approval", "allow"}

LEMMA OutcomesKnown == \A r \in Runs : Outcomes(r) \subseteq AllOutcomes
BY DEF Outcomes, AllOutcomes

LEMMA ProposedRow ==
    ASSUME TypeOK, NEW i \in Inputs, NEW outcome \in AllOutcomes
    PROVE  LET row == Proposed(i, outcome) IN
           /\ row \in Action /\ row.input = i /\ row # NoAction /\ row.status # "none"
           /\ row.approval = "pending" <=> outcome = "require_approval"
           /\ row.status = "pending_approval" <=> outcome = "require_approval"
           /\ row.status = "completed" <=> outcome = "allow"
<1>1. i # NoInput
  BY ConstantsAssumption
<1>2. CASE outcome = "deny"
  BY <1>1, <1>2 DEF Proposed, NoAction, Action, ActionStatuses, Approvals, TypeOK
<1>3. CASE outcome = "recommend"
  BY <1>1, <1>3 DEF Proposed, NoAction, Action, ActionStatuses, Approvals, TypeOK
<1>4. CASE outcome = "require_approval"
  BY <1>1, <1>4 DEF Proposed, NoAction, Action, ActionStatuses, Approvals, TypeOK
<1>5. CASE outcome = "allow"
  BY <1>1, <1>5 DEF Proposed, NoAction, Action, ActionStatuses, Approvals, TypeOK
<1>6. QED
  BY <1>2, <1>3, <1>4, <1>5 DEF AllOutcomes

LEMMA ExecuteType ==
    ASSUME TypeOK, NEW i \in Inputs, Execute(i)
    PROVE  /\ executed' \in [Inputs -> Nat] /\ context' \in 0..MaxEdits
           /\ subject' = subject
           /\ executed'[i] = executed[i] + 1 /\ \A j \in Inputs \ {i} : executed'[j] = executed[j]
BY DEF TypeOK, Execute

\* Types of what a step of the journal, of a run and of a worker leave alone.
OthersType ==
    /\ enabled \in BOOLEAN /\ configVersion \in 1..MaxVersions
    /\ context \in 0..MaxEdits /\ subject \in {"eligible", "ineligible", "gone"}
    /\ version \in [Runs -> 1..MaxVersions]
    /\ due \in [Runs -> BOOLEAN] /\ deadlineOver \in [Runs -> BOOLEAN]
    /\ stalls \in 0..MaxStalls /\ deferrals \in 0..MaxDeferrals /\ crashes \in 0..MaxCrashes
JournalType ==
    /\ step \in [Runs -> [Sequence -> StepStatuses]]
    /\ action \in [Runs -> [Sequence -> Action]]
    /\ executed \in [Inputs -> Nat]

LEMMA TypeParts ==
    /\ TypeOK <=> OthersType /\ StatusType /\ Leased /\ WorkerType /\ JournalType
    /\ TypeOK' <=> OthersType' /\ StatusType' /\ Leased' /\ WorkerType' /\ JournalType'
BY DEF TypeOK, OthersType, StatusType, Leased, WorkerType, JournalType

\* stop, by its two updates: a row changes only if its approval is pending.
Rejected(row) ==
    [row EXCEPT !.approval = IF @ = "pending" THEN "rejected" ELSE @,
                !.status = IF @ = "pending_approval" THEN "blocked" ELSE @]

LEMMA RejectedRow ==
    ASSUME NEW row \in Action
    PROVE  /\ Rejected(row) \in Action
           /\ RowMeans(row) =>
                 Rejected(row) = IF row.approval = "pending" THEN Decided(row, "rejected", "blocked")
                                 ELSE row
<1>1. Rejected(row) \in Action
  BY DEF Action, Rejected, Approvals, ActionStatuses
<1>2. CASE row.approval = "pending"
  BY <1>1, <1>2 DEF Action, Rejected, Decided, RowMeans
<1>3. CASE row.approval # "pending"
  <2>1. row.status # "pending_approval" => Rejected(row) = row
    BY <1>3 DEF Action, Rejected
  <2>2. QED
    BY <1>1, <1>3, <2>1 DEF RowMeans
<1>4. QED
  BY <1>2, <1>3

LEMMA StopRows ==
    ASSUME TypeOK, NEW r \in Runs, Stop(r)
    PROVE  /\ action' \in [Runs -> [Sequence -> Action]]
           /\ RowsMean => \A q \in Runs, n \in Sequence :
                 IF q = r /\ Pending(r, n)
                 THEN action'[q][n] = Decided(action[r][n], "rejected", "blocked")
                 ELSE action'[q][n] = action[q][n]
<1> DEFINE f == [n \in Sequence |-> Rejected(action[r][n])]
<1>1. \A n \in Sequence : action[r][n] \in Action
  BY DEF TypeOK
<1>2. action' = [action EXCEPT ![r] = f]
  <2>1. f = RejectPending(r)
    BY DEF RejectPending, Rejected
  <2>2. QED
    BY <2>1 DEF Stop
<1>3. f \in [Sequence -> Action] /\ \A n \in Sequence : f[n] = Rejected(action[r][n])
  BY <1>1, RejectedRow
<1> HIDE DEF f
<1>4. /\ action' \in [Runs -> [Sequence -> Action]]
      /\ action'[r] = f /\ \A q \in Runs \ {r} : action'[q] = action[q]
  BY <1>2, <1>3 DEF TypeOK
<1>5. RowsMean => \A n \in Sequence :
         action'[r][n] = IF Pending(r, n) THEN Decided(action[r][n], "rejected", "blocked") ELSE action[r][n]
  BY <1>1, <1>3, <1>4, RejectedRow DEF RowsMean, Pending
<1>6. QED
  BY <1>4, <1>5

LEMMA TypeAdminister == TypeOK /\ Administer => TypeOK'
<1> SUFFICES ASSUME TypeOK, Administer
             PROVE  TypeOK'
  OBVIOUS
<1>1. ASSUME NEW r \in Runs, EnqueueRun(r)
      PROVE  TypeOK'
  BY <1>1 DEF EnqueueRun, TypeOK, Statuses, Terminal, agentVars, subjectVars, leaseVars, journal,
     workerVars, budgets
<1>2. ASSUME NEW r \in Runs, Stop(r)
      PROVE  TypeOK'
  <2>1. StatusType' /\ Leased'
    BY <1>2, Left DEF Stop, FinishRun, Statuses, Terminal
  <2>2. step' \in [Runs -> [Sequence -> StepStatuses]]
    BY <1>2, InterruptType, OneJournal DEF Stop
  <2>3. action' \in [Runs -> [Sequence -> Action]]
    BY <1>2, StopRows
  <2>4. OthersType' /\ WorkerType' /\ executed' \in [Inputs -> Nat]
    BY <1>2 DEF Stop, FinishRun, TypeOK, OthersType, WorkerType, agentVars, subjectVars, workerVars, budgets
  <2>5. QED
    BY <2>1, <2>2, <2>3, <2>4, TypeParts DEF JournalType
<1>3. CASE Enable \/ AppendVersion \/ EditSubject
  <2>1. /\ enabled' \in BOOLEAN /\ configVersion' \in 1..MaxVersions
        /\ context' \in 0..MaxEdits /\ subject' \in {"eligible", "ineligible", "gone"}
    <3>1. CASE Enable
      BY <3>1 DEF Enable, TypeOK, subjectVars
    <3>2. CASE AppendVersion
      <4>1. MaxVersions \in Nat /\ configVersion \in 1..MaxVersions
        BY ConstantsAssumption DEF TypeOK
      <4>2. configVersion + 1 \in 1..MaxVersions
        BY <3>2, <4>1 DEF AppendVersion
      <4>3. QED
        BY <3>2, <4>2 DEF AppendVersion, TypeOK, subjectVars
    <3>3. CASE EditSubject
      BY <3>3, ConstantsAssumption DEF EditSubject, TypeOK, agentVars
    <3>4. QED
      BY <1>3, <3>1, <3>2, <3>3
  <2>2. UNCHANGED <<status, version, leaseVars, due, deadlineOver, journal, workerVars, budgets>>
    BY <1>3 DEF Enable, AppendVersion, EditSubject
  <2>3. QED
    BY <2>1, <2>2, TypeParts DEF OthersType, StatusType, Leased, WorkerType, JournalType, leaseVars,
       journal, workerVars, budgets
<1>4. QED
  BY <1>1, <1>2, <1>3 DEF Administer

LEMMA TypePrepare == \A w \in Workers : TypeOK /\ Prepare(w) => TypeOK'
<1> SUFFICES ASSUME NEW w \in Workers, TypeOK, Prepare(w)
             PROVE  TypeOK'
  OBVIOUS
<1>1. CASE PrepareStale(w)
  BY <1>1, Done, TypeParts DEF PrepareStale, OthersType, StatusType, Leased, JournalType, agentVars,
     subjectVars, leaseVars, journal, budgets
<1>2. ASSUME NEW r \in Runs, PrepareEnds(w, r)
      PROVE  TypeOK'
  <2>1. StatusType' /\ Leased'
    BY <1>2, Left DEF PrepareEnds, FinishRun, Statuses, Terminal
  <2>2. step' \in [Runs -> [Sequence -> StepStatuses]]
    BY <1>2, InterruptType, OneJournal DEF PrepareEnds
  <2>3. WorkerType'
    BY <1>2, Done DEF PrepareEnds
  <2>4. OthersType' /\ action' = action /\ executed' = executed
    BY <1>2 DEF PrepareEnds, FinishRun, TypeOK, OthersType, agentVars, subjectVars, budgets
  <2>5. QED
    BY <2>1, <2>2, <2>3, <2>4, TypeParts DEF JournalType
<1>3. ASSUME NEW r \in Runs, PrepareDefers(w, r)
      PROVE  TypeOK'
  <2>1. StatusType' /\ Leased'
    BY <1>3, Left DEF PrepareDefers, Statuses
  <2>2. step' \in [Runs -> [Sequence -> StepStatuses]]
    BY <1>3, InterruptType, OneJournal DEF PrepareDefers
  <2>3. WorkerType'
    BY <1>3, Done DEF PrepareDefers
  <2>4. OthersType' /\ action' = action /\ executed' = executed
    BY <1>3, ConstantsAssumption DEF PrepareDefers, TypeOK, OthersType, agentVars, subjectVars
  <2>5. QED
    BY <2>1, <2>2, <2>3, <2>4, TypeParts DEF JournalType
<1>4. ASSUME NEW r \in Runs, PrepareStep(w, r)
      PROVE  TypeOK'
  <2> DEFINE f == [Interrupt(r) EXCEPT ![StepCount(r) + 1] = "planning"]
  <2>1. f \in [Sequence -> StepStatuses]
    BY InterruptType DEF StepStatuses
  <2>2. step' \in [Runs -> [Sequence -> StepStatuses]]
    BY <1>4, <2>1, OneJournal DEF PrepareStep
  <2>3. WorkerType'
    BY ZenonT(30), <1>4 DEF PrepareStep, TypeOK, WorkerType
  <2>4. /\ OthersType' /\ action' = action /\ executed' = executed
        /\ StatusType' /\ Leased'
    BY <1>4 DEF PrepareStep, TypeOK, OthersType, StatusType, Leased, agentVars, subjectVars, leaseVars,
       budgets
  <2>5. QED
    BY <2>2, <2>3, <2>4, TypeParts DEF JournalType
<1>5. QED
  BY <1>1, <1>2, <1>3, <1>4 DEF Prepare

LEMMA TypeCommit == \A w \in Workers : TypeOK /\ Commit(w) => TypeOK'
<1> SUFFICES ASSUME NEW w \in Workers, TypeOK, Commit(w)
             PROVE  TypeOK'
  OBVIOUS
<1>1. CASE CommitStale(w)
  BY <1>1, Done, TypeParts DEF CommitStale, OthersType, StatusType, Leased, JournalType, agentVars,
     subjectVars, leaseVars, journal, budgets
<1>2. ASSUME NEW r \in Runs, CommitLate(w, r)
      PROVE  TypeOK'
  <2>1. StatusType' /\ Leased' /\ WorkerType'
    BY <1>2, Left, Done DEF CommitLate, FinishRun, Statuses, Terminal
  <2>2. OthersType' /\ JournalType'
    BY <1>2, TypeParts DEF CommitLate, FinishRun, OthersType, JournalType, agentVars, subjectVars, journal, budgets
  <2>3. QED
    BY <2>1, <2>2, TypeParts
<1>3. ASSUME NEW r \in Runs, CommitWithoutAction(w, r)
      PROVE  TypeOK'
  <2>1. StatusType' /\ Leased' /\ WorkerType'
    BY <1>3, Left, Done DEF CommitWithoutAction, FinishRun, Resume, Statuses, Terminal
  <2>2. JournalType'
    BY <1>3, StepDoneType, TypeParts DEF CommitWithoutAction, JournalType
  <2>3. OthersType'
    BY <1>3 DEF CommitWithoutAction, FinishRun, Resume, TypeOK, OthersType, agentVars, subjectVars, budgets
  <2>4. QED
    BY <2>1, <2>2, <2>3, TypeParts
<1>4. ASSUME NEW r \in Runs, NEW i \in Inputs, CommitSuppressed(w, r, i)
      PROVE  TypeOK'
  <2>1. StatusType' /\ Leased' /\ WorkerType'
    BY <1>4, Left, Done DEF CommitSuppressed, FinishRun, Statuses, Terminal
  <2>2. JournalType'
    BY <1>4, StepDoneType, TypeParts DEF CommitSuppressed, JournalType
  <2>3. OthersType'
    BY <1>4, TypeParts DEF CommitSuppressed, FinishRun, OthersType, agentVars, subjectVars, budgets
  <2>4. QED
    BY <2>1, <2>2, <2>3, TypeParts
<1>5. ASSUME NEW r \in Runs, NEW i \in Inputs, NEW outcome \in AllOutcomes, CommitAction(w, r, i, outcome)
      PROVE  TypeOK'
  <2>1. StatusType' /\ Leased' /\ WorkerType'
    <3>1. \E s \in Statuses \ {"running"} : Leave(r, s)
      BY <1>5 DEF CommitAction, FinishRun, Resume, Statuses, Terminal, AllOutcomes
    <3>2. QED
      BY <1>5, <3>1, Left, Done DEF CommitAction
  <2>2. step' \in [Runs -> [Sequence -> StepStatuses]]
    BY <1>5, StepDoneType DEF CommitAction
  <2>3. action' \in [Runs -> [Sequence -> Action]]
    <3> DEFINE row == Proposed(i, outcome)
               k == StepCount(r)
    <3>1. row \in Action
      BY ProposedRow
    <3>2. action' = [action EXCEPT ![r][k] = row]
      BY <1>5 DEF CommitAction, Proposed
    <3> HIDE DEF row, k
    <3>3. QED
      BY <3>1, <3>2 DEF TypeOK
  <2>4. /\ executed' \in [Inputs -> Nat] /\ context' \in 0..MaxEdits
        /\ subject' \in {"eligible", "ineligible", "gone"}
    <3>1. CASE outcome = "allow"
      BY <1>5, <3>1, ExecuteType DEF CommitAction, TypeOK
    <3>2. CASE outcome # "allow"
      BY <1>5, <3>2 DEF CommitAction, TypeOK, subjectVars
    <3>3. QED
      BY <3>1, <3>2
  <2>5. due' \in [Runs -> BOOLEAN] /\ deadlineOver' \in [Runs -> BOOLEAN]
    BY <1>5 DEF CommitAction, FinishRun, Resume, AllOutcomes, TypeOK
  <2>6. OthersType'
    BY <1>5, <2>4, <2>5 DEF CommitAction, OthersType, TypeOK, agentVars, budgets
  <2>7. QED
    BY <2>1, <2>2, <2>3, <2>4, <2>6, TypeParts DEF JournalType
<1>6. QED
  BY <1>1, <1>2, <1>3, <1>4, <1>5, OutcomesKnown DEF Commit

LEMMA TypeRest ==
    ASSUME TypeOK
    PROVE  /\ \A w \in Workers : Throws(w) \/ Fail(w) \/ Crash(w) => TypeOK'
           /\ \A w \in Workers, r \in Runs : ClaimRun(w, r) => TypeOK'
           /\ \A r \in Runs, n \in Sequence :
                 Approve(r, n) \/ Reject(r, n) \/ DayPasses(r, n) \/ ExpireApproval(r, n) => TypeOK'
           /\ \A r \in Runs : LeaseEnds(r) \/ MinutePasses(r) \/ DeadlinePasses(r) => TypeOK'
<1>1. ASSUME NEW w \in Workers, Throws(w)
      PROVE  TypeOK'
  BY <1>1 DEF Throws, TypeOK, agentVars, subjectVars, leaseVars, journal, budgets
<1>2. ASSUME NEW w \in Workers, FailStale(w) \/ Crash(w)
      PROVE  TypeOK'
  <2>1. WorkerType'
    BY <1>2, Done DEF FailStale, Crash
  <2>2. OthersType' /\ StatusType' /\ Leased' /\ JournalType'
    BY <1>2, TypeParts, ConstantsAssumption DEF FailStale, Crash, OthersType, StatusType, Leased, JournalType, agentVars,
       subjectVars, leaseVars, journal, budgets
  <2>3. QED
    BY <2>1, <2>2, TypeParts
<1>3. ASSUME NEW w \in Workers, NEW r \in Runs, FailRun(w, r)
      PROVE  TypeOK'
  <2> DEFINE f == [n \in Sequence |-> IF n = StepCount(r) THEN "failed" ELSE step[r][n]]
  <2>1. f \in [Sequence -> StepStatuses]
    BY DEF TypeOK, StepStatuses
  <2>2. step' = [step EXCEPT ![r] = f]
    BY <1>3 DEF FailRun, TypeOK
  <2>3. step' \in [Runs -> [Sequence -> StepStatuses]]
    BY <2>1, <2>2, OneJournal
  <2>4. StatusType' /\ Leased' /\ WorkerType'
    BY <1>3, Left, Done DEF FailRun, FinishRun, Statuses, Terminal
  <2>5. OthersType' /\ action' = action /\ executed' = executed
    BY <1>3, TypeParts DEF FailRun, FinishRun, OthersType, agentVars, subjectVars, budgets
  <2>6. QED
    BY <2>3, <2>4, <2>5, TypeParts DEF JournalType
<1>4. ASSUME NEW w \in Workers, NEW r \in Runs, ClaimRun(w, r)
      PROVE  TypeOK'
  <2>1. StatusType' /\ Leased'
    BY <1>4, ConstantsAssumption DEF ClaimRun, StatusType, Leased, TypeOK, Statuses
  <2>2. WorkerType'
    BY <1>4, ConstantsAssumption DEF ClaimRun, WorkerType, TypeOK
  <2>3. OthersType' /\ JournalType'
    BY <1>4, TypeParts DEF ClaimRun, OthersType, JournalType, agentVars, subjectVars, journal, budgets
  <2>4. QED
    BY <2>1, <2>2, <2>3, TypeParts
<1>5. ASSUME NEW r \in Runs, NEW n \in Sequence, Approve(r, n)
      PROVE  TypeOK'
  <2>1. StatusType' /\ Leased'
    BY <1>5, Left DEF Approve, Statuses
  <2>2. action' \in [Runs -> [Sequence -> Action]]
    BY <1>5, DecideType DEF Approve, Approvals, ActionStatuses
  <2>3. executed' \in [Inputs -> Nat]
    <3> DEFINE i == action[r][n].input
    <3>1. executed' = [executed EXCEPT ![i] = @ + 1]
      BY <1>5 DEF Approve, Execute
    <3> HIDE DEF i
    <3>2. executed \in [Inputs -> Nat] /\ \A j \in Inputs : executed[j] + 1 \in Nat
      BY DEF TypeOK
    <3>3. \A j \in Inputs : executed'[j] \in Nat
      BY <3>1, <3>2
    <3>4. QED
      BY <3>1, <3>2, <3>3
  <2>4. OthersType' /\ WorkerType' /\ step' = step
    BY <1>5 DEF Approve, Execute, OthersType, WorkerType, TypeOK, agentVars, workerVars, budgets
  <2>5. QED
    BY <2>1, <2>2, <2>3, <2>4, TypeParts DEF JournalType
<1>6. ASSUME NEW r \in Runs, NEW n \in Sequence, Reject(r, n) \/ ExpireApproval(r, n)
      PROVE  TypeOK'
  <2>1. StatusType' /\ Leased'
    BY <1>6, Left DEF Reject, ExpireApproval, FinishRun, Statuses, Terminal
  <2>2. action' \in [Runs -> [Sequence -> Action]]
    BY <1>6, DecideType DEF Reject, ExpireApproval, Approvals, ActionStatuses
  <2>3. OthersType' /\ WorkerType' /\ step' = step /\ executed' = executed
    BY <1>6, TypeParts DEF Reject, ExpireApproval, FinishRun, OthersType, WorkerType, agentVars, subjectVars, workerVars, budgets
  <2>4. QED
    BY <2>1, <2>2, <2>3, TypeParts DEF JournalType
<1>7. ASSUME NEW r \in Runs, NEW n \in Sequence, DayPasses(r, n)
      PROVE  TypeOK'
  <2>1. action' \in [Runs -> [Sequence -> Action]]
    BY <1>7, DayRow DEF DayPasses
  <2>2. QED
    BY <1>7, <2>1, TypeParts DEF DayPasses, OthersType, StatusType, Leased, WorkerType, JournalType, agentVars,
       subjectVars, leaseVars, workerVars, budgets
<1>8. ASSUME NEW r \in Runs, LeaseEnds(r)
      PROVE  TypeOK'
  BY <1>8, ConstantsAssumption DEF LeaseEnds, TypeOK, agentVars, subjectVars, journal, workerVars
<1>9. ASSUME NEW r \in Runs, MinutePasses(r) \/ DeadlinePasses(r)
      PROVE  TypeOK'
  BY <1>9 DEF MinutePasses, DeadlinePasses, TypeOK, agentVars, subjectVars, leaseVars, journal,
     workerVars, budgets
<1>10. QED
  BY <1>1, <1>2, <1>3, <1>4, <1>5, <1>6, <1>7, <1>8, <1>9 DEF Fail

LEMMA TypeStep == TypeOK /\ [Next]_vars => TypeOK'
<1> SUFFICES ASSUME TypeOK, [Next]_vars
             PROVE  TypeOK'
  OBVIOUS
<1>1. CASE UNCHANGED vars
  BY <1>1, TypeParts DEF vars, OthersType, StatusType, Leased, WorkerType, JournalType, agentVars,
     subjectVars, leaseVars, journal, workerVars, budgets
<1>2. CASE Next
  BY <1>2, TypeAdminister, TypePrepare, TypeCommit, TypeRest DEF Next, Advance, Expire
<1>3. QED
  BY <1>1, <1>2

\* Every row of the runtime and every worker keeps its type, and a run has a
\* lease exactly while it is running.
THEOREM TypeCorrect == Spec => []TypeOK
BY TypeInit, TypeStep, PTL DEF Spec

------------------------------------------------------------------------------
(* The steps of a run.                                                      *)

LEMMA CountsUpTo ==
    ASSUME NEW r \in Runs, NEW k \in 0..MaxSteps, {n \in Sequence : step'[r][n] # "none"} = 1..k
    PROVE  StepCount(r)' = k
<1>1. Cardinality(1..k) = k
  BY ConstantsAssumption, FS_Interval
<1>2. QED
  BY <1>1 DEF StepCount

LEMMA SameCount ==
    ASSUME NEW r \in Runs, \A n \in Sequence : step'[r][n] = "none" <=> step[r][n] = "none"
    PROVE  StepCount(r)' = StepCount(r)
<1>1. {n \in Sequence : step'[r][n] # "none"} = {n \in Sequence : step[r][n] # "none"}
  OBVIOUS
<1>2. QED
  BY <1>1 DEF StepCount

\* A blank row stays blank while nothing is proposed.
BlankStays(r) == \A n \in Sequence : action[r][n] = NoAction => action'[r][n] = NoAction
Thinks(v, r) == pc[v] = "thinking" /\ Holds(v, r)

\* A run whose steps stay, and whose open step may be open.
LEMMA RunKept ==
    ASSUME NEW r \in Runs, RunInOrder(r), step'[r] = step[r], BlankStays(r),
           (\A n \in Sequence : step[r][n] # "planning") \/ status'[r] \in {"running", "stopped"},
           \A v \in Workers : Thinks(v, r)' => Thinks(v, r)
    PROVE  RunInOrder(r)'
<1>1. StepCount(r)' = StepCount(r)
  BY SameCount
<1>2. /\ StepCount(r)' \in 0..MaxSteps
      /\ \A n \in Sequence : step'[r][n] # "none" <=> n <= StepCount(r)'
      /\ \A n \in Sequence : step'[r][n] = "planning" =>
            n = StepCount(r)' /\ status'[r] \in {"running", "stopped"}
  BY <1>1 DEF RunInOrder
<1>3. \A n \in Sequence : step'[r][n] \in {"none", "planning"} => action'[r][n] = NoAction
  BY DEF RunInOrder, BlankStays
<1>4. \A w \in Workers : Thinks(w, r)' => StepCount(r)' # 0 /\ step'[r][StepCount(r)'] = "planning"
  BY <1>1 DEF RunInOrder, Thinks
<1>5. QED
  BY <1>2, <1>3, <1>4 DEF RunInOrder, Thinks

\* A run that no longer runs, with its open step resolved.
LEMMA RunResolved ==
    ASSUME NEW r \in Runs, RunInOrder(r), status'[r] # "running",
           \A n \in Sequence : /\ step'[r][n] = "none" <=> step[r][n] = "none"
                               /\ step'[r][n] # "planning"
                               /\ step'[r][n] = "none" => action'[r][n] = NoAction
    PROVE  RunInOrder(r)'
<1>1. StepCount(r)' = StepCount(r)
  BY SameCount
<1>2. /\ StepCount(r)' \in 0..MaxSteps
      /\ \A n \in Sequence : step'[r][n] # "none" <=> n <= StepCount(r)'
  BY <1>1 DEF RunInOrder
<1>3. QED
  BY <1>2 DEF RunInOrder, Holds

\* The runs a step is not about.
LEMMA OtherRuns ==
    ASSUME TypeOK, StepsInv, NEW r \in Runs,
           \A q \in Runs \ {r} : /\ step'[q] = step[q] /\ status'[q] = status[q]
                                 /\ leaseToken'[q] = leaseToken[q] /\ BlankStays(q),
           \A v \in Workers : pc'[v] = "thinking" =>
              held'[v].run = r \/ (pc[v] = "thinking" /\ held'[v] = held[v])
    PROVE  \A q \in Runs \ {r} : RunInOrder(q)'
<1> SUFFICES ASSUME NEW q \in Runs \ {r}
             PROVE  RunInOrder(q)'
  OBVIOUS
<1>1. RunInOrder(q)
  BY DEF StepsInv
<1>2. (\A n \in Sequence : step[q][n] # "planning") \/ status'[q] \in {"running", "stopped"}
  BY <1>1 DEF RunInOrder
<1>3. \A v \in Workers : Thinks(v, q)' => Thinks(v, q)
  BY DEF Thinks, Holds
<1>4. QED
  BY <1>1, <1>2, <1>3, RunKept

\* Steps of the queue that leave all steps of runs alone.
LEMMA AllRunsKept ==
    ASSUME TypeOK, StepsInv, step' = step, \A r \in Runs : BlankStays(r),
           \A v \in Workers : pc'[v] = "thinking" => pc[v] = "thinking" /\ held'[v] = held[v],
           \A r \in Runs :
              \/ status'[r] = status[r] /\ leaseToken'[r] = leaseToken[r]
              \/ /\ status'[r] # "running"
                 /\ status'[r] = "stopped" \/ status[r] \notin {"running", "stopped"}
    PROVE  StepsInv'
<1> SUFFICES ASSUME NEW r \in Runs
             PROVE  RunInOrder(r)'
  BY DEF StepsInv
<1>1. RunInOrder(r)
  BY DEF StepsInv
<1>2. (\A n \in Sequence : step[r][n] # "planning") \/ status'[r] \in {"running", "stopped"}
  BY <1>1 DEF RunInOrder
<1>3. \A v \in Workers : Thinks(v, r)' => Thinks(v, r)
  BY DEF Thinks, Holds
<1>4. QED
  BY <1>1, <1>2, <1>3, RunKept

\* A step that resolves the open step of a run it stops, ends or puts back.
LEMMA RunLeft ==
    ASSUME TypeOK, StepsInv, NEW r \in Runs, NEW s \in Statuses \ {"running"}, Leave(r, s),
           \A q \in Runs \ {r} : step'[q] = step[q] /\ BlankStays(q),
           \A v \in Workers : pc'[v] = "thinking" => pc[v] = "thinking" /\ held'[v] = held[v],
           \A n \in Sequence : /\ step'[r][n] = "none" <=> step[r][n] = "none"
                               /\ step'[r][n] # "planning"
                               /\ step'[r][n] = "none" => action'[r][n] = NoAction
    PROVE  StepsInv'
<1>1. /\ status'[r] # "running"
      /\ \A q \in Runs \ {r} : status'[q] = status[q] /\ leaseToken'[q] = leaseToken[q]
  BY Left
<1>2. RunInOrder(r)'
  BY <1>1, RunResolved DEF StepsInv
<1>3. \A q \in Runs \ {r} : RunInOrder(q)'
  BY <1>1, OtherRuns
<1>4. QED
  BY <1>2, <1>3 DEF StepsInv

LEMMA WorkersDone ==
    ASSUME TypeOK, NEW w \in Workers, Release(w) \/ Committed(w)
    PROVE  \A v \in Workers : pc'[v] = "thinking" => pc[v] = "thinking" /\ held'[v] = held[v]
BY Done

LEMMA StepsInvInit == Init => StepsInv
<1> SUFFICES ASSUME Init, NEW r \in Runs
             PROVE  RunInOrder(r)
  BY DEF StepsInv
<1>1. {n \in Sequence : step[r][n] # "none"} = {}
  BY DEF Init
<1>2. StepCount(r) = 0
  BY <1>1, FS_EmptySet DEF StepCount
<1>3. \A n \in Sequence : ~(n <= 0)
  BY ConstantsAssumption DEF Sequence
<1>4. QED
  BY <1>2, <1>3, ConstantsAssumption DEF Init, RunInOrder

LEMMA StepsAdminister == TypeOK /\ RowsMean /\ StepsInv /\ Administer => StepsInv'
<1> SUFFICES ASSUME TypeOK, RowsMean, StepsInv, Administer
             PROVE  StepsInv'
  OBVIOUS
<1>1. ASSUME NEW r \in Runs, EnqueueRun(r)
      PROVE  StepsInv'
  <2>1. /\ step' = step /\ action' = action /\ pc' = pc /\ held' = held /\ leaseToken' = leaseToken
        /\ status'[r] # "running" /\ status[r] = "none"
        /\ \A q \in Runs \ {r} : status'[q] = status[q]
    BY <1>1 DEF EnqueueRun, TypeOK, journal, workerVars, leaseVars
  <2>2. QED
    BY <2>1, AllRunsKept DEF BlankStays
<1>2. ASSUME NEW r \in Runs, Stop(r)
      PROVE  StepsInv'
  <2>1. Leave(r, "stopped") /\ "stopped" \in Statuses \ {"running"} /\ pc' = pc /\ held' = held
    <3>1. FinishRun(r, "stopped") /\ UNCHANGED workerVars
      BY <1>2 DEF Stop
    <3>2. QED
      BY <3>1 DEF FinishRun, Statuses, Terminal, workerVars
  <2>2. step'[r] = Interrupt(r) /\ \A q \in Runs \ {r} : step'[q] = step[q]
    <3>1. step' = [step EXCEPT ![r] = Interrupt(r)]
      BY <1>2 DEF Stop
    <3>2. QED
      BY <3>1, InterruptType, OneJournal
  <2>3. \A q \in Runs : BlankStays(q)
    BY <1>2, StopRows DEF BlankStays, Pending, NoAction
  <2>4. \A n \in Sequence : step[r][n] = "none" => action[r][n] = NoAction
    BY DEF StepsInv, RunInOrder
  <2>5. \A n \in Sequence : /\ step'[r][n] = "none" <=> step[r][n] = "none"
                            /\ step'[r][n] # "planning"
                            /\ step'[r][n] = "none" => action'[r][n] = NoAction
    BY <2>2, <2>3, <2>4, InterruptType DEF BlankStays
  <2>6. QED
    BY <2>1, <2>2, <2>3, <2>5, RunLeft
<1>3. CASE Enable \/ AppendVersion \/ EditSubject
  <2>1. UNCHANGED <<status, leaseToken, step, action, pc, held>>
    BY <1>3 DEF Enable, AppendVersion, EditSubject, leaseVars, journal, workerVars
  <2>2. QED
    BY <2>1, AllRunsKept DEF BlankStays
<1>4. QED
  BY <1>1, <1>2, <1>3 DEF Administer

\* The claim was lost: nothing but the worker changes.
LEMMA StepsStale ==
    ASSUME TypeOK, StepsInv, NEW w \in Workers,
           PrepareStale(w) \/ CommitStale(w) \/ FailStale(w) \/ Crash(w) \/ Throws(w)
    PROVE  StepsInv'
<1>1. UNCHANGED <<status, leaseToken, step, action>>
  BY DEF PrepareStale, CommitStale, FailStale, Crash, Throws, leaseVars, journal
<1>2. \A v \in Workers : pc'[v] = "thinking" => pc[v] = "thinking" /\ held'[v] = held[v]
  <2>1. CASE Throws(w)
    BY <2>1 DEF Throws, TypeOK
  <2>2. CASE ~Throws(w)
    BY <2>2, WorkersDone DEF PrepareStale, CommitStale, FailStale, Crash
  <2>3. QED
    BY <2>1, <2>2
<1>3. QED
  BY <1>1, <1>2, AllRunsKept DEF BlankStays

LEMMA StepsPrepare ==
    ASSUME TypeOK, StepsInv, NEW w \in Workers, NEW r \in Runs,
           PrepareEnds(w, r) \/ PrepareDefers(w, r) \/ PrepareStep(w, r)
    PROVE  StepsInv'
<1>0. /\ \A n \in Sequence : step[r][n] = "none" => action[r][n] = NoAction
      /\ action' = action
  BY DEF StepsInv, RunInOrder, PrepareEnds, PrepareDefers, PrepareStep
<1>1. CASE PrepareEnds(w, r) \/ PrepareDefers(w, r)
  <2>1. \E s \in Statuses \ {"running"} : Leave(r, s)
    BY <1>1 DEF PrepareEnds, PrepareDefers, FinishRun, Statuses, Terminal
  <2>2. step'[r] = Interrupt(r) /\ \A q \in Runs \ {r} : step'[q] = step[q]
    BY <1>1, InterruptType, OneJournal DEF PrepareEnds, PrepareDefers
  <2>3. \A v \in Workers : pc'[v] = "thinking" => pc[v] = "thinking" /\ held'[v] = held[v]
    BY <1>1, WorkersDone DEF PrepareEnds, PrepareDefers
  <2>4. \A n \in Sequence : /\ step'[r][n] = "none" <=> step[r][n] = "none"
                            /\ step'[r][n] # "planning"
                            /\ step'[r][n] = "none" => action'[r][n] = NoAction
    BY <1>0, <2>2, InterruptType
  <2>5. \A q \in Runs \ {r} : step'[q] = step[q] /\ BlankStays(q)
    BY <1>0, <2>2 DEF BlankStays
  <2>6. QED
    BY <2>1, <2>3, <2>4, <2>5, RunLeft
<1>2. CASE PrepareStep(w, r)
  <2> DEFINE k == StepCount(r)
             f == [Interrupt(r) EXCEPT ![k + 1] = "planning"]
  <2>1. /\ k \in 0..MaxSteps /\ k < MaxSteps
        /\ \A n \in Sequence : step[r][n] # "none" <=> n <= k
    BY <1>2 DEF PrepareStep, MayThink, StepsInv, RunInOrder
  <2>2. f \in [Sequence -> StepStatuses]
    BY InterruptType DEF StepStatuses
  <2>3. step'[r] = f /\ \A q \in Runs \ {r} : step'[q] = step[q]
    BY <1>2, <2>2, OneJournal DEF PrepareStep
  <2>4. /\ status' = status /\ leaseToken' = leaseToken
        /\ status[r] = "running" /\ leaseToken[r] = w
        /\ held[w].run = r /\ held'[w].run = r
        /\ \A v \in Workers \ {w} : pc'[v] = pc[v] /\ held'[v] = held[v]
    BY <1>2 DEF PrepareStep, Holds, leaseVars, TypeOK
  <2> HIDE DEF k
  <2>5. k + 1 \in Sequence /\ Sequence \subseteq Nat /\ k \in Nat
    BY <2>1, ConstantsAssumption DEF Sequence
  <2>6. \A n \in Sequence : step'[r][n] = IF n = k + 1 THEN "planning" ELSE Interrupt(r)[n]
    BY <2>3, <2>5, InterruptType
  <2>7. \A n \in Sequence : step'[r][n] # "none" <=> n <= k + 1
    BY <2>1, <2>5, <2>6, InterruptType
  <2>8. {n \in Sequence : step'[r][n] # "none"} = 1..(k + 1)
    BY <2>1, <2>7, ConstantsAssumption DEF Sequence
  <2>9. k + 1 \in 0..MaxSteps
    BY <2>1, ConstantsAssumption
  <2>10. StepCount(r)' = k + 1
    BY <2>8, <2>9, CountsUpTo
  <2>11. \A n \in Sequence : step'[r][n] \in {"none", "planning"} => action'[r][n] = NoAction
    <3>1. ASSUME NEW n \in Sequence, step'[r][n] \in {"none", "planning"}
          PROVE  action'[r][n] = NoAction
      <4>1. step[r][n] = "none"
        BY <3>1, <2>1, <2>5, <2>6, InterruptType
      <4>2. QED
        BY <4>1, <1>0
    <3>2. QED
      BY <3>1
  <2>12. \A n \in Sequence : step'[r][n] = "planning" => n = k + 1
    BY <2>6, InterruptType
  <2>13. step'[r][k + 1] = "planning" /\ k + 1 # 0
    BY <2>5, <2>6
  <2>14. RunInOrder(r)'
    BY <2>4, <2>7, <2>9, <2>10, <2>11, <2>12, <2>13 DEF RunInOrder
  <2>15. \A q \in Runs \ {r} : RunInOrder(q)'
    <3>1. \A q \in Runs \ {r} : BlankStays(q)
      BY <1>0 DEF BlankStays
    <3>2. QED
      BY <2>3, <2>4, <3>1, OtherRuns
  <2>16. QED
    BY <2>14, <2>15 DEF StepsInv
<1>3. QED
  BY <1>1, <1>2

\* What a worker that commits a decision knows: the open step is the last and
\* has no action.
LEMMA OpenStep ==
    ASSUME TypeOK, StepsInv, NEW w \in Workers, NEW r \in Runs, MayCommit(w, r)
    PROVE  /\ StepCount(r) \in Sequence
           /\ step[r][StepCount(r)] = "planning" /\ action[r][StepCount(r)] = NoAction
           /\ \A n \in Sequence \ {StepCount(r)} : step[r][n] # "planning"
           /\ \A n \in Sequence : step[r][n] = "none" => action[r][n] = NoAction
<1>1. RunInOrder(r)
  BY DEF StepsInv
<1>2. /\ StepCount(r) \in 0..MaxSteps /\ StepCount(r) # 0
      /\ step[r][StepCount(r)] = "planning"
      /\ \A n \in Sequence : step[r][n] \in {"none", "planning"} => action[r][n] = NoAction
      /\ \A n \in Sequence : step[r][n] = "planning" => n = StepCount(r)
  BY <1>1 DEF RunInOrder, MayCommit
<1>3. StepCount(r) \in Sequence
  BY <1>2, ConstantsAssumption DEF Sequence
<1>4. QED
  BY <1>2, <1>3

\* The row a proposal is written to is blank, the others stay.
LEMMA ProposedAt ==
    ASSUME TypeOK, StepsInv, NEW w \in Workers, NEW r \in Runs, NEW i \in Inputs,
           NEW outcome \in AllOutcomes, CommitAction(w, r, i, outcome)
    PROVE  /\ action[r][StepCount(r)] = NoAction /\ StepCount(r) \in Sequence
           /\ action'[r][StepCount(r)] = Proposed(i, outcome)
           /\ \A q \in Runs, m \in Sequence : q # r \/ m # StepCount(r) => action'[q][m] = action[q][m]
<1> DEFINE row == Proposed(i, outcome)
           k == StepCount(r)
<1>1. row \in Action
  BY ProposedRow
<1>2. action' = [action EXCEPT ![r][k] = row]
  BY DEF CommitAction, Proposed
<1>3. k \in Sequence /\ action[r][k] = NoAction
  BY OpenStep DEF CommitAction
<1> HIDE DEF row, k
<1>4. /\ action'[r][k] = row
      /\ \A q \in Runs, m \in Sequence : q # r \/ m # k => action'[q][m] = action[q][m]
  BY <1>2, <1>3 DEF TypeOK
<1>5. QED
  BY <1>3, <1>4 DEF row, k

\* The transaction that commits a decision of the model.
Commits(w, r) ==
    \/ CommitLate(w, r)
    \/ CommitWithoutAction(w, r)
    \/ \E i \in Inputs : CommitSuppressed(w, r, i)
    \/ \E i \in Inputs, outcome \in AllOutcomes : CommitAction(w, r, i, outcome)

LEMMA CommitParts ==
    ASSUME NEW w \in Workers, NEW r \in Runs, Commits(w, r)
    PROVE  /\ MayCommit(w, r) /\ Committed(w)
           /\ ~CommitLate(w, r) =>
                 step' = StepDone(r) /\ \E s \in Statuses \ {"running"} : Leave(r, s)
<1>1. CASE CommitLate(w, r)
  BY <1>1 DEF CommitLate
<1>2. CASE CommitWithoutAction(w, r)
  BY <1>2 DEF CommitWithoutAction, FinishRun, Resume, Statuses, Terminal
<1>3. ASSUME NEW i \in Inputs, CommitSuppressed(w, r, i)
      PROVE  /\ MayCommit(w, r) /\ Committed(w) /\ step' = StepDone(r)
             /\ \E s \in Statuses \ {"running"} : Leave(r, s)
  BY <1>3 DEF CommitSuppressed, FinishRun, Statuses, Terminal
<1>4. ASSUME NEW i \in Inputs, NEW outcome \in AllOutcomes, CommitAction(w, r, i, outcome)
      PROVE  /\ MayCommit(w, r) /\ Committed(w) /\ step' = StepDone(r)
             /\ \E s \in Statuses \ {"running"} : Leave(r, s)
  BY <1>4 DEF CommitAction, FinishRun, Resume, Statuses, Terminal, AllOutcomes
<1>5. QED
  BY <1>1, <1>2, <1>3, <1>4 DEF Commits

LEMMA StepsCommit ==
    ASSUME TypeOK, StepsInv, NEW w \in Workers, NEW r \in Runs, Commits(w, r)
    PROVE  StepsInv'
<1>1. MayCommit(w, r)
  BY CommitParts
<1>2. \A v \in Workers : pc'[v] = "thinking" => pc[v] = "thinking" /\ held'[v] = held[v]
  BY CommitParts, WorkersDone
<1>3. CASE CommitLate(w, r)
  <2>1. Leave(r, "stopped") /\ step' = step /\ action' = action
    BY <1>3 DEF CommitLate, FinishRun, journal
  <2>2. /\ status'[r] = "stopped"
        /\ \A q \in Runs \ {r} : status'[q] = status[q] /\ leaseToken'[q] = leaseToken[q]
    BY <2>1, Left DEF Statuses, Terminal
  <2>3. QED
    BY <1>2, <2>1, <2>2, AllRunsKept DEF BlankStays
<1>4. CASE ~CommitLate(w, r)
  <2>1. \E s \in Statuses \ {"running"} : Leave(r, s)
    BY <1>4, CommitParts
  <2>2. step' = StepDone(r)
    BY <1>4, CommitParts
  <2>3. /\ \A q \in Runs \ {r} : step'[q] = step[q]
        /\ \A n \in Sequence : step'[r][n] = IF n = StepCount(r) THEN "completed" ELSE step[r][n]
    BY <2>2, StepDoneType
  <2>4. \A q \in Runs, n \in Sequence :
           action'[q][n] = action[q][n] \/ (q = r /\ n = StepCount(r))
    <3>1. CASE action' = action
      BY <3>1
    <3>2. ASSUME NEW i \in Inputs, NEW outcome \in AllOutcomes, CommitAction(w, r, i, outcome)
          PROVE  \A q \in Runs, n \in Sequence :
                    action'[q][n] = action[q][n] \/ (q = r /\ n = StepCount(r))
      BY <3>2, ProposedAt
    <3>3. QED
      BY <1>4, <3>1, <3>2 DEF Commits, CommitWithoutAction, CommitSuppressed
  <2>5. \A n \in Sequence : /\ step'[r][n] = "none" <=> step[r][n] = "none"
                            /\ step'[r][n] # "planning"
                            /\ step'[r][n] = "none" => action'[r][n] = NoAction
    BY <1>1, <2>3, <2>4, OpenStep
  <2>6. \A q \in Runs \ {r} : step'[q] = step[q] /\ BlankStays(q)
    BY <2>3, <2>4 DEF BlankStays
  <2>7. QED
    BY <1>2, <2>1, <2>5, <2>6, RunLeft
<1>5. QED
  BY <1>3, <1>4

LEMMA StepsFail ==
    ASSUME TypeOK, StepsInv, NEW w \in Workers, NEW r \in Runs, FailRun(w, r)
    PROVE  StepsInv'
<1> DEFINE f == [n \in Sequence |-> IF n = StepCount(r) THEN "failed" ELSE step[r][n]]
<1>1. f \in [Sequence -> StepStatuses]
  BY DEF TypeOK, StepStatuses
<1>2. step' = [step EXCEPT ![r] = f]
  BY DEF FailRun, TypeOK
<1>3. step'[r] = f /\ \A q \in Runs \ {r} : step'[q] = step[q]
  BY <1>1, <1>2, OneJournal
<1>4. RunInOrder(r)
  BY DEF StepsInv
<1>5. \A n \in Sequence : /\ n = StepCount(r) => step[r][n] # "none"
                          /\ step[r][n] = "planning" => n = StepCount(r)
                          /\ step[r][n] = "none" => action[r][n] = NoAction
  BY <1>4, ConstantsAssumption DEF RunInOrder, Sequence
<1>6. action' = action /\ Leave(r, "failed") /\ "failed" \in Statuses \ {"running"}
  BY DEF FailRun, FinishRun, Statuses, Terminal
<1>7. \A n \in Sequence : /\ step'[r][n] = "none" <=> step[r][n] = "none"
                          /\ step'[r][n] # "planning"
                          /\ step'[r][n] = "none" => action'[r][n] = NoAction
  BY <1>3, <1>5, <1>6
<1>8. \A q \in Runs \ {r} : step'[q] = step[q] /\ BlankStays(q)
  BY <1>3, <1>6 DEF BlankStays
<1>9. \A v \in Workers : pc'[v] = "thinking" => pc[v] = "thinking" /\ held'[v] = held[v]
  BY WorkersDone DEF FailRun
<1>10. QED
  BY <1>6, <1>7, <1>8, <1>9, RunLeft

LEMMA StepsClaim ==
    ASSUME TypeOK, StepsInv, NEW w \in Workers, NEW r \in Runs, ClaimRun(w, r)
    PROVE  StepsInv'
<1>1. /\ step' = step /\ action' = action
      /\ status'[r] = "running" /\ leaseToken'[r] = w
      /\ \A q \in Runs \ {r} : status'[q] = status[q] /\ leaseToken'[q] = leaseToken[q]
      /\ pc'[w] = "claimed" /\ \A v \in Workers \ {w} : pc'[v] = pc[v] /\ held'[v] = held[v]
  BY DEF ClaimRun, TypeOK, journal
<1>2. \A v \in Workers : Thinks(v, r)' => Thinks(v, r)
  BY <1>1 DEF Thinks, Holds
<1>3. RunInOrder(r)'
  BY <1>1, <1>2, RunKept DEF StepsInv, BlankStays
<1>4. \A q \in Runs \ {r} : RunInOrder(q)'
  BY <1>1, OtherRuns DEF BlankStays
<1>5. QED
  BY <1>3, <1>4 DEF StepsInv

\* Approvals and time leave the steps alone.
LEMMA StepsRest ==
    ASSUME TypeOK, StepsInv
    PROVE  /\ \A r \in Runs, n \in Sequence :
                 RowsMean /\ OneApproval /\ (Approve(r, n) \/ Reject(r, n) \/ ExpireApproval(r, n)) => StepsInv'
           /\ \A r \in Runs, n \in Sequence : DayPasses(r, n) => StepsInv'
           /\ \A r \in Runs : LeaseEnds(r) \/ MinutePasses(r) \/ DeadlinePasses(r) => StepsInv'
<1>1. ASSUME NEW r \in Runs, NEW n \in Sequence, RowsMean, OneApproval,
             Approve(r, n) \/ Reject(r, n) \/ ExpireApproval(r, n)
      PROVE  StepsInv'
  <2>1. Pending(r, n) /\ Waits(r)
    BY <1>1 DEF Approve, Reject, ExpireApproval, Decidable, Pending, OneApproval, Waits
  <2>2. \E a \in Approvals, s \in ActionStatuses : Decide(r, n, a, s)
    BY <1>1 DEF Approve, Reject, ExpireApproval, Approvals, ActionStatuses
  <2>3. \A q \in Runs : BlankStays(q)
    BY <2>1, <2>2, DecideType DEF BlankStays, Pending, NoAction
  <2>4. \E s \in {"pending", "stopped"} : Leave(r, s)
    BY <1>1 DEF Approve, Reject, ExpireApproval, FinishRun
  <2>5. /\ status'[r] \in {"pending", "stopped"} /\ status[r] = "waiting_approval"
        /\ \A q \in Runs \ {r} : status'[q] = status[q] /\ leaseToken'[q] = leaseToken[q]
    BY <2>1, <2>4, Left DEF Waits, Statuses, Terminal
  <2>6. step' = step /\ pc' = pc /\ held' = held
    BY <1>1 DEF Approve, Reject, ExpireApproval, workerVars
  <2>7. QED
    BY <2>3, <2>5, <2>6, AllRunsKept
<1>2. ASSUME NEW r \in Runs, NEW n \in Sequence, DayPasses(r, n)
      PROVE  StepsInv'
  <2>1. \A q \in Runs : BlankStays(q)
    BY <1>2, DayRow DEF DayPasses, BlankStays, NoAction
  <2>2. UNCHANGED <<status, leaseToken, step, pc, held>>
    BY <1>2 DEF DayPasses, leaseVars, workerVars
  <2>3. QED
    BY <2>1, <2>2, AllRunsKept
<1>3. ASSUME NEW r \in Runs, LeaseEnds(r) \/ MinutePasses(r) \/ DeadlinePasses(r)
      PROVE  StepsInv'
  <2>1. UNCHANGED <<status, leaseToken, step, action, pc, held>>
    BY <1>3 DEF LeaseEnds, MinutePasses, DeadlinePasses, leaseVars, journal, workerVars
  <2>2. QED
    BY <2>1, AllRunsKept DEF BlankStays
<1>4. QED
  BY <1>1, <1>2, <1>3

LEMMA StepsInvStep == TypeOK /\ RowsMean /\ OneApproval /\ StepsInv /\ [Next]_vars => StepsInv'
<1> SUFFICES ASSUME TypeOK, RowsMean, OneApproval, StepsInv, [Next]_vars
             PROVE  StepsInv'
  OBVIOUS
<1>1. CASE UNCHANGED vars
  <2>1. UNCHANGED <<status, leaseToken, step, action, pc, held>>
    BY <1>1 DEF vars, leaseVars, journal, workerVars
  <2>2. QED
    BY <2>1, AllRunsKept DEF BlankStays
<1>2. CASE Administer
  BY <1>2, StepsAdminister
<1>3. ASSUME NEW w \in Workers, Prepare(w) \/ Throws(w) \/ Fail(w) \/ Crash(w)
      PROVE  StepsInv'
  BY <1>3, StepsStale, StepsPrepare, StepsFail DEF Prepare, Fail
<1>4. ASSUME NEW w \in Workers, Commit(w)
      PROVE  StepsInv'
  BY <1>4, StepsStale, StepsCommit, OutcomesKnown DEF Commit, Commits
<1>5. ASSUME NEW w \in Workers, NEW r \in Runs, ClaimRun(w, r)
      PROVE  StepsInv'
  BY <1>5, StepsClaim
<1>6. ASSUME NEW r \in Runs, NEW n \in Sequence,
             Approve(r, n) \/ Reject(r, n) \/ DayPasses(r, n) \/ ExpireApproval(r, n)
      PROVE  StepsInv'
  BY <1>6, StepsRest
<1>7. ASSUME NEW r \in Runs, LeaseEnds(r) \/ MinutePasses(r) \/ DeadlinePasses(r)
      PROVE  StepsInv'
  BY <1>7, StepsRest
<1>8. QED
  BY <1>1, <1>2, <1>3, <1>4, <1>5, <1>6, <1>7 DEF Next, Advance, Expire

------------------------------------------------------------------------------
(* The rows.                                                                *)

LEMMA ProposalsMean ==
    /\ \A p : p \in Proposals <=>
          \E r \in Runs, n \in Sequence : p = <<r, n>> /\ action[r][n].status # "none"
    /\ \A p : p \in Proposals' <=>
          \E r \in Runs, n \in Sequence : p = <<r, n>> /\ action'[r][n].status # "none"
<1>1. \A p : p \in Proposals <=> \E r \in Runs : \E n \in Acted(r) : p = <<r, n>>
  BY DEF Proposals
<1>2. \A p : p \in Proposals' <=> \E r \in Runs : \E n \in Acted(r)' : p = <<r, n>>
  BY DEF Proposals
<1>3. QED
  BY <1>1, <1>2 DEF Acted

LEMMA ActedFinite ==
    /\ \A r : IsFiniteSet(Acted(r)) /\ Cardinality(Acted(r)) \in Nat
    /\ \A S : S \subseteq Sequence => IsFiniteSet(S)
<1>1. IsFiniteSet(Sequence)
  BY ConstantsAssumption, FS_Interval DEF Sequence
<1>2. \A S : S \subseteq Sequence => IsFiniteSet(S)
  BY <1>1, FS_Subset
<1>3. \A r : Acted(r) \subseteq Sequence
  BY DEF Acted
<1>4. QED
  BY <1>2, <1>3, FS_CardinalityType

LEMMA SameProposals ==
    ASSUME \A r \in Runs, n \in Sequence : action'[r][n].status = "none" <=> action[r][n].status = "none"
    PROVE  Proposals' = Proposals /\ \A r \in Runs : Acted(r)' = Acted(r)
<1>1. \A p : p \in Proposals' <=> p \in Proposals
  BY ProposalsMean
<1>2. QED
  BY <1>1 DEF Acted

\* What is executed was proposed.
LEMMA ExecutedWereProposed ==
    ASSUME RowsMean', ExecutedMeans', IsFiniteSet(Proposals')
    PROVE  /\ Cardinality({i \in Inputs : executed'[i] > 0}) \in Nat
           /\ Cardinality({i \in Inputs : executed'[i] > 0}) <= Cardinality(Proposals')
<1> DEFINE S == Proposals'
           done == {i \in Inputs : executed'[i] > 0}
           f == [p \in S |-> action'[p[1]][p[2]].input]
           T == {f[p] : p \in S}
<1>1. done \subseteq T
  <2>1. ASSUME NEW i \in done
        PROVE  \E p \in S : f[p] = i
    <3>1. executed'[i] = IF Completed(i)' THEN 1 ELSE 0
      BY DEF ExecutedMeans
    <3>2. Completed(i)'
      BY <3>1
    <3>3. PICK r \in Runs, n \in Sequence :
             action'[r][n].status = "completed" /\ action'[r][n].input = i
      BY <3>2 DEF Completed
    <3>4. <<r, n>> \in S
      BY <3>3, ProposalsMean
    <3>5. f[<<r, n>>] = i
      BY <3>3, <3>4
    <3>6. QED
      BY <3>4, <3>5
  <2>2. QED
    BY <2>1
<1>2. f \in [S -> T] /\ \A t \in T : \E p \in S : f[p] = t
  OBVIOUS
<1> HIDE DEF f
<1>3. f \in Surjection(S, T)
  BY <1>2 DEF Surjection
<1> HIDE DEF S, T
<1>4. IsFiniteSet(T) /\ Cardinality(T) <= Cardinality(S)
  BY <1>3, FS_Surjection DEF S
<1>5. IsFiniteSet(done) /\ Cardinality(done) <= Cardinality(T)
  BY <1>1, <1>4, FS_Subset
<1>6. /\ Cardinality(done) \in Nat /\ Cardinality(T) \in Nat /\ Cardinality(S) \in Nat
  BY <1>4, <1>5, FS_CardinalityType DEF S
<1>7. QED
  BY <1>4, <1>5, <1>6 DEF S

\* A step that settles rows and executes nothing.
LEMMA RowsSettle ==
    ASSUME TypeOK, TypeOK', RowsInv, executed' = executed,
           \A r \in Runs, n \in Sequence :
              /\ action'[r][n].input = action[r][n].input
              /\ action'[r][n].status = "none" <=> action[r][n].status = "none"
              /\ action'[r][n].status = "completed" <=> action[r][n].status = "completed"
    PROVE  InputsOnce' /\ ExecutedMeans' /\ Budgets'
<1>1. InputsOnce'
  BY DEF RowsInv, InputsOnce
<1>2. \A i \in Inputs : Completed(i)' <=> Completed(i)
  BY DEF Completed
<1>3. ExecutedMeans'
  BY <1>2 DEF RowsInv, ExecutedMeans
<1>4. Budgets'
  BY SameProposals DEF RowsInv, Budgets
<1>5. QED
  BY <1>1, <1>3, <1>4

\* Steps that leave the rows alone and let no run begin or cease to wait.
LEMMA RowsKept ==
    ASSUME TypeOK, TypeOK', RowsInv, action' = action, executed' = executed,
           \A r \in Runs : Waits(r)' <=> Waits(r)
    PROVE  RowsInv'
<1>1. InputsOnce' /\ ExecutedMeans' /\ Budgets'
  BY RowsSettle
<1>2. RowsMean' /\ OneApproval'
  BY DEF RowsInv, RowsMean, OneApproval, Pending
<1>3. QED
  BY <1>1, <1>2 DEF RowsInv

\* A run that is left by a worker did not wait.
LEMMA LeftRunning ==
    ASSUME TypeOK, NEW r \in Runs, NEW s \in Statuses \ {"running", "waiting_approval"}, Leave(r, s),
           status[r] = "running"
    PROVE  \A q \in Runs : Waits(q)' <=> Waits(q)
BY Left DEF Waits

LEMMA RowsInvInit == Init => RowsInv
<1> SUFFICES ASSUME Init
             PROVE  RowsInv
  OBVIOUS
<1>1. \A r \in Runs, n \in Sequence : action[r][n] = NoAction
  BY DEF Init
<1>2. RowsMean
  <2>1. RowMeans(NoAction)
    BY DEF RowMeans, NoAction
  <2>2. QED
    BY <1>1, <2>1 DEF RowsMean
<1>3. OneApproval
  BY <1>1 DEF OneApproval, Waits, Pending, Init, NoAction
<1>4. InputsOnce
  BY <1>1 DEF InputsOnce, NoAction
<1>5. ExecutedMeans
  BY <1>1 DEF ExecutedMeans, Completed, Init, NoAction
<1>6. Proposals = {}
  BY <1>1, ProposalsMean DEF NoAction
<1>7. \A r \in Runs : Acted(r) = {}
  BY <1>1 DEF Acted, NoAction
<1>8. {i \in Inputs : executed[i] > 0} = {}
  BY DEF Init
<1>9. Budgets
  BY <1>6, <1>7, <1>8, FS_EmptySet, ConstantsAssumption DEF Budgets
<1>10. QED
  BY <1>2, <1>3, <1>4, <1>5, <1>9 DEF RowsInv

LEMMA RowsAdminister == TypeOK /\ TypeOK' /\ RowsInv /\ Administer => RowsInv'
<1> SUFFICES ASSUME TypeOK, TypeOK', RowsInv, Administer
             PROVE  RowsInv'
  OBVIOUS
<1>1. ASSUME NEW r \in Runs, EnqueueRun(r)
      PROVE  RowsInv'
  <2>1. action' = action /\ executed' = executed /\ \A q \in Runs : Waits(q)' <=> Waits(q)
    BY <1>1 DEF EnqueueRun, TypeOK, Waits, journal
  <2>2. QED
    BY <2>1, RowsKept
<1>2. ASSUME NEW r \in Runs, Stop(r)
      PROVE  RowsInv'
  <2>1. \A q \in Runs, n \in Sequence :
           IF q = r /\ Pending(r, n)
           THEN action'[q][n] = Decided(action[r][n], "rejected", "blocked")
           ELSE action'[q][n] = action[q][n]
    BY <1>2, StopRows DEF RowsInv
  <2>2. \A q \in Runs, n \in Sequence : RowMeans(action[q][n]) /\ action[q][n] \in Action
    BY DEF RowsInv, RowsMean, TypeOK
  <2>3. ASSUME NEW n \in Sequence, Pending(r, n)
        PROVE  /\ action'[r][n].input = action[r][n].input /\ action[r][n].input # NoInput
               /\ action'[r][n].status = "blocked" /\ action'[r][n].approval = "rejected"
               /\ action[r][n].status = "pending_approval"
    <3>1. action'[r][n] = Decided(action[r][n], "rejected", "blocked")
      BY <2>1, <2>3
    <3>2. RowMeans(action[r][n]) /\ action[r][n] \in Action
      BY <2>2
    <3>3. QED
      BY <2>3, <3>1, <3>2, DecidedRow DEF RowMeans, Pending
  <2>4. RowsMean'
    <3>1. \A n \in Sequence : Pending(r, n) => RowMeans(action'[r][n])
      BY <2>3 DEF RowMeans, NoAction
    <3>2. \A q \in Runs, n \in Sequence : RowMeans(action'[q][n])
      BY <2>1, <2>2, <3>1
    <3>3. QED
      BY <3>2 DEF RowsMean
  <2>5. \A q \in Runs, n \in Sequence :
           /\ action'[q][n].input = action[q][n].input
           /\ action'[q][n].status = "none" <=> action[q][n].status = "none"
           /\ action'[q][n].status = "completed" <=> action[q][n].status = "completed"
    BY <2>1, <2>3
  <2>6. executed' = executed
    BY <1>2 DEF Stop
  <2>7. OneApproval'
    <3>1. Leave(r, "stopped")
      BY <1>2 DEF Stop, FinishRun
    <3>2. ~Waits(r)' /\ \A q \in Runs \ {r} : Waits(q)' <=> Waits(q)
      BY <3>1, Left DEF Waits, Statuses, Terminal
    <3>3. \A n \in Sequence : ~Pending(r, n)'
      BY <2>1, <2>3 DEF Pending
    <3>4. \A q \in Runs \ {r}, n \in Sequence : Pending(q, n)' <=> Pending(q, n)
      BY <2>1 DEF Pending
    <3>5. QED
      BY <3>2, <3>3, <3>4 DEF RowsInv, OneApproval
  <2>8. QED
    BY <2>4, <2>5, <2>6, <2>7, RowsSettle DEF RowsInv
<1>3. CASE Enable \/ AppendVersion \/ EditSubject
  <2>1. UNCHANGED <<status, action, executed>>
    BY <1>3 DEF Enable, AppendVersion, EditSubject, journal
  <2>2. QED
    BY <2>1, RowsKept DEF Waits
<1>4. QED
  BY <1>1, <1>2, <1>3 DEF Administer

\* Everything a worker does but the commit of an action.
LEMMA RowsWork ==
    ASSUME TypeOK, TypeOK', RowsInv, NEW w \in Workers,
           \/ PrepareStale(w) \/ CommitStale(w) \/ FailStale(w) \/ Crash(w) \/ Throws(w)
           \/ \E r \in Runs : \/ PrepareEnds(w, r) \/ PrepareDefers(w, r) \/ PrepareStep(w, r)
                              \/ CommitLate(w, r) \/ CommitWithoutAction(w, r) \/ FailRun(w, r)
                              \/ ClaimRun(w, r)
                              \/ \E i \in Inputs : CommitSuppressed(w, r, i)
    PROVE  RowsInv'
<1>1. CASE PrepareStale(w) \/ CommitStale(w) \/ FailStale(w) \/ Crash(w) \/ Throws(w)
  <2>1. UNCHANGED <<status, action, executed>>
    BY <1>1 DEF PrepareStale, CommitStale, FailStale, Crash, Throws, journal
  <2>2. QED
    BY <2>1, RowsKept DEF Waits
<1>2. ASSUME NEW r \in Runs, ClaimRun(w, r) \/ PrepareStep(w, r)
      PROVE  RowsInv'
  <2>1. action' = action /\ executed' = executed /\ \A q \in Runs : Waits(q)' <=> Waits(q)
    BY <1>2 DEF ClaimRun, Claimable, PrepareStep, TypeOK, Waits, journal
  <2>2. QED
    BY <2>1, RowsKept
<1>3. ASSUME NEW r \in Runs, PrepareEnds(w, r) \/ PrepareDefers(w, r) \/ FailRun(w, r)
      PROVE  RowsInv'
  <2>1. /\ action' = action /\ executed' = executed /\ status[r] = "running"
        /\ \E s \in Statuses \ {"running", "waiting_approval"} : Leave(r, s)
    BY <1>3 DEF PrepareEnds, PrepareDefers, FailRun, Holds, FinishRun, Statuses, Terminal
  <2>2. QED
    BY <2>1, LeftRunning, RowsKept
<1>4. ASSUME NEW r \in Runs, CommitLate(w, r) \/ CommitWithoutAction(w, r) \/ \E i \in Inputs : CommitSuppressed(w, r, i)
      PROVE  RowsInv'
  <2>1. /\ action' = action /\ executed' = executed /\ MayCommit(w, r)
        /\ \E s \in {"stopped", "completed", "pending"} : Leave(r, s)
    <3>1. CASE CommitLate(w, r)
      BY <3>1 DEF CommitLate, FinishRun, journal
    <3>2. CASE CommitWithoutAction(w, r)
      BY <3>2 DEF CommitWithoutAction, FinishRun, Resume
    <3>3. ASSUME NEW i \in Inputs, CommitSuppressed(w, r, i)
          PROVE  /\ action' = action /\ executed' = executed /\ MayCommit(w, r)
                 /\ Leave(r, "stopped")
      BY <3>3 DEF CommitSuppressed, FinishRun
    <3>4. QED
      BY <1>4, <3>1, <3>2, <3>3
  <2>2. status[r] = "running" /\ {"stopped", "completed", "pending"} \subseteq Statuses
    BY <2>1 DEF MayCommit, Holds, Statuses, Terminal
  <2>3. QED
    BY <2>1, <2>2, LeftRunning, RowsKept
<1>5. QED
  BY <1>1, <1>2, <1>3, <1>4

\* The outcomes that leave an action are within the budgets.
LEMMA OutcomeAllowed ==
    ASSUME NEW r \in Runs, NEW outcome \in Outcomes(r), outcome # "deny"
    PROVE  Current(r) /\ Cardinality(Proposals) < MaximumAttempts
BY DEF Outcomes

LEMMA RowsPropose ==
    ASSUME TypeOK, TypeOK', RowsInv, StepsInv, NEW w \in Workers, NEW r \in Runs, NEW i \in Inputs,
           NEW outcome \in AllOutcomes, CommitAction(w, r, i, outcome)
    PROVE  RowsInv'
<1> DEFINE k == StepCount(r)
           row == Proposed(i, outcome)
<1>1. /\ action[r][k] = NoAction /\ k \in Sequence /\ action'[r][k] = row
      /\ \A q \in Runs, m \in Sequence : q # r \/ m # k => action'[q][m] = action[q][m]
  BY ProposedAt
<1>2. /\ row.input = i /\ row # NoAction /\ row.status # "none"
      /\ row.approval = "pending" <=> outcome = "require_approval"
      /\ row.status = "pending_approval" <=> outcome = "require_approval"
      /\ row.status = "completed" <=> outcome = "allow"
  BY ProposedRow
<1>3. /\ MayCommit(w, r) /\ ~Used(i) /\ Cardinality(Acted(r)) < MaxActions /\ outcome \in Outcomes(r)
      /\ IF outcome = "allow" THEN Execute(i) ELSE executed' = executed
  BY DEF CommitAction
<1>4. i # NoInput
  BY ConstantsAssumption
<1> HIDE DEF k, row
<1>5. \A q \in Runs, m \in Sequence : action[q][m].status # "none" => action[q][m].input # i
  <2>1. ASSUME NEW q \in Runs, NEW m \in Sequence, action[q][m].status # "none", action[q][m].input = i
        PROVE  FALSE
    <3>1. <<q, m>> \in Proposals
      BY <2>1, ProposalsMean
    <3>2. \A p \in Proposals : action[p[1]][p[2]].input # i
      BY <1>3 DEF Used
    <3>3. action[<<q, m>>[1]][<<q, m>>[2]].input # i
      BY <3>1, <3>2
    <3>4. QED
      BY <2>1, <3>3
  <2>2. QED
    BY <2>1
<1>6. NoAction.status = "none" /\ NoAction.approval = "none" /\ NoAction.input = NoInput
  BY DEF NoAction
<1>7. RowsMean'
  BY <1>1, <1>2, <1>4 DEF RowsInv, RowsMean, RowMeans
<1>8. InputsOnce'
  <2> SUFFICES ASSUME NEW p \in Runs, NEW q \in Runs, NEW m \in Sequence, NEW n \in Sequence,
                      action'[p][m].status # "none", action'[p][m].input = action'[q][n].input
               PROVE  p = q /\ m = n
    BY DEF InputsOnce
  <2>1. action'[q][n].status # "none"
    BY <1>7 DEF RowsMean, RowMeans
  <2>2. CASE (p = r /\ m = k) \/ (q = r /\ n = k)
    BY <1>1, <1>2, <1>5, <2>1, <2>2
  <2>3. CASE ~(p = r /\ m = k) /\ ~(q = r /\ n = k)
    BY <1>1, <2>3 DEF RowsInv, InputsOnce
  <2>4. QED
    BY <2>2, <2>3
<1>9. OneApproval'
  <2>1. status[r] = "running"
    BY <1>3 DEF MayCommit, Holds
  <2>2. \E s \in Statuses \ {"running"} : Leave(r, s) /\ (s = "waiting_approval" <=> outcome = "require_approval")
    <3>1. {"stopped", "completed", "waiting_approval", "pending"} \subseteq Statuses \ {"running"}
      BY DEF Statuses, Terminal
    <3>2. CASE outcome = "deny"
      BY <3>1, <3>2 DEF CommitAction, FinishRun
    <3>3. CASE outcome = "recommend"
      BY <3>1, <3>3 DEF CommitAction, FinishRun
    <3>4. CASE outcome = "require_approval"
      BY <3>1, <3>4 DEF CommitAction, FinishRun
    <3>5. CASE outcome = "allow"
      BY <3>1, <3>5 DEF CommitAction, Resume
    <3>6. QED
      BY <3>2, <3>3, <3>4, <3>5 DEF AllOutcomes
  <2>3. /\ Waits(r)' <=> outcome = "require_approval"
        /\ \A q \in Runs \ {r} : Waits(q)' <=> Waits(q)
    BY <2>2, Left DEF Waits
  <2>4. \A n \in Sequence : ~Pending(r, n)
    BY <2>1 DEF RowsInv, OneApproval, Waits
  <2>5. \A n \in Sequence : Pending(r, n)' <=> n = k /\ outcome = "require_approval"
    BY <1>1, <1>2, <2>4 DEF Pending
  <2>6. \A q \in Runs \ {r}, n \in Sequence : Pending(q, n)' <=> Pending(q, n)
    BY <1>1 DEF Pending
  <2>7. QED
    BY <1>1, <2>3, <2>5, <2>6 DEF RowsInv, OneApproval
<1>10. \A j \in Inputs : Completed(j)' <=> Completed(j) \/ (j = i /\ outcome = "allow")
  BY <1>1, <1>2, <1>6 DEF Completed
<1>11. ~Completed(i)
  BY <1>5 DEF Completed
<1>12. ExecutedMeans'
  <2>1. CASE outcome = "allow"
    <3>1. executed'[i] = executed[i] + 1 /\ \A j \in Inputs \ {i} : executed'[j] = executed[j]
      BY <1>3, <2>1, ExecuteType
    <3>2. executed[i] = 0
      BY <1>11 DEF RowsInv, ExecutedMeans
    <3>3. QED
      BY <1>10, <2>1, <3>1, <3>2 DEF RowsInv, ExecutedMeans
  <2>2. CASE outcome # "allow"
    BY <1>3, <1>10, <2>2 DEF RowsInv, ExecutedMeans
  <2>3. QED
    BY <2>1, <2>2
<1>13. /\ Proposals' = Proposals \cup {<<r, k>>} /\ <<r, k>> \notin Proposals
       /\ Acted(r)' = Acted(r) \cup {k} /\ k \notin Acted(r)
       /\ \A q \in Runs \ {r} : Acted(q)' = Acted(q)
  <2>1. \A p : p \in Proposals' <=> p \in Proposals \/ p = <<r, k>>
    BY <1>1, <1>2, ProposalsMean
  <2>2. <<r, k>> \notin Proposals
    BY <1>1, <1>6, ProposalsMean
  <2>3. Acted(r)' = Acted(r) \cup {k} /\ k \notin Acted(r)
    BY <1>1, <1>2, <1>6 DEF Acted
  <2>4. \A q \in Runs \ {r} : Acted(q)' = Acted(q)
    BY <1>1 DEF Acted
  <2>5. QED
    BY <2>1, <2>2, <2>3, <2>4
<1>14. /\ IsFiniteSet(Proposals') /\ Cardinality(Proposals') = Cardinality(Proposals) + 1
       /\ Cardinality(Proposals) \in Nat
  BY <1>13, FS_AddElement, FS_CardinalityType DEF RowsInv, Budgets
<1>15. \A q \in Runs : Cardinality(Acted(q)') <= MaxActions
  <2>1. Cardinality(Acted(r)') = Cardinality(Acted(r)) + 1
    BY <1>13, ActedFinite, FS_AddElement
  <2>2. Cardinality(Acted(r)') <= MaxActions
    BY <1>3, <2>1, ActedFinite, ConstantsAssumption
  <2>3. QED
    BY <1>13, <2>2 DEF RowsInv, Budgets
<1>16. Cardinality({j \in Inputs : executed'[j] > 0}) <= MaximumAttempts
  <2>1. CASE outcome = "allow"
    <3>1. Cardinality(Proposals) < MaximumAttempts
      BY <1>3, <2>1, OutcomeAllowed
    <3>2. /\ Cardinality({j \in Inputs : executed'[j] > 0}) \in Nat
          /\ Cardinality({j \in Inputs : executed'[j] > 0}) <= Cardinality(Proposals')
      BY <1>7, <1>12, <1>14, ExecutedWereProposed
    <3>3. QED
      BY <1>14, <3>1, <3>2, ConstantsAssumption
  <2>2. CASE outcome # "allow"
    BY <1>3, <2>2 DEF RowsInv, Budgets
  <2>3. QED
    BY <2>1, <2>2
<1>17. Budgets'
  BY <1>14, <1>15, <1>16 DEF Budgets
<1>18. QED
  BY <1>7, <1>8, <1>9, <1>12, <1>17 DEF RowsInv

\* A decision about the approval a run waits for.
Settles(r, n, a, s, next) ==
    /\ Pending(r, n) /\ Decide(r, n, a, s) /\ Leave(r, next)
    /\ a \in Approvals \ {"none", "pending"}
    /\ s \in {"completed", "blocked"} /\ next \in {"pending", "stopped"}

Settled(r, n, s) ==
    /\ RowsMean' /\ OneApproval' /\ InputsOnce'
    /\ action[r][n].input \in Inputs /\ action[r][n].status = "pending_approval"
    /\ <<r, n>> \in Proposals
    /\ action'[r][n].input = action[r][n].input /\ action'[r][n].status = s
    /\ \A q \in Runs, m \in Sequence :
          /\ action'[q][m].input = action[q][m].input
          /\ action'[q][m].status = "none" <=> action[q][m].status = "none"
          /\ q # r \/ m # n => action'[q][m] = action[q][m]

LEMMA RowsDecide ==
    ASSUME TypeOK, TypeOK', RowsInv, NEW r \in Runs, NEW n \in Sequence,
           NEW a, NEW s, NEW next, Settles(r, n, a, s, next)
    PROVE  Settled(r, n, s)
<1>0. /\ Pending(r, n) /\ Decide(r, n, a, s) /\ Leave(r, next)
      /\ a \in Approvals \ {"none", "pending"}
      /\ s \in {"completed", "blocked"} /\ next \in {"pending", "stopped"}
  BY DEF Settles
<1>1. /\ action'[r][n].input = action[r][n].input
      /\ action'[r][n].approval = a /\ action'[r][n].status = s
      /\ \A q \in Runs, m \in Sequence : q # r \/ m # n => action'[q][m] = action[q][m]
  <2>1. a \in Approvals /\ s \in ActionStatuses
    BY <1>0 DEF ActionStatuses
  <2>2. QED
    BY <1>0, <2>1, DecideType
<1>2. /\ RowMeans(action[r][n]) /\ action[r][n] \in Action
  BY DEF RowsInv, RowsMean, TypeOK
<1>3. action[r][n].status = "pending_approval" /\ action[r][n].input # NoInput
  BY <1>0, <1>2 DEF RowMeans, Pending
<1>4. action[r][n].input \in Inputs /\ <<r, n>> \in Proposals
  BY <1>2, <1>3, ProposalsMean DEF Action
<1>5. \A q \in Runs, m \in Sequence :
         /\ action'[q][m].input = action[q][m].input
         /\ action'[q][m].status = "none" <=> action[q][m].status = "none"
  BY <1>0, <1>1, <1>3
<1>6. InputsOnce'
  BY <1>5 DEF RowsInv, InputsOnce
<1>7. RowsMean'
  <2>1. RowMeans(action'[r][n])
    BY <1>0, <1>1, <1>3 DEF RowMeans, NoAction
  <2>2. QED
    BY <1>1, <2>1 DEF RowsInv, RowsMean
<1>8. OneApproval'
  <2>1. ~Waits(r)' /\ \A q \in Runs \ {r} : Waits(q)' <=> Waits(q)
    BY <1>0, Left DEF Waits, Statuses, Terminal
  <2>2. \A m \in Sequence : ~Pending(r, m)'
    BY <1>0, <1>1 DEF RowsInv, OneApproval, Pending
  <2>3. \A q \in Runs \ {r}, m \in Sequence : Pending(q, m)' <=> Pending(q, m)
    BY <1>1 DEF Pending
  <2>4. QED
    BY <2>1, <2>2, <2>3 DEF RowsInv, OneApproval
<1>9. QED
  BY <1>1, <1>3, <1>4, <1>5, <1>6, <1>7, <1>8 DEF Settled

\* A refused approval, by a member or by time.
LEMMA RowsRefused ==
    ASSUME TypeOK, TypeOK', RowsInv, NEW r \in Runs, NEW n \in Sequence,
           NEW a, NEW s, NEW next, Settles(r, n, a, s, next), s = "blocked", executed' = executed
    PROVE  RowsInv'
<1>0. Settled(r, n, s)
  BY RowsDecide
<1>1. /\ RowsMean' /\ OneApproval'
      /\ action[r][n].status = "pending_approval" /\ action'[r][n].status = s
      /\ \A q \in Runs, m \in Sequence :
            /\ action'[q][m].input = action[q][m].input
            /\ action'[q][m].status = "none" <=> action[q][m].status = "none"
            /\ q # r \/ m # n => action'[q][m] = action[q][m]
  BY <1>0 DEF Settled
<1>2. \A q \in Runs, m \in Sequence : action'[q][m].status = "completed" <=> action[q][m].status = "completed"
  BY <1>1
<1>3. InputsOnce' /\ ExecutedMeans' /\ Budgets'
  BY <1>1, <1>2, RowsSettle
<1>4. QED
  BY <1>1, <1>3 DEF RowsInv

LEMMA RowsRefuse ==
    ASSUME TypeOK, TypeOK', RowsInv, NEW r \in Runs, NEW n \in Sequence, Reject(r, n) \/ ExpireApproval(r, n)
    PROVE  RowsInv'
<1>1. Settles(r, n, "expired", "blocked", "stopped") \/ Settles(r, n, "rejected", "blocked", "stopped")
  BY DEF Reject, ExpireApproval, Decidable, Pending, FinishRun, Settles, Approvals
<1>2. executed' = executed
  BY DEF Reject, ExpireApproval
<1>3. QED
  BY <1>1, <1>2, RowsRefused

LEMMA RowsApprove ==
    ASSUME TypeOK, TypeOK', RowsInv, NEW r \in Runs, NEW n \in Sequence, Approve(r, n)
    PROVE  RowsInv'
<1> DEFINE i == action[r][n].input
<1>1. Execute(i) /\ Cardinality(Proposals \ {<<r, n>>}) < MaximumAttempts
  BY DEF Approve, StillSafe
<1>2. Settles(r, n, "approved", "completed", "pending")
  BY DEF Approve, Decidable, Pending, Settles, Approvals
<1>0. Settled(r, n, "completed")
  BY <1>2, RowsDecide
<1>3. /\ RowsMean' /\ OneApproval' /\ InputsOnce'
      /\ i \in Inputs /\ action[r][n].status = "pending_approval" /\ <<r, n>> \in Proposals
      /\ action'[r][n].input = i /\ action'[r][n].status = "completed"
      /\ \A q \in Runs, m \in Sequence :
            /\ action'[q][m].input = action[q][m].input
            /\ action'[q][m].status = "none" <=> action[q][m].status = "none"
            /\ q # r \/ m # n => action'[q][m] = action[q][m]
  BY <1>0 DEF Settled
<1> HIDE DEF i
<1>4. executed'[i] = executed[i] + 1 /\ \A j \in Inputs \ {i} : executed'[j] = executed[j]
  BY <1>1, <1>3, ExecuteType
<1>5. ~Completed(i)
  BY <1>3 DEF RowsInv, InputsOnce, Completed, i
<1>6. \A j \in Inputs : Completed(j)' <=> Completed(j) \/ j = i
  BY <1>3 DEF Completed
<1>7. ExecutedMeans'
  BY <1>3, <1>4, <1>5, <1>6 DEF RowsInv, ExecutedMeans
<1>8. Proposals' = Proposals /\ \A q \in Runs : Acted(q)' = Acted(q)
  BY <1>3, SameProposals
<1>9. IsFiniteSet(Proposals) /\ Cardinality(Proposals) \in Nat /\ Cardinality(Proposals) <= MaximumAttempts
  <2>1. IsFiniteSet(Proposals) /\ Cardinality(Proposals) \in Nat
    BY FS_CardinalityType DEF RowsInv, Budgets
  <2>2. Cardinality(Proposals \ {<<r, n>>}) = Cardinality(Proposals) - 1
    BY <1>3, <2>1, FS_RemoveElement
  <2>3. QED
    BY <1>1, <2>1, <2>2, ConstantsAssumption
<1>10. Cardinality({j \in Inputs : executed'[j] > 0}) <= MaximumAttempts
  <2>1. /\ Cardinality({j \in Inputs : executed'[j] > 0}) \in Nat
        /\ Cardinality({j \in Inputs : executed'[j] > 0}) <= Cardinality(Proposals')
    BY <1>3, <1>7, <1>8, <1>9, ExecutedWereProposed
  <2>2. QED
    BY <1>8, <1>9, <2>1, ConstantsAssumption
<1>11. Budgets'
  BY <1>8, <1>9, <1>10 DEF RowsInv, Budgets
<1>12. QED
  BY <1>3, <1>7, <1>11 DEF RowsInv

LEMMA RowsTime ==
    ASSUME TypeOK, TypeOK', RowsInv
    PROVE  /\ \A r \in Runs, n \in Sequence : DayPasses(r, n) => RowsInv'
           /\ \A r \in Runs : LeaseEnds(r) \/ MinutePasses(r) \/ DeadlinePasses(r) => RowsInv'
<1>1. ASSUME NEW r \in Runs, NEW n \in Sequence, DayPasses(r, n)
      PROVE  RowsInv'
  <2>1. /\ action'[r][n].input = action[r][n].input
        /\ action'[r][n].approval = action[r][n].approval
        /\ action'[r][n].status = action[r][n].status
        /\ \A q \in Runs, m \in Sequence : q # r \/ m # n => action'[q][m] = action[q][m]
    BY <1>1, DayRow DEF DayPasses
  <2>2. action[r][n].approval = "pending" /\ executed' = executed /\ status' = status
    BY <1>1 DEF DayPasses
  <2>3. InputsOnce' /\ ExecutedMeans' /\ Budgets'
    <3>1. \A q \in Runs, m \in Sequence :
             /\ action'[q][m].input = action[q][m].input
             /\ action'[q][m].status = action[q][m].status
      BY <2>1
    <3>2. QED
      BY <2>2, <3>1, RowsSettle
  <2>4. RowsMean'
    <3>1. RowMeans(action'[r][n])
      BY <2>1, <2>2 DEF RowsInv, RowsMean, RowMeans, NoAction
    <3>2. QED
      BY <2>1, <3>1 DEF RowsInv, RowsMean
  <2>5. OneApproval'
    <3>1. \A q \in Runs, m \in Sequence : Pending(q, m)' <=> Pending(q, m)
      BY <2>1 DEF Pending
    <3>2. QED
      BY <2>2, <3>1 DEF RowsInv, OneApproval, Waits
  <2>6. QED
    BY <2>3, <2>4, <2>5 DEF RowsInv
<1>2. ASSUME NEW r \in Runs, LeaseEnds(r) \/ MinutePasses(r) \/ DeadlinePasses(r)
      PROVE  RowsInv'
  <2>1. UNCHANGED <<status, action, executed>>
    BY <1>2 DEF LeaseEnds, MinutePasses, DeadlinePasses, journal
  <2>2. QED
    BY <2>1, RowsKept DEF Waits
<1>3. QED
  BY <1>1, <1>2

LEMMA RowsInvStep == TypeOK /\ TypeOK' /\ RowsInv /\ StepsInv /\ [Next]_vars => RowsInv'
<1> SUFFICES ASSUME TypeOK, TypeOK', RowsInv, StepsInv, [Next]_vars
             PROVE  RowsInv'
  OBVIOUS
<1>1. CASE UNCHANGED vars
  <2>1. UNCHANGED <<status, action, executed>>
    BY <1>1 DEF vars, journal
  <2>2. QED
    BY <2>1, RowsKept DEF Waits
<1>2. CASE Administer
  BY <1>2, RowsAdminister
<1>3. ASSUME NEW w \in Workers, Prepare(w) \/ Throws(w) \/ Fail(w) \/ Crash(w) \/ \E r \in Runs : ClaimRun(w, r)
      PROVE  RowsInv'
  BY <1>3, RowsWork DEF Prepare, Fail
<1>4. ASSUME NEW w \in Workers, Commit(w)
      PROVE  RowsInv'
  <2>1. CASE CommitStale(w) \/ \E r \in Runs : CommitLate(w, r) \/ CommitWithoutAction(w, r)
    BY <2>1, RowsWork
  <2>2. ASSUME NEW r \in Runs, NEW i \in Inputs, CommitSuppressed(w, r, i)
        PROVE  RowsInv'
    BY <2>2, RowsWork
  <2>3. ASSUME NEW r \in Runs, NEW i \in Inputs, NEW outcome \in Outcomes(r), CommitAction(w, r, i, outcome)
        PROVE  RowsInv'
    BY <2>3, RowsPropose, OutcomesKnown
  <2>4. QED
    BY <1>4, <2>1, <2>2, <2>3 DEF Commit
<1>5. ASSUME NEW r \in Runs, NEW n \in Sequence,
             Approve(r, n) \/ Reject(r, n) \/ DayPasses(r, n) \/ ExpireApproval(r, n)
      PROVE  RowsInv'
  BY <1>5, RowsApprove, RowsRefuse, RowsTime
<1>6. ASSUME NEW r \in Runs, LeaseEnds(r) \/ MinutePasses(r) \/ DeadlinePasses(r)
      PROVE  RowsInv'
  BY <1>6, RowsTime
<1>7. QED
  BY <1>1, <1>2, <1>3, <1>4, <1>5, <1>6 DEF Next, Advance, Expire

------------------------------------------------------------------------------
(* The theorems.                                                            *)

\* What every reachable state of the runtime satisfies.
THEOREM Inductive == Spec => []IInv
<1>1. Init => IInv
  BY TypeInit, RowsInvInit, StepsInvInit DEF IInv
<1>2. IInv /\ [Next]_vars => IInv'
  <2> SUFFICES ASSUME IInv, [Next]_vars
               PROVE  IInv'
    OBVIOUS
  <2>1. TypeOK /\ RowsInv /\ StepsInv
    BY DEF IInv
  <2>2. TypeOK'
    BY <2>1, TypeStep
  <2>3. StepsInv'
    BY <2>1, StepsInvStep DEF RowsInv
  <2>4. RowsInv'
    BY <2>1, <2>2, RowsInvStep
  <2>5. QED
    BY <2>2, <2>3, <2>4 DEF IInv
<1>3. QED
  BY <1>1, <1>2, PTL DEF Spec

\* decideApproval, stop and scheduleAgents keep a run and its approval
\* together: no run waits for nothing, and no approval waits for a run that is
\* gone.
THEOREM WaitsForApproval == Spec => []WaitsForItsApproval
<1>1. IInv => WaitsForItsApproval
  <2> SUFFICES ASSUME IInv, NEW r \in Runs
               PROVE  LET pending == {n \in Sequence : action[r][n].approval = "pending"} IN
                      /\ (status[r] = "waiting_approval") <=> (pending # {})
                      /\ Cardinality(pending) <= 1
                      /\ pending = {n \in Sequence : action[r][n].status = "pending_approval"}
    BY DEF WaitsForItsApproval
  <2> DEFINE pending == {n \in Sequence : action[r][n].approval = "pending"}
  <2>1. RowsMean /\ OneApproval
    BY DEF IInv, RowsInv
  <2>2. pending = {n \in Sequence : action[r][n].status = "pending_approval"}
    BY <2>1 DEF RowsMean, RowMeans
  <2>3. status[r] = "waiting_approval" <=> pending # {}
    BY <2>1 DEF OneApproval, Waits, Pending
  <2>4. Cardinality(pending) <= 1
    <3>1. CASE pending = {}
      BY <3>1, FS_EmptySet
    <3>2. CASE pending # {}
      <4>1. PICK n \in pending : TRUE
        BY <3>2
      <4>2. pending = {n}
        BY <2>1, <4>1 DEF OneApproval, Pending
      <4>3. Cardinality({n}) = 1
        BY FS_Singleton
      <4>4. QED
        BY <4>2, <4>3
    <3>3. QED
      BY <3>1, <3>2
  <2>5. QED
    BY <2>2, <2>3, <2>4
<1>2. QED
  BY <1>1, Inductive, PTL

\* evaluate and decideApproval keep the tools within what the run and the
\* agent are allowed, and runOnce never executes an input twice, however
\* many runs are proposed to and approved side by side.
THEOREM WithinBudget == Spec => []ExecutedWithinBudget
<1>1. IInv => ExecutedWithinBudget
  <2> SUFFICES ASSUME IInv
               PROVE  ExecutedWithinBudget
    OBVIOUS
  <2> DEFINE done(r) == {n \in Sequence : action[r][n].status = "completed"}
  <2>1. InputsOnce /\ ExecutedMeans /\ Budgets
    BY DEF IInv, RowsInv
  <2>2. ASSUME NEW i \in Inputs
        PROVE  /\ executed[i] <= 1
               /\ executed[i] = Cardinality({r \in Runs : \E n \in done(r) : action[r][n].input = i})
    <3> DEFINE S == {r \in Runs : \E n \in done(r) : action[r][n].input = i}
    <3>1. CASE Completed(i)
      <4>1. PICK r \in Runs, n \in Sequence : action[r][n].status = "completed" /\ action[r][n].input = i
        BY <3>1 DEF Completed
      <4>2. S = {r}
        <5>1. r \in S
          BY <4>1
        <5>2. ASSUME NEW q \in S
              PROVE  q = r
          <6>1. PICK m \in Sequence : action[q][m].status = "completed" /\ action[q][m].input = i
            OBVIOUS
          <6>2. QED
            BY <2>1, <4>1, <6>1 DEF InputsOnce
        <5>3. QED
          BY <5>1, <5>2
      <4>3. executed[i] = 1
        BY <2>1, <3>1 DEF ExecutedMeans
      <4> HIDE DEF S
      <4>4. Cardinality(S) = 1
        BY <4>2, FS_Singleton
      <4>5. executed[i] <= 1 /\ executed[i] = Cardinality(S)
        BY <4>3, <4>4
      <4>6. QED
        BY <4>5 DEF S
    <3>2. CASE ~Completed(i)
      <4>1. S = {}
        BY <3>2 DEF Completed
      <4>2. executed[i] = 0
        BY <2>1, <3>2 DEF ExecutedMeans
      <4>3. QED
        BY <4>1, <4>2, FS_EmptySet
    <3>3. QED
      BY <3>1, <3>2
  <2>3. ASSUME NEW r \in Runs
        PROVE  Cardinality(done(r)) <= MaxActions
    <3>1. done(r) \subseteq Acted(r)
      BY DEF Acted
    <3>2. Cardinality(done(r)) <= Cardinality(Acted(r)) /\ IsFiniteSet(done(r))
      BY <3>1, ActedFinite, FS_Subset
    <3>3. Cardinality(done(r)) \in Nat /\ Cardinality(Acted(r)) \in Nat
      BY <3>2, ActedFinite, FS_CardinalityType
    <3>4. QED
      BY <2>1, <3>2, <3>3, ConstantsAssumption DEF Budgets
  <2>4. QED
    BY <2>1, <2>2, <2>3 DEF ExecutedWithinBudget, Budgets
<1>2. QED
  BY <1>1, Inductive, PTL

\* runOnce checks the agent in the transaction that executes, and so
\* does decideApproval: a decision of the model or a member that is older than
\* a change of the agent executes nothing.
THEOREM CurrentAgentActs == Spec => OnlyCurrentAgentActs
<1> DEFINE Acts == executed' # executed =>
              \E r \in Runs : Current(r) /\ action'[r] # action[r] /\ status'[r] = "pending"
<1>1. IInv /\ [Next]_vars => Acts
  <2> SUFFICES ASSUME IInv, [Next]_vars
               PROVE  Acts
    OBVIOUS
  <2>1. TypeOK /\ RowsInv /\ StepsInv
    BY DEF IInv
  <2>2. CASE UNCHANGED vars
    BY <2>2 DEF vars, journal
  <2>3. CASE Administer
    BY <2>3 DEF Administer, EnqueueRun, Stop, Enable, AppendVersion, EditSubject, journal
  <2>4. ASSUME NEW w \in Workers, Prepare(w) \/ Throws(w) \/ Fail(w) \/ Crash(w) \/ \E r \in Runs : ClaimRun(w, r)
        PROVE  Acts
    BY <2>4 DEF Prepare, PrepareStale, PrepareEnds, PrepareDefers, PrepareStep, Throws, Fail, FailRun,
       FailStale, Crash, ClaimRun, journal
  <2>5. ASSUME NEW w \in Workers, Commit(w)
        PROVE  Acts
    <3>1. CASE CommitStale(w) \/ \E r \in Runs : CommitLate(w, r) \/ CommitWithoutAction(w, r)
      BY <3>1 DEF CommitStale, CommitLate, CommitWithoutAction, journal
    <3>2. ASSUME NEW r \in Runs, NEW i \in Inputs, CommitSuppressed(w, r, i)
          PROVE  Acts
      BY <3>2 DEF CommitSuppressed
    <3>3. ASSUME NEW r \in Runs, NEW i \in Inputs, NEW outcome \in Outcomes(r), CommitAction(w, r, i, outcome)
          PROVE  Acts
      <4>0. outcome \in AllOutcomes
        BY OutcomesKnown
      <4>1. CASE outcome = "allow"
        <5>1. Current(r)
          BY <4>1, OutcomeAllowed
        <5>2. action'[r] # action[r]
          BY <2>1, <3>3, <4>0, ProposedAt, ProposedRow
        <5>3. status'[r] = "pending"
          <6>1. Leave(r, "pending") /\ "pending" \in Statuses \ {"running"}
            BY <3>3, <4>1 DEF CommitAction, Resume, Statuses
          <6>2. QED
            BY <2>1, <6>1, Left
        <5>4. QED
          BY <5>1, <5>2, <5>3
      <4>2. CASE outcome # "allow"
        BY <3>3, <4>2 DEF CommitAction
      <4>3. QED
        BY <4>1, <4>2
    <3>4. QED
      BY <2>5, <3>1, <3>2, <3>3 DEF Commit
  <2>6. ASSUME NEW r \in Runs, NEW n \in Sequence, Approve(r, n)
        PROVE  Acts
    <3>1. Current(r)
      BY <2>6 DEF Approve, StillSafe
    <3>2. action'[r] # action[r]
      <4>1. action'[r][n].approval = "approved" /\ action[r][n].approval = "pending"
        BY <2>1, <2>6, DecideType DEF Approve, Decidable, Approvals, ActionStatuses
      <4>2. QED
        BY <4>1
    <3>3. status'[r] = "pending"
      BY <2>1, <2>6, Left DEF Approve, Statuses
    <3>4. QED
      BY <3>1, <3>2, <3>3
  <2>7. ASSUME NEW r \in Runs, NEW n \in Sequence, Reject(r, n) \/ DayPasses(r, n) \/ ExpireApproval(r, n)
        PROVE  Acts
    BY <2>7 DEF Reject, DayPasses, ExpireApproval
  <2>8. ASSUME NEW r \in Runs, LeaseEnds(r) \/ MinutePasses(r) \/ DeadlinePasses(r)
        PROVE  Acts
    BY <2>8 DEF LeaseEnds, MinutePasses, DeadlinePasses, journal
  <2>9. QED
    BY <2>2, <2>3, <2>4, <2>5, <2>6, <2>7, <2>8 DEF Next, Advance, Expire
<1>2. QED
  BY <1>1, Inductive, PTL DEF Spec, OnlyCurrentAgentActs

\* The journal shown to the next model call has no open step but the one that
\* call is about.
THEOREM JournalOrdered == Spec => []JournalInOrder
<1>1. IInv => JournalInOrder
  BY DEF IInv, StepsInv, RunInOrder, JournalInOrder
<1>2. QED
  BY <1>1, Inductive, PTL

\* A step changes the rows of at most one run, and that one is not finished.
Stays(r) == status'[r] = status[r] /\ step'[r] = step[r] /\ action'[r] = action[r]
Only(q) == status[q] \notin Terminal /\ \A r \in Runs \ {q} : Stays(r)

LEMMA LeftOnly ==
    ASSUME TypeOK, NEW q \in Runs, NEW s \in Statuses \ {"running"}, Leave(q, s), status[q] \notin Terminal,
           \A r \in Runs \ {q} : step'[r] = step[r] /\ action'[r] = action[r]
    PROVE  Only(q)
BY Left DEF Only, Stays

LEMMA OneRunAtATime ==
    ASSUME TypeOK, RowsInv, [Next]_vars
    PROVE  UNCHANGED <<status, step, action>> \/ \E q \in Runs : Only(q)
<1> DEFINE Fine == UNCHANGED <<status, step, action>> \/ \E q \in Runs : Only(q)
<1>0. /\ "running" \notin Terminal /\ "waiting_approval" \notin Terminal
      /\ Terminal \cup {"pending", "waiting_approval"} \subseteq Statuses \ {"running"}
  BY DEF Statuses, Terminal
<1>1. CASE \/ UNCHANGED vars \/ Enable \/ AppendVersion \/ EditSubject
           \/ \E r \in Runs : LeaseEnds(r) \/ MinutePasses(r) \/ DeadlinePasses(r)
           \/ \E w \in Workers : \/ PrepareStale(w) \/ CommitStale(w) \/ Throws(w) \/ FailStale(w)
                                 \/ Crash(w)
  BY <1>1 DEF vars, journal, Enable, AppendVersion, EditSubject, LeaseEnds, MinutePasses,
     DeadlinePasses, PrepareStale, CommitStale, Throws, FailStale, Crash
<1>2. ASSUME NEW q \in Runs, EnqueueRun(q) \/ \E w \in Workers : ClaimRun(w, q)
      PROVE  Fine
  <2>1. /\ \A r \in Runs \ {q} : status'[r] = status[r]
        /\ step' = step /\ action' = action
    BY <1>2 DEF EnqueueRun, ClaimRun, TypeOK, journal
  <2>2. status[q] \notin Terminal
    BY <1>2 DEF EnqueueRun, ClaimRun, Claimable, Terminal
  <2>3. QED
    BY <2>1, <2>2 DEF Only, Stays
<1>3. ASSUME NEW q \in Runs, Stop(q)
      PROVE  Fine
  <2>1. Leave(q, "stopped") /\ status[q] \notin Terminal
    BY <1>3 DEF Stop, FinishRun, Terminal
  <2>2. \A r \in Runs \ {q} : step'[r] = step[r] /\ action'[r] = action[r]
    BY <1>3 DEF Stop, TypeOK
  <2>3. QED
    BY <1>0, <2>1, <2>2, LeftOnly DEF Terminal
<1>4. ASSUME NEW w \in Workers, NEW q \in Runs, PrepareEnds(w, q) \/ PrepareDefers(w, q) \/ PrepareStep(w, q)
      PROVE  Fine
  <2>1. status[q] \notin Terminal
    BY <1>0, <1>4 DEF PrepareEnds, PrepareDefers, PrepareStep, Holds
  <2>2. /\ action' = action
        /\ \A r \in Runs \ {q} : step'[r] = step[r]
    BY <1>4 DEF PrepareEnds, PrepareDefers, PrepareStep, TypeOK
  <2>3. CASE PrepareEnds(w, q) \/ PrepareDefers(w, q)
    <3>1. \E s \in Terminal \cup {"pending"} : Leave(q, s)
      BY <2>3 DEF PrepareEnds, PrepareDefers, FinishRun, Terminal
    <3>2. QED
      BY <1>0, <2>1, <2>2, <3>1, LeftOnly
  <2>4. CASE PrepareStep(w, q)
    BY <2>1, <2>2, <2>4 DEF PrepareStep, Only, Stays
  <2>5. QED
    BY <1>4, <2>3, <2>4
<1>5. ASSUME NEW w \in Workers, NEW q \in Runs, Commits(w, q)
      PROVE  Fine
  <2>1. status[q] \notin Terminal
    BY <1>0, <1>5, CommitParts DEF MayCommit, Holds
  <2>2. \E s \in Statuses \ {"running"} : Leave(q, s)
    BY <1>0, <1>5, CommitParts DEF CommitLate, FinishRun, Terminal
  <2>3. \A r \in Runs \ {q} : step'[r] = step[r]
    BY <1>5, CommitParts, StepDoneType DEF CommitLate, journal
  <2>4. \A r \in Runs \ {q} : action'[r] = action[r]
    <3>1. CASE CommitLate(w, q) \/ CommitWithoutAction(w, q) \/ \E i \in Inputs : CommitSuppressed(w, q, i)
      BY <3>1 DEF CommitLate, CommitWithoutAction, CommitSuppressed, journal
    <3>2. ASSUME NEW i \in Inputs, NEW outcome \in AllOutcomes, CommitAction(w, q, i, outcome)
          PROVE  \A r \in Runs \ {q} : action'[r] = action[r]
      <4> DEFINE f == [action[q] EXCEPT ![StepCount(q)] = Proposed(i, outcome)]
      <4>1. action' = [action EXCEPT ![q] = f]
        BY <3>2 DEF CommitAction, Proposed
      <4> HIDE DEF f
      <4>2. QED
        BY <4>1 DEF TypeOK
    <3>3. QED
      BY <1>5, <3>1, <3>2 DEF Commits
  <2>5. QED
    BY <2>1, <2>2, <2>3, <2>4, LeftOnly
<1>6. ASSUME NEW w \in Workers, NEW q \in Runs, FailRun(w, q)
      PROVE  Fine
  <2>1. Leave(q, "failed") /\ status[q] \notin Terminal
    BY <1>0, <1>6 DEF FailRun, FinishRun, Holds
  <2>2. \A r \in Runs \ {q} : step'[r] = step[r] /\ action'[r] = action[r]
    BY <1>6 DEF FailRun, TypeOK
  <2>3. QED
    BY <1>0, <2>1, <2>2, LeftOnly DEF Terminal
<1>7. ASSUME NEW q \in Runs, NEW n \in Sequence,
             Approve(q, n) \/ Reject(q, n) \/ ExpireApproval(q, n) \/ DayPasses(q, n)
      PROVE  Fine
  <2>1. status[q] = "waiting_approval"
    BY <1>7 DEF Approve, Reject, Decidable, ExpireApproval, DayPasses, RowsInv, OneApproval, Waits, Pending
  <2>2. step' = step
    BY <1>7 DEF Approve, Reject, ExpireApproval, DayPasses
  <2>3. \A r \in Runs \ {q} : action'[r] = action[r]
    BY <1>7 DEF Approve, Reject, ExpireApproval, DayPasses, Decide, TypeOK
  <2>4. \A r \in Runs \ {q} : status'[r] = status[r]
    BY <1>7 DEF Approve, Reject, ExpireApproval, DayPasses, FinishRun, Leave, TypeOK
  <2>5. QED
    BY <1>0, <2>1, <2>2, <2>3, <2>4 DEF Only, Stays
<1>8. QED
  <2>1. ASSUME NEW w \in Workers, Commit(w), ~CommitStale(w)
        PROVE  \E q \in Runs : Commits(w, q)
    BY <2>1, OutcomesKnown DEF Commit, Commits
  <2>2. ASSUME NEW w \in Workers, Advance(w)
        PROVE  Fine
    BY <1>1, <1>4, <1>5, <1>6, <2>1, <2>2 DEF Advance, Prepare, Fail
  <2>3. QED
    BY <1>1, <1>2, <1>3, <1>7, <2>2 DEF Next, Administer, Expire

\* Every path that ends a run is guarded by its claim, its approval or its
\* status, so what comes late finds nothing to change.
THEOREM FinishedIsFinished == Spec => FinishedRunsStay
<1>1. IInv /\ [Next]_vars =>
         \A r \in Runs : status[r] \in Terminal => UNCHANGED <<status[r], step[r], action[r]>>
  <2> SUFFICES ASSUME IInv, [Next]_vars, NEW r \in Runs, status[r] \in Terminal
               PROVE  Stays(r)
    BY DEF Stays
  <2>1. UNCHANGED <<status, step, action>> \/ \E q \in Runs : Only(q)
    BY OneRunAtATime DEF IInv
  <2>2. QED
    BY <2>1 DEF Only, Stays
<1>2. QED
  BY <1>1, Inductive, PTL DEF Spec, FinishedRunsStay

==============================================================================
