-------------------------- MODULE EventJobs_proofs ---------------------------
(***************************************************************************)
(* Proofs about EventJobs: types, the inductive invariant behind the       *)
(* fencing and exactly-once properties, and the refinement of EventLedger. *)
(***************************************************************************)
EXTENDS EventJobs, TLAPS

USE ConstantsAssumption

\* Tokens identify claims: a busy worker has one, no two have the same.
ClaimInv ==
    /\ \A w \in Workers :
          IF pc[w] = "idle" THEN claimed[w] = NoClaim
          ELSE claimed[w].key \in Keys /\ claimed[w].token \in 1..issued
    /\ \A w, x \in Workers :
          (pc[w] # "idle" /\ claimed[w].token = claimed[x].token) => w = x

\* The row carries a token exactly while it is running, and a claim under that
\* token was made at the row's attempt number.
LeaseInv ==
    /\ \A k \in Keys : leaseToken[k] \in 0..issued
    /\ \A k \in Keys : status[k] = "running" <=> leaseToken[k] # 0
    /\ \A k \in Keys, w \in Workers :
          Holds(w, k) => claimed[w].attempts = attempts[k]

\* A job exists only for a recorded event.
EventInv == \A k \in Keys : event[k] = NoEvent => status[k] = "none"

IInv == TypeOK /\ ClaimInv /\ LeaseInv /\ EventInv /\ HandledExactlyOnce

------------------------------------------------------------------------------
(* Every row and every worker always has its type.                          *)

LEMMA TypeInit == Init => TypeOK
BY DEF Init, TypeOK, Statuses, Claim, NoClaim

\* A worker that lets its row go, or that runs its catch block, is well typed.
LEMMA WorkerType ==
    ASSUME TypeOK, NEW w \in Workers, Release(w) \/ AfterCommit(w)
    PROVE  /\ pc' \in [Workers -> {"idle", "claimed", "processing", "failing"}]
           /\ claimed' \in [Workers -> Claim]
           /\ inTime' \in [Workers -> BOOLEAN]
<1>1. NoClaim \in Claim
  BY DEF NoClaim, Claim
<1>2. CASE Release(w)
  BY <1>1, <1>2 DEF TypeOK, Release
<1>3. CASE pc' = [pc EXCEPT ![w] = "failing"] /\ UNCHANGED <<claimed, inTime>>
  BY <1>3 DEF TypeOK
<1>4. QED
  BY <1>2, <1>3 DEF AfterCommit

\* A settled row is well typed.
LEMMA SettleType ==
    ASSUME TypeOK, NEW k \in Keys, NEW s \in Statuses, Settle(k, s)
    PROVE  /\ status' \in [Keys -> Statuses]
           /\ leaseToken' \in [Keys -> Nat]
           /\ leaseOver' \in [Keys -> BOOLEAN]
BY DEF TypeOK, Settle

LEMMA TypeStep == TypeOK /\ [Next]_vars => TypeOK'
<1> SUFFICES ASSUME TypeOK, [Next]_vars
             PROVE  TypeOK'
  OBVIOUS
<1> USE DEF TypeOK, Statuses, Claim
<1> NoClaim \in Claim
  BY DEF NoClaim
<1>1. ASSUME NEW k \in Keys, NEW p \in Payloads, NEW enqueue \in BOOLEAN,
             Publish(k, p, enqueue)
      PROVE  TypeOK'
  BY <1>1 DEF Publish, workerVars, budgets
<1>2. ASSUME NEW w \in Workers, NEW k \in Keys, ClaimJob(w, k)
      PROVE  TypeOK'
  BY <1>2 DEF ClaimJob, FreshToken, budgets
<1>3. ASSUME NEW w \in Workers, BeginProcess(w)
      PROVE  TypeOK'
  BY <1>3 DEF BeginProcess, jobVars, budgets
<1>4. ASSUME NEW w \in Workers, Process(w)
      PROVE  TypeOK'
  <2>1. CASE ProcessStale(w)
    BY <2>1, WorkerType DEF ProcessStale, jobVars, budgets
  <2>2. ASSUME NEW k \in Keys, ProcessExhausted(w, k)
        PROVE  TypeOK'
    BY <2>2, WorkerType, SettleType DEF ProcessExhausted, budgets
  <2>3. ASSUME NEW k \in Keys, NEW H \in SUBSET Handlers, ProcessHandled(w, k, H)
        PROVE  TypeOK'
    <3>1. receipts' \in [Keys -> SUBSET Handlers]
      BY <2>3 DEF ProcessHandled, Dispatch
    <3>2. effects' \in [Keys -> [Handlers -> Nat]]
      BY <2>3 DEF ProcessHandled, Dispatch
    <3>3. QED
      BY <2>3, <3>1, <3>2, WorkerType, SettleType DEF ProcessHandled, budgets
  <2>4. CASE ProcessThrows(w)
    BY <2>4 DEF ProcessThrows, jobVars, budgets
  <2>5. QED
    BY <1>4, <2>1, <2>2, <2>3, <2>4 DEF Process
<1>5. ASSUME NEW w \in Workers, Fail(w)
      PROVE  TypeOK'
  <2>1. CASE FailStale(w)
    BY <2>1, WorkerType DEF FailStale, jobVars, budgets
  <2>2. ASSUME NEW k \in Keys, FailJob(w, k)
        PROVE  TypeOK'
    <3>1. StatusAfterFailure(claimed[w].attempts) \in Statuses
      BY DEF StatusAfterFailure
    <3>2. due' \in [Keys -> BOOLEAN]
      BY <2>2 DEF FailJob
    <3>3. QED
      BY <2>2, <3>1, <3>2, WorkerType, SettleType DEF FailJob, budgets
  <2>3. QED
    BY <1>5, <2>1, <2>2 DEF Fail
<1>6. ASSUME NEW w \in Workers, Crash(w)
      PROVE  TypeOK'
  BY <1>6, WorkerType DEF Crash, jobVars
<1>7. ASSUME NEW k \in Keys, LeaseEnds(k) \/ BackoffEnds(k) \/ Requeue(k)
      PROVE  TypeOK'
  <2>1. CASE LeaseEnds(k)
    BY <2>1 DEF LeaseEnds, workerVars
  <2>2. CASE BackoffEnds(k)
    BY <2>2 DEF BackoffEnds, workerVars, budgets
  <2>3. CASE Requeue(k)
    BY <2>3, SettleType DEF Requeue, workerVars
  <2>4. QED
    BY <1>7, <2>1, <2>2, <2>3
<1>8. CASE UNCHANGED vars
  BY <1>8 DEF vars, jobVars, workerVars, budgets
<1> HIDE DEF TypeOK
<1>9. CASE Next
  BY <1>1, <1>2, <1>3, <1>4, <1>5, <1>6, <1>7, <1>9 DEF Next
<1>10. QED
  BY <1>8, <1>9

\* Every behaviour of the queue is well typed: statuses stay within the enum.
THEOREM TypeCorrect == Spec => []TypeOK
<1>1. QED
  BY TypeInit, TypeStep, PTL DEF Spec

------------------------------------------------------------------------------
(* The inductive invariant, one lemma per conjunct.                         *)

\* A step that issues no token and at most moves one busy worker on, or lets
\* its row go, keeps claims apart.
LEMMA ClaimInvKept ==
    ASSUME TypeOK, ClaimInv, issued' = issued, NEW w \in Workers,
           pc[w] # "idle",
           \/ Release(w)
           \/ claimed' = claimed /\ \E s \in {"processing", "failing"} :
                 pc' = [pc EXCEPT ![w] = s]
    PROVE  ClaimInv'
<1>1. CASE Release(w)
  <2>1. \A x \in Workers :
           IF x = w THEN pc'[x] = "idle" /\ claimed'[x] = NoClaim
           ELSE pc'[x] = pc[x] /\ claimed'[x] = claimed[x]
    BY <1>1 DEF Release, TypeOK
  <2>2. \A x, y \in Workers :
           (pc'[x] # "idle" /\ claimed'[x].token = claimed'[y].token) => x = y
    <3>1. SUFFICES ASSUME NEW x \in Workers, NEW y \in Workers,
                          pc'[x] # "idle", claimed'[x].token = claimed'[y].token
                   PROVE  x = y
      OBVIOUS
    <3>2. x # w /\ claimed[x].token \in 1..issued
      BY <2>1, <3>1 DEF ClaimInv
    <3>3. CASE y = w
      BY <2>1, <3>1, <3>2, <3>3 DEF NoClaim, TypeOK
    <3>4. CASE y # w
      BY <2>1, <3>1, <3>2, <3>4 DEF ClaimInv
    <3>5. QED
      BY <3>3, <3>4
  <2>3. QED
    BY <2>1, <2>2 DEF ClaimInv
<1>2. CASE claimed' = claimed /\ \E s \in {"processing", "failing"} :
              pc' = [pc EXCEPT ![w] = s]
  <2>1. \A x \in Workers : pc'[x] = "idle" <=> pc[x] = "idle"
    BY <1>2 DEF TypeOK
  <2>2. QED
    BY <1>2, <2>1 DEF ClaimInv
<1>3. QED
  BY <1>1, <1>2

LEMMA ClaimInvStep == TypeOK /\ ClaimInv /\ [Next]_vars => ClaimInv'
<1> SUFFICES ASSUME TypeOK, ClaimInv, [Next]_vars
             PROVE  ClaimInv'
  OBVIOUS
<1>1. ASSUME UNCHANGED <<pc, claimed, issued>>
      PROVE  ClaimInv'
  BY <1>1 DEF ClaimInv
<1>2. ASSUME NEW w \in Workers, NEW k \in Keys, ClaimJob(w, k)
      PROVE  ClaimInv'
  <2>1. /\ issued' = issued + 1
        /\ pc'[w] = "claimed"
        /\ claimed'[w].key = k
        /\ claimed'[w].token = issued + 1
    BY <1>2 DEF ClaimJob, FreshToken, TypeOK
  <2>2. \A x \in Workers : x # w => pc'[x] = pc[x] /\ claimed'[x] = claimed[x]
    BY <1>2 DEF ClaimJob, TypeOK
  <2>3. \A x \in Workers : claimed[x].token \in 0..issued
    BY DEF ClaimInv, NoClaim, TypeOK
  <2>4. \A x \in Workers : IF pc'[x] = "idle" THEN claimed'[x] = NoClaim
           ELSE claimed'[x].key \in Keys /\ claimed'[x].token \in 1..issued'
    <3>1. SUFFICES ASSUME NEW x \in Workers, x # w
                   PROVE  IF pc'[x] = "idle" THEN claimed'[x] = NoClaim
                          ELSE /\ claimed'[x].key \in Keys
                               /\ claimed'[x].token \in 1..issued'
      BY <2>1 DEF TypeOK
    <3>2. QED
      BY <2>1, <2>2, <3>1 DEF ClaimInv, TypeOK
  <2>5. \A x, y \in Workers :
           (pc'[x] # "idle" /\ claimed'[x].token = claimed'[y].token) => x = y
    <3>1. SUFFICES ASSUME NEW x \in Workers, NEW y \in Workers, x # y,
                          pc'[x] # "idle"
                   PROVE  claimed'[x].token # claimed'[y].token
      OBVIOUS
    <3>2. CASE x = w \/ y = w
      BY <2>1, <2>2, <2>3, <3>1, <3>2 DEF TypeOK
    <3>3. CASE x # w /\ y # w
      BY <2>2, <3>1, <3>3 DEF ClaimInv
    <3>4. QED
      BY <3>2, <3>3
  <2>6. QED
    BY <2>4, <2>5 DEF ClaimInv
<1>3. ASSUME NEW w \in Workers, BeginProcess(w)
      PROVE  ClaimInv'
  BY <1>3, ClaimInvKept DEF BeginProcess
<1>4. ASSUME NEW w \in Workers, Process(w)
      PROVE  ClaimInv'
  <2>1. pc[w] = "processing" /\ issued' = issued
    BY <1>4 DEF Process, ProcessStale, ProcessExhausted, ProcessHandled,
                ProcessThrows
  <2>2. \/ Release(w)
        \/ claimed' = claimed /\ pc' = [pc EXCEPT ![w] = "failing"]
    BY <1>4 DEF Process, ProcessStale, ProcessExhausted, ProcessHandled,
                ProcessThrows, AfterCommit
  <2>3. QED
    BY <2>1, <2>2, ClaimInvKept
<1>5. ASSUME NEW w \in Workers, Fail(w) \/ Crash(w)
      PROVE  ClaimInv'
  <2>1. pc[w] # "idle" /\ issued' = issued /\ Release(w)
    BY <1>5 DEF Fail, FailStale, FailJob, Crash
  <2>2. QED
    BY <2>1, ClaimInvKept
<1>6. CASE Next
  <2>1. ASSUME NEW k \in Keys,
               \/ \E p \in Payloads, enqueue \in BOOLEAN : Publish(k, p, enqueue)
               \/ LeaseEnds(k) \/ BackoffEnds(k) \/ Requeue(k)
        PROVE  UNCHANGED <<pc, claimed, issued>>
    BY <2>1 DEF Publish, LeaseEnds, BackoffEnds, Requeue, workerVars
  <2>2. QED
    BY <1>1, <1>2, <1>3, <1>4, <1>5, <1>6, <2>1 DEF Next
<1>7. CASE UNCHANGED vars
  BY <1>1, <1>7 DEF vars, workerVars
<1>8. QED
  BY <1>6, <1>7

\* Letting rows go, or moving on with the same one, holds nothing new.
LEMMA HoldsKept ==
    ASSUME TypeOK, NEW w \in Workers,
           Release(w) \/ UNCHANGED claimed,
           NEW x \in Workers, NEW k \in Keys,
           claimed'[x].key = k
    PROVE  claimed'[x] = claimed[x]
BY DEF Release, NoClaim, TypeOK

\* A settled row is held by no one; the others are held as before.
LEMMA LeaseInvSettled ==
    ASSUME TypeOK, LeaseInv, issued' = issued,
           NEW w \in Workers, Release(w) \/ UNCHANGED claimed,
           NEW k \in Keys, NEW s \in Statuses \ {"running"}, Settle(k, s),
           \A j \in Keys : j # k => attempts'[j] = attempts[j]
    PROVE  LeaseInv'
<1>1. \A j \in Keys : IF j = k THEN status'[j] = s /\ leaseToken'[j] = 0
                      ELSE status'[j] = status[j] /\ leaseToken'[j] = leaseToken[j]
  BY DEF Settle, TypeOK
<1>2. \A j \in Keys, x \in Workers :
         Holds(x, j)' => claimed'[x].attempts = attempts'[j]
  <2>1. SUFFICES ASSUME NEW j \in Keys, NEW x \in Workers, Holds(x, j)'
                 PROVE  claimed'[x].attempts = attempts'[j]
    OBVIOUS
  <2>2. j # k
    BY <1>1, <2>1 DEF Holds
  <2>3. claimed'[x] = claimed[x]
    BY <2>1, HoldsKept DEF Holds
  <2>4. QED
    BY <1>1, <2>1, <2>2, <2>3 DEF Holds, LeaseInv
<1>3. \A j \in Keys : /\ leaseToken'[j] \in 0..issued'
                      /\ status'[j] = "running" <=> leaseToken'[j] # 0
  BY <1>1 DEF LeaseInv, TypeOK
<1>4. QED
  BY <1>2, <1>3 DEF LeaseInv

\* A step that leaves the rows' leases alone.
LEMMA LeaseInvUntouched ==
    ASSUME TypeOK, LeaseInv, UNCHANGED <<leaseToken, attempts, issued>>,
           NEW w \in Workers, Release(w) \/ UNCHANGED claimed,
           \A j \in Keys : status'[j] = "running" <=> status[j] = "running"
    PROVE  LeaseInv'
<1>1. \A j \in Keys, x \in Workers :
         Holds(x, j)' => claimed'[x].attempts = attempts'[j]
  BY HoldsKept DEF Holds, LeaseInv
<1>2. QED
  BY <1>1 DEF LeaseInv

LEMMA LeaseInvStep ==
    ASSUME TypeOK, ClaimInv, LeaseInv, EventInv, [Next]_vars
    PROVE  LeaseInv'
<1>1. ASSUME NEW k \in Keys, NEW p \in Payloads, NEW enqueue \in BOOLEAN,
             Publish(k, p, enqueue)
      PROVE  LeaseInv'
  <2>1. status[k] = "none"
    BY <1>1 DEF Publish, EventInv
  <2>2. \A j \in Keys : status'[j] = "running" <=> status[j] = "running"
    BY <1>1, <2>1 DEF Publish, TypeOK
  <2>3. \A j \in Keys, x \in Workers :
           Holds(x, j)' => claimed'[x].attempts = attempts'[j]
    BY <1>1, <2>2 DEF Publish, workerVars, Holds, LeaseInv
  <2>4. QED
    BY <1>1, <2>2, <2>3 DEF Publish, LeaseInv
<1>2. ASSUME NEW w \in Workers, NEW k \in Keys, ClaimJob(w, k)
      PROVE  LeaseInv'
  <2>1. /\ issued' = issued + 1
        /\ claimed'[w].key = k
        /\ claimed'[w].token = issued + 1
        /\ claimed'[w].attempts = attempts[k] + 1
        /\ leaseToken'[k] = issued + 1
        /\ attempts'[k] = attempts[k] + 1
        /\ status'[k] = "running"
    BY <1>2 DEF ClaimJob, FreshToken, TypeOK
  <2>2. /\ \A x \in Workers : x # w => claimed'[x] = claimed[x]
        /\ \A j \in Keys : j # k => /\ status'[j] = status[j]
                                    /\ leaseToken'[j] = leaseToken[j]
                                    /\ attempts'[j] = attempts[j]
    BY <1>2 DEF ClaimJob, TypeOK
  <2>3. \A x \in Workers : claimed[x].token \in 0..issued
    BY DEF ClaimInv, NoClaim, TypeOK
  <2>4. \A j \in Keys, x \in Workers :
           Holds(x, j)' => claimed'[x].attempts = attempts'[j]
    <3>1. SUFFICES ASSUME NEW j \in Keys, NEW x \in Workers, Holds(x, j)'
                   PROVE  claimed'[x].attempts = attempts'[j]
      OBVIOUS
    <3>2. CASE x = w
      BY <2>1, <3>1, <3>2 DEF Holds
    <3>3. CASE x # w /\ j = k
      BY <2>1, <2>2, <2>3, <3>1, <3>3 DEF Holds, TypeOK
    <3>4. CASE x # w /\ j # k
      BY <2>2, <3>1, <3>4 DEF Holds, LeaseInv
    <3>5. QED
      BY <3>2, <3>3, <3>4
  <2>5. \A j \in Keys : leaseToken'[j] \in 0..issued'
    BY <2>1, <2>2 DEF LeaseInv, TypeOK
  <2>6. \A j \in Keys : status'[j] = "running" <=> leaseToken'[j] # 0
    BY <2>1, <2>2 DEF LeaseInv, TypeOK
  <2>7. QED
    BY <2>4, <2>5, <2>6 DEF LeaseInv
<1>3. ASSUME NEW w \in Workers, BeginProcess(w)
      PROVE  LeaseInv'
  BY <1>3, LeaseInvUntouched DEF BeginProcess, jobVars
<1>4. ASSUME NEW w \in Workers, Process(w)
      PROVE  LeaseInv'
  <2>1. CASE ProcessStale(w) \/ ProcessThrows(w)
    BY <2>1, LeaseInvUntouched DEF ProcessStale, ProcessThrows, jobVars
  <2>2. ASSUME NEW k \in Keys, NEW H \in SUBSET Handlers,
               ProcessExhausted(w, k) \/ ProcessHandled(w, k, H)
        PROVE  LeaseInv'
    BY <2>2, LeaseInvSettled DEF ProcessExhausted, ProcessHandled, AfterCommit,
                                 Statuses
  <2>3. QED
    BY <1>4, <2>1, <2>2 DEF Process
<1>5. ASSUME NEW w \in Workers, Fail(w)
      PROVE  LeaseInv'
  <2>1. CASE FailStale(w)
    BY <2>1, LeaseInvUntouched DEF FailStale, jobVars
  <2>2. ASSUME NEW k \in Keys, FailJob(w, k)
        PROVE  LeaseInv'
    <3>1. StatusAfterFailure(claimed[w].attempts) \in Statuses \ {"running"}
      BY DEF StatusAfterFailure, Statuses
    <3>2. QED
      BY <2>2, <3>1, LeaseInvSettled DEF FailJob
  <2>3. QED
    BY <1>5, <2>1, <2>2 DEF Fail
<1>6. ASSUME NEW w \in Workers, Crash(w)
      PROVE  LeaseInv'
  BY <1>6, LeaseInvUntouched DEF Crash, jobVars
<1>7. ASSUME NEW k \in Keys, LeaseEnds(k) \/ BackoffEnds(k)
      PROVE  LeaseInv'
  BY <1>7 DEF LeaseEnds, BackoffEnds, workerVars, LeaseInv, Holds
<1>8. ASSUME NEW k \in Keys, Requeue(k)
      PROVE  LeaseInv'
  <2>1. /\ \A j \in Keys : IF j = k THEN status'[j] = "pending" /\ leaseToken'[j] = 0
                           ELSE /\ status'[j] = status[j]
                                /\ leaseToken'[j] = leaseToken[j]
                                /\ attempts'[j] = attempts[j]
        /\ UNCHANGED <<issued, claimed>>
    BY <1>8 DEF Requeue, Settle, workerVars, TypeOK
  <2>2. \A j \in Keys, x \in Workers :
           Holds(x, j)' => claimed'[x].attempts = attempts'[j]
    BY <2>1 DEF Holds, LeaseInv
  <2>3. \A j \in Keys : leaseToken'[j] \in 0..issued'
    BY <2>1 DEF LeaseInv, TypeOK
  <2>4. \A j \in Keys : status'[j] = "running" <=> leaseToken'[j] # 0
    BY <2>1 DEF LeaseInv
  <2>5. QED
    BY <2>2, <2>3, <2>4 DEF LeaseInv
<1>9. CASE UNCHANGED vars
  BY <1>9 DEF vars, jobVars, workerVars, LeaseInv, Holds
<1>10. CASE Next
  BY <1>1, <1>2, <1>3, <1>4, <1>5, <1>6, <1>7, <1>8, <1>10 DEF Next
<1>11. QED
  BY <1>9, <1>10

\* What any step does to one row, seen from the ledger.
LEMMA RowStep ==
    ASSUME TypeOK, LeaseInv, EventInv, [Next]_vars, NEW k \in Keys
    PROVE  \/ UNCHANGED <<event[k], status[k], receipts[k], effects[k]>>
           \/ /\ event[k] = NoEvent /\ event'[k] \in Payloads
              /\ status[k] = "none" /\ status'[k] \in {"none", "pending"}
              /\ UNCHANGED <<receipts[k], effects[k]>>
           \/ /\ status[k] \in {"pending", "running"}
              /\ status'[k] \in {"pending", "running", "dead"}
              /\ UNCHANGED <<event[k], receipts[k], effects[k]>>
           \/ /\ status[k] = "running" /\ status'[k] = "completed"
              /\ event'[k] = event[k]
              /\ \E H \in SUBSET Handlers : Required \subseteq H /\ Dispatch(k, H)
           \/ /\ status[k] = "dead" /\ status'[k] = "pending"
              /\ UNCHANGED <<event[k], receipts[k], effects[k]>>
<1>1. ASSUME NEW j \in Keys, NEW p \in Payloads, NEW enqueue \in BOOLEAN,
             Publish(j, p, enqueue)
      PROVE  \/ UNCHANGED <<event[k], status[k], receipts[k], effects[k]>>
             \/ /\ event[k] = NoEvent /\ event'[k] \in Payloads
                /\ status[k] = "none" /\ status'[k] \in {"none", "pending"}
                /\ UNCHANGED <<receipts[k], effects[k]>>
  BY <1>1 DEF Publish, EventInv, TypeOK
<1>2. ASSUME NEW w \in Workers, NEW j \in Keys, ClaimJob(w, j)
      PROVE  \/ UNCHANGED <<event[k], status[k], receipts[k], effects[k]>>
             \/ /\ status[k] \in {"pending", "running"}
                /\ status'[k] \in {"pending", "running", "dead"}
                /\ UNCHANGED <<event[k], receipts[k], effects[k]>>
  BY <1>2 DEF ClaimJob, Claimable, TypeOK
<1>3. ASSUME NEW w \in Workers, BeginProcess(w) \/ Crash(w)
      PROVE  UNCHANGED <<event[k], status[k], receipts[k], effects[k]>>
  BY <1>3 DEF BeginProcess, Crash, jobVars
<1>4. ASSUME NEW w \in Workers, ProcessStale(w) \/ ProcessThrows(w) \/ FailStale(w)
      PROVE  UNCHANGED <<event[k], status[k], receipts[k], effects[k]>>
  BY <1>4 DEF ProcessStale, ProcessThrows, FailStale, jobVars
<1>5. ASSUME NEW w \in Workers, NEW j \in Keys,
             ProcessExhausted(w, j) \/ FailJob(w, j)
      PROVE  \/ UNCHANGED <<event[k], status[k], receipts[k], effects[k]>>
             \/ /\ status[k] \in {"pending", "running"}
                /\ status'[k] \in {"pending", "running", "dead"}
                /\ UNCHANGED <<event[k], receipts[k], effects[k]>>
  <2>1. /\ UNCHANGED <<event, receipts, effects>>
        /\ status[j] = "running"
        /\ \E s \in {"pending", "dead"} : status' = [status EXCEPT ![j] = s]
    BY <1>5 DEF ProcessExhausted, FailJob, MayProcess, Holds, Settle,
                StatusAfterFailure
  <2>2. QED
    BY <2>1 DEF TypeOK
<1>6. ASSUME NEW w \in Workers, NEW j \in Keys, NEW H \in SUBSET Handlers,
             Required \subseteq H, ProcessHandled(w, j, H)
      PROVE  \/ UNCHANGED <<event[k], status[k], receipts[k], effects[k]>>
             \/ /\ status[k] = "running" /\ status'[k] = "completed"
                /\ event'[k] = event[k]
                /\ Dispatch(k, H)
  <2>1. /\ event' = event
        /\ status[j] = "running"
        /\ status' = [status EXCEPT ![j] = "completed"]
        /\ Dispatch(j, H)
    BY <1>6 DEF ProcessHandled, MayProcess, Holds, Settle
  <2>2. CASE k = j
    BY <2>1, <2>2 DEF TypeOK
  <2>3. CASE k # j
    BY <2>1, <2>3 DEF Dispatch, TypeOK
  <2>4. QED
    BY <2>2, <2>3
<1>7. ASSUME NEW j \in Keys, LeaseEnds(j) \/ BackoffEnds(j)
      PROVE  UNCHANGED <<event[k], status[k], receipts[k], effects[k]>>
  BY <1>7 DEF LeaseEnds, BackoffEnds
<1>8. ASSUME NEW j \in Keys, Requeue(j)
      PROVE  \/ UNCHANGED <<event[k], status[k], receipts[k], effects[k]>>
             \/ /\ status[k] = "dead" /\ status'[k] = "pending"
                /\ UNCHANGED <<event[k], receipts[k], effects[k]>>
  BY <1>8 DEF Requeue, Settle, TypeOK
<1>9. CASE UNCHANGED vars
  BY <1>9 DEF vars, jobVars
<1>10. CASE \E j \in Keys, p \in Payloads, enqueue \in BOOLEAN : Publish(j, p, enqueue)
  BY <1>1, <1>10
<1>11. CASE \E w \in Workers, j \in Keys : ClaimJob(w, j)
  BY <1>2, <1>11
<1>12. CASE \E w \in Workers : BeginProcess(w) \/ Crash(w)
  BY <1>3, <1>12
<1>13. CASE \E w \in Workers : Process(w)
  BY <1>4, <1>5, <1>6, <1>13 DEF Process
<1>14. CASE \E w \in Workers : Fail(w)
  BY <1>4, <1>5, <1>14 DEF Fail
<1>15. CASE \E j \in Keys : LeaseEnds(j) \/ BackoffEnds(j) \/ Requeue(j)
  BY <1>7, <1>8, <1>15
<1>16. QED
  BY <1>9, <1>10, <1>11, <1>12, <1>13, <1>14, <1>15 DEF Next

\* Handlers run on a row without receipts, once each.
LEMMA DispatchOnce ==
    ASSUME TypeOK, NEW k \in Keys, NEW H \in SUBSET Handlers, Dispatch(k, H),
           receipts[k] = {}, \A h \in Handlers : effects[k][h] = 0
    PROVE  /\ receipts'[k] = H
           /\ \A h \in Handlers : effects'[k][h] = IF h \in H THEN 1 ELSE 0
<1>1. receipts'[k] = H
  BY DEF Dispatch, TypeOK
<1>2. effects'[k] = [h \in Handlers |->
                       IF h \in H THEN effects[k][h] + 1 ELSE effects[k][h]]
  BY DEF Dispatch, TypeOK
<1>3. QED
  BY <1>1, <1>2

LEMMA LedgerInvStep ==
    ASSUME TypeOK, LeaseInv, EventInv, HandledExactlyOnce, [Next]_vars
    PROVE  EventInv' /\ HandledExactlyOnce'
<1>1. EventInv'
  <2>1. SUFFICES ASSUME NEW k \in Keys, event'[k] = NoEvent
                 PROVE  status'[k] = "none"
    BY DEF EventInv
  <2>2. QED
    BY <2>1, RowStep DEF EventInv
<1>2. HandledExactlyOnce'
  <2>1. SUFFICES ASSUME NEW k \in Keys
                 PROVE  /\ \A h \in Handlers :
                              effects'[k][h] = IF h \in receipts'[k] THEN 1 ELSE 0
                        /\ IF status'[k] = "completed"
                           THEN Required \subseteq receipts'[k]
                           ELSE receipts'[k] = {}
    BY DEF HandledExactlyOnce
  <2>2. CASE /\ UNCHANGED <<receipts[k], effects[k]>>
             /\ status'[k] = "completed" <=> status[k] = "completed"
    BY <2>2 DEF HandledExactlyOnce
  <2>3. CASE /\ status[k] = "running" /\ status'[k] = "completed"
             /\ \E H \in SUBSET Handlers : Required \subseteq H /\ Dispatch(k, H)
    <3>1. receipts[k] = {} /\ \A h \in Handlers : effects[k][h] = 0
      BY <2>3 DEF HandledExactlyOnce
    <3>2. QED
      BY <2>3, <3>1, DispatchOnce
  <2>4. QED
    BY <2>2, <2>3, RowStep
<1>3. QED
  BY <1>1, <1>2

THEOREM Inductive == Spec => []IInv
<1>1. Init => IInv
  <2>1. ASSUME Init
        PROVE  ClaimInv /\ LeaseInv /\ EventInv /\ HandledExactlyOnce
    BY <2>1 DEF Init, ClaimInv, LeaseInv, EventInv, HandledExactlyOnce, Holds,
                NoClaim
  <2>2. QED
    BY <2>1, TypeInit DEF IInv
<1>2. IInv /\ [Next]_vars => IInv'
  BY TypeStep, ClaimInvStep, LeaseInvStep, LedgerInvStep DEF IInv
<1>3. QED
  BY <1>1, <1>2, PTL DEF Spec

------------------------------------------------------------------------------
(* What follows from it.                                                    *)

\* However leases expire and workers crash, at most one worker at a time can
\* act on a job, and it knows the job's attempt number (queue.ts:35-43).
THEOREM Fencing == Spec => []ClaimsAreFenced
<1>1. IInv => ClaimsAreFenced
  <2>1. SUFFICES ASSUME IInv, NEW k \in Keys, NEW w \in Workers, Holds(w, k)
                 PROVE  /\ claimed[w].attempts = attempts[k]
                        /\ \A x \in Workers : Holds(x, k) => x = w
    BY DEF ClaimsAreFenced
  <2>2. pc[w] # "idle"
    BY <2>1 DEF IInv, ClaimInv, Holds, NoClaim
  <2>3. QED
    BY <2>1, <2>2 DEF IInv, ClaimInv, LeaseInv, Holds
<1>2. QED
  BY <1>1, Inductive, PTL

\* Handlers run once per event, and all together or not at all
\* (router.ts:89-99 inside the transaction of queue.ts:31-86).
THEOREM ExactlyOnce == Spec => []HandledExactlyOnce
<1>1. IInv => HandledExactlyOnce
  BY DEF IInv
<1>2. QED
  BY <1>1, Inductive, PTL

\* A worker that lost its lease never settles the job of another one
\* (the where clause of queue.ts:101-106).
THEOREM HolderSettles == Spec => OnlyHolderSettles
<1>1. ASSUME IInv, [Next]_vars
      PROVE  [\A k \in Keys : (status[k] = "running" /\ status'[k] # "running") =>
                 \E w \in Workers : Holds(w, k) /\ pc'[w] # pc[w]]_vars
  <2>1. SUFFICES ASSUME NEW k \in Keys, status[k] = "running", status'[k] # "running"
                 PROVE  \E w \in Workers : Holds(w, k) /\ pc'[w] # pc[w]
    OBVIOUS
  <2>2. ASSUME NEW w \in Workers, NEW j \in Keys, NEW H \in SUBSET Handlers,
               ProcessExhausted(w, j) \/ ProcessHandled(w, j, H) \/ FailJob(w, j)
        PROVE  Holds(w, k) /\ pc'[w] # pc[w]
    <3>1. Holds(w, j) /\ \E s \in Statuses : status' = [status EXCEPT ![j] = s]
      BY <2>2 DEF Statuses, ProcessExhausted, ProcessHandled, FailJob, MayProcess, Settle,
                  StatusAfterFailure
    <3>2. j = k
      BY <2>1, <3>1 DEF IInv, TypeOK
    <3>3. pc'[w] # pc[w]
      <4>1. \/ pc[w] = "processing" /\ AfterCommit(w)
            \/ pc[w] = "failing" /\ Release(w)
        BY <2>2 DEF ProcessExhausted, ProcessHandled, FailJob
      <4>2. QED
        BY <1>1, <4>1 DEF AfterCommit, Release, IInv, TypeOK
    <3>4. QED
      BY <3>1, <3>2, <3>3
  <2>3. ASSUME NEW j \in Keys, NEW p \in Payloads, NEW enqueue \in BOOLEAN,
               Publish(j, p, enqueue)
        PROVE  FALSE
    <3>1. status[j] = "none"
      BY <1>1, <2>3 DEF Publish, IInv, EventInv
    <3>2. QED
      BY <1>1, <2>1, <2>3, <3>1 DEF Publish, IInv, TypeOK
  <2>4. ASSUME NEW j \in Keys,
               \/ \E w \in Workers : ClaimJob(w, j)
               \/ LeaseEnds(j) \/ BackoffEnds(j) \/ Requeue(j)
        PROVE  FALSE
    BY <1>1, <2>1, <2>4 DEF ClaimJob, LeaseEnds, BackoffEnds, Requeue, Settle, IInv,
                            TypeOK
  <2>5. ASSUME NEW w \in Workers,
               \/ BeginProcess(w) \/ ProcessStale(w) \/ ProcessThrows(w)
               \/ FailStale(w) \/ Crash(w)
        PROVE  FALSE
    BY <2>1, <2>5 DEF BeginProcess, ProcessStale, ProcessThrows, FailStale, Crash,
                      jobVars
  <2>6. status' # status
    BY <2>1
  <2>7. Next
    BY <1>1, <2>6 DEF vars, jobVars
  <2>8. CASE \E w \in Workers : Process(w)
    BY <2>2, <2>5, <2>8 DEF Process
  <2>9. CASE \E w \in Workers : Fail(w)
    BY <2>2, <2>5, <2>9 DEF Fail
  <2>10. QED
    BY <2>3, <2>4, <2>5, <2>7, <2>8, <2>9 DEF Next
<1>2. QED
  BY <1>1, Inductive, PTL DEF Spec, OnlyHolderSettles

------------------------------------------------------------------------------
(* Refinement of EventLedger.  A ledger step touches one key, a queue step  *)
(* touches one row: RowStep says how, OneRow that it is only one.           *)

LEMMA OneRow ==
    ASSUME TypeOK, [Next]_vars
    PROVE  \/ UNCHANGED <<event, status, receipts>>
           \/ \E k \in Keys : \A j \in Keys \ {k} :
                 UNCHANGED <<event[j], status[j], receipts[j]>>
<1>1. ASSUME NEW k \in Keys,
             \/ \E p \in Payloads, enqueue \in BOOLEAN : Publish(k, p, enqueue)
             \/ \E w \in Workers : ClaimJob(w, k)
             \/ LeaseEnds(k) \/ BackoffEnds(k) \/ Requeue(k)
      PROVE  \A j \in Keys \ {k} : UNCHANGED <<event[j], status[j], receipts[j]>>
  BY <1>1 DEF Publish, ClaimJob, LeaseEnds, BackoffEnds, Requeue, Settle, TypeOK
<1>2. ASSUME NEW w \in Workers,
             \/ BeginProcess(w) \/ ProcessStale(w) \/ ProcessThrows(w)
             \/ FailStale(w) \/ Crash(w)
      PROVE  UNCHANGED <<event, status, receipts>>
  BY <1>2 DEF BeginProcess, ProcessStale, ProcessThrows, FailStale, Crash, jobVars
<1>3. ASSUME NEW w \in Workers, NEW k \in Keys, NEW H \in SUBSET Handlers,
             ProcessExhausted(w, k) \/ ProcessHandled(w, k, H) \/ FailJob(w, k)
      PROVE  \A j \in Keys \ {k} : UNCHANGED <<event[j], status[j], receipts[j]>>
  BY <1>3 DEF ProcessExhausted, ProcessHandled, FailJob, Settle, Dispatch, TypeOK
<1>4. CASE \E w \in Workers : Process(w)
  BY <1>2, <1>3, <1>4 DEF Process
<1>5. CASE \E w \in Workers : Fail(w)
  BY <1>2, <1>3, <1>5 DEF Fail
<1>6. CASE UNCHANGED vars
  BY <1>6 DEF vars, jobVars
<1>7. QED
  BY <1>1, <1>2, <1>4, <1>5, <1>6 DEF Next

\* The stage that an unchanged row maps to does not change.
LEMMA SameStage ==
    ASSUME NEW k \in Keys, UNCHANGED <<event[k], status[k]>>
    PROVE  StageOf(k)' = StageOf(k)
BY DEF StageOf

LEMMA LedgerStep ==
    ASSUME IInv, [Next]_vars
    PROVE  [Ledger!LedgerNext]_(Ledger!ledgerVars)
<1>1. CASE UNCHANGED <<event, status, receipts>>
  BY <1>1 DEF Ledger!ledgerVars, StageOf
<1>2. ASSUME NEW k \in Keys,
             \A j \in Keys \ {k} : UNCHANGED <<event[j], status[j], receipts[j]>>
      PROVE  \/ Ledger!LedgerNext
             \/ UNCHANGED Ledger!ledgerVars
  <2>1. \A j \in Keys \ {k} : StageOf(j)' = StageOf(j)
    BY <1>2, SameStage
  <2>2. /\ event \in [Keys -> Payloads \cup {NoEvent}]
        /\ event' \in [Keys -> Payloads \cup {NoEvent}]
        /\ receipts \in [Keys -> SUBSET Handlers]
        /\ receipts' \in [Keys -> SUBSET Handlers]
    BY TypeStep DEF IInv, TypeOK
  <2>3. /\ event' = [event EXCEPT ![k] = event'[k]]
        /\ receipts' = [receipts EXCEPT ![k] = receipts'[k]]
        /\ [j \in Keys |-> StageOf(j)]' =
              [[j \in Keys |-> StageOf(j)] EXCEPT ![k] = StageOf(k)']
    BY <1>2, <2>1, <2>2
  <2>4. CASE UNCHANGED <<event[k], status[k], receipts[k]>>
    <3>1. StageOf(k)' = StageOf(k)
      BY <2>4, SameStage
    <3>2. /\ event' = event
          /\ receipts' = receipts
      BY <2>2, <2>3, <2>4
    <3>3. [j \in Keys |-> StageOf(j)]' = [j \in Keys |-> StageOf(j)]
      BY <2>1, <3>1
    <3>4. QED
      BY <3>2, <3>3 DEF Ledger!ledgerVars
  <2>5. CASE /\ event[k] = NoEvent /\ event'[k] \in Payloads
             /\ status[k] = "none" /\ status'[k] \in {"none", "pending"}
             /\ receipts'[k] = receipts[k]
    <3>1. StageOf(k) = "absent" /\ StageOf(k)' \in {"recorded", "open"}
      BY <2>5 DEF StageOf
    <3>2. receipts' = receipts
      BY <2>2, <2>3, <2>5
    <3>3. Ledger!Record(k)
      BY <2>3, <2>5, <3>1, <3>2 DEF Ledger!Record
    <3>4. QED
      BY <3>3 DEF Ledger!LedgerNext
  <2>6. CASE /\ status[k] \in {"pending", "running"}
             /\ status'[k] \in {"pending", "running", "dead"}
             /\ UNCHANGED <<event[k], receipts[k]>>
    <3>1. event[k] # NoEvent
      BY <2>6 DEF IInv, EventInv
    <3>2. event' = event /\ receipts' = receipts
      BY <2>2, <2>3, <2>6
    <3>3. StageOf(k) = "open" /\ StageOf(k)' \in {"open", "parked"}
      BY <2>6, <3>1 DEF StageOf
    <3>4. CASE StageOf(k)' = "open"
      <4>1. [j \in Keys |-> StageOf(j)]' = [j \in Keys |-> StageOf(j)]
        BY <2>1, <3>3, <3>4
      <4>2. QED
        BY <3>2, <4>1 DEF Ledger!ledgerVars
    <3>5. CASE StageOf(k)' = "parked"
      BY <2>3, <3>2, <3>3, <3>5 DEF Ledger!Park, Ledger!LedgerNext
    <3>6. QED
      BY <3>3, <3>4, <3>5
  <2>7. CASE /\ status[k] = "running" /\ status'[k] = "completed"
             /\ event'[k] = event[k]
             /\ \E H \in SUBSET Handlers : Required \subseteq H /\ Dispatch(k, H)
    <3>1. event[k] # NoEvent
      BY <2>7 DEF IInv, EventInv
    <3>2. event' = event
      BY <2>2, <2>3, <2>7
    <3>3. StageOf(k) = "open" /\ StageOf(k)' = "handled"
      BY <2>7, <3>1 DEF StageOf
    <3>4. receipts[k] = {} /\ \A h \in Handlers : effects[k][h] = 0
      BY <2>7 DEF IInv, HandledExactlyOnce
    <3>5. PICK H \in SUBSET Handlers : Required \subseteq H /\ receipts'[k] = H
      BY <2>7, <3>4, DispatchOnce DEF IInv
    <3>6. Ledger!Handle(k)
      BY <2>3, <3>2, <3>3, <3>4, <3>5 DEF Ledger!Handle
    <3>7. QED
      BY <3>6 DEF Ledger!LedgerNext
  <2>8. CASE /\ status[k] = "dead" /\ status'[k] = "pending"
             /\ UNCHANGED <<event[k], receipts[k]>>
    <3>1. event[k] # NoEvent
      BY <2>8 DEF IInv, EventInv
    <3>2. event' = event /\ receipts' = receipts
      BY <2>2, <2>3, <2>8
    <3>3. StageOf(k) = "parked" /\ StageOf(k)' = "open"
      BY <2>8, <3>1 DEF StageOf
    <3>4. QED
      BY <2>3, <3>2, <3>3 DEF Ledger!Reopen, Ledger!LedgerNext
  <2>9. QED
    BY <2>4, <2>5, <2>6, <2>7, <2>8, RowStep DEF IInv
<1>3. QED
  BY <1>1, <1>2, OneRow DEF IInv

\* The leased queue implements the ledger of events: recorded once, handled
\* once as a whole, or parked until an operator reopens it.
THEOREM Refinement == Spec => KeepsLedger
<1>1. Init => Ledger!LedgerInit
  BY DEF Init, Ledger!LedgerInit, StageOf
<1>2. IInv /\ [Next]_vars => [Ledger!LedgerNext]_(Ledger!ledgerVars)
  BY LedgerStep
<1>3. QED
  BY <1>1, <1>2, Inductive, PTL DEF Spec, KeepsLedger, Ledger!LedgerSpec
==============================================================================
