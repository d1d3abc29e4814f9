------------------------------ MODULE EventJobs ------------------------------
(***************************************************************************)
(* The durable event queue of one organization: publication with its       *)
(* idempotency key (src/events/publisher.ts), the leased job that drives   *)
(* the handlers (src/workforce/jobs/queue.ts), the router's per-handler    *)
(* receipts (src/events/router.ts) and the operator's requeue              *)
(* (src/workforce/http/routes.ts).                                          *)
(*                                                                          *)
(* Every tenantTransaction takes the Organization row FOR UPDATE, so one   *)
(* transaction is one action.  Between transactions a worker may stop,     *)
(* lose its lease or lose the answer of a COMMIT.                           *)
(***************************************************************************)
EXTENDS Naturals

CONSTANTS Keys,         \* idempotency keys of one organization and source
          Payloads,     \* payload hashes
          NoEvent,      \* the key has not been published
          NoKey,        \* a worker holds no row
          Handlers,     \* identities in the handler registry
          Required,     \* handlers enabled in every process
          Workers,      \* processes polling the "events" lane
          MaxAttempts,  \* MAX_ATTEMPTS in the code (5)
          MaxCrashes,   \* bound: workers that die or lose the database
          MaxStalls,    \* bound: leases that run out under a live worker
          MaxRequeues   \* bound: operator requeues

ASSUME ConstantsAssumption ==
    /\ NoEvent \notin Payloads
    /\ NoKey \notin Keys
    /\ Required \subseteq Handlers
    /\ MaxAttempts \in Nat \ {0}
    /\ MaxCrashes \in Nat
    /\ MaxStalls \in Nat
    /\ MaxRequeues \in Nat

VARIABLES
    event,       \* the BusinessEvent row of a key: its payload hash
    status,      \* WorkforceJob.status; "none" when there is no job row
    attempts,    \* WorkforceJob.attempts
    leaseToken,  \* WorkforceJob.leaseToken; 0 is NULL
    leaseOver,   \* WorkforceJob.leasedUntil <= the current time
    due,         \* WorkforceJob.availableAt <= the current time
    receipts,    \* [Keys -> SUBSET Handlers], the EventDelivery rows
    effects,     \* [Keys -> [Handlers -> Nat]], committed runs of a handler
    pc,          \* where each worker is
    claimed,     \* the row a worker read when it claimed
    inTime,      \* processJob's now was before the claimed lease's end
    issued,      \* lease tokens issued so far (randomUUID: all distinct)
    crashes, stalls, requeues

jobVars == <<status, attempts, leaseToken, leaseOver, due>>
workerVars == <<pc, claimed, inTime>>
budgets == <<crashes, stalls, requeues>>
vars == <<event, jobVars, receipts, effects, workerVars, issued, budgets>>

Statuses == {"none", "pending", "running", "completed", "dead"}
Claim == [key : Keys \cup {NoKey}, token : Nat, attempts : Nat]
NoClaim == [key |-> NoKey, token |-> 0, attempts |-> 0]

TypeOK ==
    /\ event \in [Keys -> Payloads \cup {NoEvent}]
    /\ status \in [Keys -> Statuses]
    /\ attempts \in [Keys -> Nat]
    /\ leaseToken \in [Keys -> Nat]
    /\ leaseOver \in [Keys -> BOOLEAN]
    /\ due \in [Keys -> BOOLEAN]
    /\ receipts \in [Keys -> SUBSET Handlers]
    /\ effects \in [Keys -> [Handlers -> Nat]]
    /\ pc \in [Workers -> {"idle", "claimed", "processing", "failing"}]
    /\ claimed \in [Workers -> Claim]
    /\ inTime \in [Workers -> BOOLEAN]
    /\ issued \in Nat
    /\ crashes \in Nat
    /\ stalls \in Nat
    /\ requeues \in Nat

Init ==
    /\ event = [k \in Keys |-> NoEvent]
    /\ status = [k \in Keys |-> "none"]
    /\ attempts = [k \in Keys |-> 0]
    /\ leaseToken = [k \in Keys |-> 0]
    /\ leaseOver = [k \in Keys |-> FALSE]
    /\ due = [k \in Keys |-> FALSE]
    /\ receipts = [k \in Keys |-> {}]
    /\ effects = [k \in Keys |-> [h \in Handlers |-> 0]]
    /\ pc = [w \in Workers |-> "idle"]
    /\ claimed = [w \in Workers |-> NoClaim]
    /\ inTime = [w \in Workers |-> FALSE]
    /\ issued = 0
    /\ crashes = 0
    /\ stalls = 0
    /\ requeues = 0

------------------------------------------------------------------------------
(* Publication.                                                             *)

\* publishInTransaction: a key already in the ledger is answered from the
\* stored row (a duplicate, or 409 for another payload) and changes nothing;
\* otherwise the event and, unless enqueue is false, its job commit together.
Publish(k, p, enqueue) ==
    /\ event[k] = NoEvent
    /\ event' = [event EXCEPT ![k] = p]
    /\ IF enqueue
       THEN /\ status' = [status EXCEPT ![k] = "pending"]
            /\ due' = [due EXCEPT ![k] = TRUE]
       ELSE UNCHANGED <<status, due>>
    /\ UNCHANGED <<attempts, leaseToken, leaseOver, receipts, effects,
                   workerVars, issued, budgets>>

------------------------------------------------------------------------------
(* A worker: claimJob, then processJob with its transaction and its catch.  *)

\* Mutant: an expired lease is not picked up again.
ClaimableOnlyPending(k) == status[k] = "pending" /\ due[k]

Claimable(k) ==
    \/ status[k] = "pending" /\ due[k]
    \/ status[k] = "running" /\ leaseOver[k]

\* Mutant: one token per deployment instead of one per claim.
FixedToken == 1

FreshToken == issued + 1

\* The claimed row is the one RETURNING gives: attempts already counts this
\* claim.  SKIP LOCKED lets any claimable row be the one taken.
ClaimJob(w, k) ==
    /\ pc[w] = "idle"
    /\ Claimable(k)
    /\ status' = [status EXCEPT ![k] = "running"]
    /\ attempts' = [attempts EXCEPT ![k] = @ + 1]
    /\ issued' = FreshToken
    /\ leaseToken' = [leaseToken EXCEPT ![k] = FreshToken]
    /\ leaseOver' = [leaseOver EXCEPT ![k] = FALSE]
    /\ claimed' = [claimed EXCEPT ![w] =
                     [key |-> k, token |-> FreshToken, attempts |-> attempts[k] + 1]]
    /\ pc' = [pc EXCEPT ![w] = "claimed"]
    /\ UNCHANGED <<event, due, receipts, effects, inTime, budgets>>

\* The row is running under this claim's token.
Holds(w, k) ==
    /\ claimed[w].key = k
    /\ status[k] = "running"
    /\ leaseToken[k] = claimed[w].token

\* processJob is called: its default argument fixes now, which the transaction
\* compares with the lease only after it has waited for the locks.
BeginProcess(w) ==
    /\ pc[w] = "claimed"
    /\ pc' = [pc EXCEPT ![w] = "processing"]
    /\ inTime' = [inTime EXCEPT ![w] =
                     \A k \in Keys : Holds(w, k) => ~leaseOver[k]]
    /\ UNCHANGED <<event, jobVars, receipts, effects, claimed, issued, budgets>>

Release(w) ==
    /\ pc' = [pc EXCEPT ![w] = "idle"]
    /\ claimed' = [claimed EXCEPT ![w] = NoClaim]
    /\ inTime' = [inTime EXCEPT ![w] = FALSE]

\* A transaction that commits is acknowledged, or its answer is lost and the
\* worker runs the catch block.
AfterCommit(w) ==
    \/ Release(w)
    \/ pc' = [pc EXCEPT ![w] = "failing"] /\ UNCHANGED <<claimed, inTime>>

\* The job row as a settling update leaves it.
Settle(k, s) ==
    /\ status' = [status EXCEPT ![k] = s]
    /\ leaseToken' = [leaseToken EXCEPT ![k] = 0]
    /\ leaseOver' = [leaseOver EXCEPT ![k] = FALSE]

MayProcess(w, k) == Holds(w, k) /\ inTime[w]

\* The early return: the claim is no longer this worker's.
ProcessStale(w) ==
    /\ pc[w] = "processing"
    /\ \A k \in Keys : ~MayProcess(w, k)
    /\ Release(w)
    /\ UNCHANGED <<event, jobVars, receipts, effects, issued, budgets>>

\* attempts > MAX_ATTEMPTS: earlier claims crashed, the handlers are not run.
ProcessExhausted(w, k) ==
    /\ pc[w] = "processing"
    /\ MayProcess(w, k)
    /\ attempts[k] > MaxAttempts
    /\ Settle(k, "dead")
    /\ AfterCommit(w)
    /\ UNCHANGED <<event, attempts, due, receipts, effects, issued, budgets>>

\* EventRouter.dispatch over the handlers this process has enabled: those with
\* a receipt are skipped, the others run and leave one.
Dispatch(k, H) ==
    LET todo == H \ receipts[k] IN
    /\ receipts' = [receipts EXCEPT ![k] = @ \cup todo]
    /\ effects' = [effects EXCEPT ![k] =
                     [h \in Handlers |-> IF h \in todo THEN @[h] + 1 ELSE @[h]]]

ProcessHandled(w, k, H) ==
    /\ pc[w] = "processing"
    /\ MayProcess(w, k)
    /\ attempts[k] <= MaxAttempts
    /\ Dispatch(k, H)
    /\ Settle(k, "completed")
    /\ AfterCommit(w)
    /\ UNCHANGED <<event, attempts, due, issued, budgets>>

\* Mutant: a handler that failed has already committed its own effect.
ThrowsAfterEffect(w) ==
    /\ pc[w] = "processing"
    /\ \E k \in Keys, h \in Handlers :
          /\ MayProcess(w, k)
          /\ effects' = [effects EXCEPT ![k][h] = @ + 1]
    /\ pc' = [pc EXCEPT ![w] = "failing"]
    /\ UNCHANGED <<event, jobVars, receipts, claimed, inTime, issued, budgets>>

\* A handler throws, the event is unreadable, or the transaction times out:
\* everything it did is rolled back.
ProcessThrows(w) ==
    /\ pc[w] = "processing"
    /\ pc' = [pc EXCEPT ![w] = "failing"]
    /\ UNCHANGED <<event, jobVars, receipts, effects, claimed, inTime, issued,
                   budgets>>

StatusAfterFailure(n) == IF n >= MaxAttempts THEN "dead" ELSE "pending"

\* Mutant: the failure is recorded by job id alone.
FailUnfenced(w, k) ==
    /\ pc[w] = "failing"
    /\ claimed[w].key = k
    /\ status[k] = "running"
    /\ Settle(k, StatusAfterFailure(claimed[w].attempts))
    /\ due' = [due EXCEPT ![k] = FALSE]
    /\ Release(w)
    /\ UNCHANGED <<event, attempts, receipts, effects, issued, budgets>>

\* The catch block: updateMany on the row still running under this token.
FailJob(w, k) ==
    /\ pc[w] = "failing"
    /\ Holds(w, k)
    /\ Settle(k, StatusAfterFailure(claimed[w].attempts))
    /\ due' = [due EXCEPT ![k] = FALSE]
    /\ Release(w)
    /\ UNCHANGED <<event, attempts, receipts, effects, issued, budgets>>

FailStale(w) ==
    /\ pc[w] = "failing"
    /\ \A k \in Keys : ~Holds(w, k)
    /\ Release(w)
    /\ UNCHANGED <<event, jobVars, receipts, effects, issued, budgets>>

------------------------------------------------------------------------------
(* The environment: crashes, time and the operator.                         *)

\* The process dies, or a query fails outside the try block.
Crash(w) ==
    /\ pc[w] # "idle"
    /\ crashes < MaxCrashes
    /\ crashes' = crashes + 1
    /\ Release(w)
    /\ UNCHANGED <<event, jobVars, receipts, effects, issued, stalls, requeues>>

Abandoned(k) == \A w \in Workers : ~Holds(w, k)

\* LEASE_MS passes.  While a worker still holds the claim this is a stall.
LeaseEnds(k) ==
    /\ status[k] = "running"
    /\ ~leaseOver[k]
    /\ \/ Abandoned(k) /\ UNCHANGED stalls
       \/ ~Abandoned(k) /\ stalls < MaxStalls /\ stalls' = stalls + 1
    /\ leaseOver' = [leaseOver EXCEPT ![k] = TRUE]
    /\ UNCHANGED <<event, status, attempts, leaseToken, due, receipts, effects,
                   workerVars, issued, crashes, requeues>>

\* The retry backoff min(300 s, 1 s * 2^attempts) passes.
BackoffEnds(k) ==
    /\ status[k] = "pending"
    /\ ~due[k]
    /\ due' = [due EXCEPT ![k] = TRUE]
    /\ UNCHANGED <<event, status, attempts, leaseToken, leaseOver, receipts,
                   effects, workerVars, issued, budgets>>

\* Mutant: any settled job may be requeued.
RequeueSettled(k) ==
    /\ status[k] \in {"completed", "dead"}
    /\ requeues < MaxRequeues
    /\ requeues' = requeues + 1
    /\ Settle(k, "pending")
    /\ attempts' = [attempts EXCEPT ![k] = 0]
    /\ due' = [due EXCEPT ![k] = TRUE]
    /\ UNCHANGED <<event, receipts, effects, workerVars, issued, crashes, stalls>>

\* POST /jobs/:id/retry.
Requeue(k) ==
    /\ status[k] = "dead"
    /\ requeues < MaxRequeues
    /\ requeues' = requeues + 1
    /\ Settle(k, "pending")
    /\ attempts' = [attempts EXCEPT ![k] = 0]
    /\ due' = [due EXCEPT ![k] = TRUE]
    /\ UNCHANGED <<event, receipts, effects, workerVars, issued, crashes, stalls>>

------------------------------------------------------------------------------
Process(w) ==
    \/ ProcessStale(w)
    \/ \E k \in Keys : ProcessExhausted(w, k)
    \/ \E k \in Keys, H \in SUBSET Handlers :
          Required \subseteq H /\ ProcessHandled(w, k, H)
    \/ ProcessThrows(w)

Fail(w) == FailStale(w) \/ \E k \in Keys : FailJob(w, k)

Next ==
    \/ \E k \in Keys, p \in Payloads, enqueue \in BOOLEAN : Publish(k, p, enqueue)
    \/ \E w \in Workers, k \in Keys : ClaimJob(w, k)
    \/ \E w \in Workers : BeginProcess(w)
    \/ \E w \in Workers : Process(w)
    \/ \E w \in Workers : Fail(w)
    \/ \E w \in Workers : Crash(w)
    \/ \E k \in Keys : LeaseEnds(k) \/ BackoffEnds(k) \/ Requeue(k)

Spec == Init /\ [][Next]_vars

\* Workers keep polling and finish what they start, and time passes.  Nothing
\* is assumed of handlers (ProcessThrows may be taken every time), of crashes
\* or of the operator.
Fairness ==
    /\ \A w \in Workers : /\ WF_vars(\E k \in Keys : ClaimJob(w, k))
                          /\ WF_vars(BeginProcess(w))
                          /\ WF_vars(Process(w))
                          /\ WF_vars(Fail(w))
    /\ \A k \in Keys : WF_vars(LeaseEnds(k)) /\ WF_vars(BackoffEnds(k))

FairSpec == Spec /\ Fairness

------------------------------------------------------------------------------
(* Properties.                                                              *)

\* At most one worker can act on a job, however many claimed it: an older
\* claim's token is no longer on the row, and the claim that is there was
\* made at the row's own attempt number (queue.ts compares the first and
\* decides dead or retry from the second).
ClaimsAreFenced ==
    \A k \in Keys, w \in Workers : Holds(w, k) =>
        /\ claimed[w].attempts = attempts[k]
        /\ \A x \in Workers : Holds(x, k) => x = w

\* Crashes, lost answers, expired leases and requeues never run a handler
\* twice for one event; a completed job has run every handler that all
\* processes have enabled; and any other job (waiting, retried or dead) has
\* left no effect of any handler: handlers commit with the completion.
HandledExactlyOnce ==
    \A k \in Keys :
        /\ \A h \in Handlers : effects[k][h] = IF h \in receipts[k] THEN 1 ELSE 0
        /\ IF status[k] = "completed"
           THEN Required \subseteq receipts[k]
           ELSE receipts[k] = {}

\* Only the worker whose token is on the row takes a job out of "running":
\* a worker that lost its lease cannot complete, retry or bury the job that
\* another one is processing.
OnlyHolderSettles ==
    [][\A k \in Keys : (status[k] = "running" /\ status'[k] # "running") =>
          \E w \in Workers : Holds(w, k) /\ pc'[w] # pc[w]]_vars

\* Every published event with a job is in the end handled for good or dead,
\* whatever its handlers do.
EventuallySettled ==
    \A k \in Keys : (status[k] = "pending") ~> (status[k] \in {"completed", "dead"})

\* The queue keeps the ledger's promise.
StageOf(k) ==
    CASE event[k] = NoEvent -> "absent"
      [] event[k] # NoEvent /\ status[k] = "none" -> "recorded"
      [] event[k] # NoEvent /\ status[k] \in {"pending", "running"} -> "open"
      [] event[k] # NoEvent /\ status[k] = "completed" -> "handled"
      [] event[k] # NoEvent /\ status[k] = "dead" -> "parked"

Ledger == INSTANCE EventLedger
              WITH stage <- [k \in Keys |-> StageOf(k)], applied <- receipts

\* Seen from outside there are no workers: each event is recorded once with
\* one payload, handled once as a whole, or parked until it is reopened.
KeepsLedger == Ledger!LedgerSpec
==============================================================================
