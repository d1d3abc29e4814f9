--------------------------- MODULE MessageDelivery ---------------------------
(***************************************************************************)
(* The native message queue: members' messages to one contact are queued   *)
(* (src/communications/service.ts), claimed and handed to the SMS provider *)
(* (src/communications/worker.ts, providers.ts), and their state follows   *)
(* the provider's answer and the carrier's signed status callbacks, which  *)
(* come late, twice or out of order.                                        *)
(*                                                                          *)
(* The send runs outside any transaction: the worker may stop before it, or *)
(* after it and before the answer is recorded.  The claims of a message are *)
(* numbered by its attempts column; the number of the claim stands for its  *)
(* lease token and for the message id the carrier gives what it sent.       *)
(***************************************************************************)
EXTENDS Naturals, FiniteSets

CONSTANTS Deliveries,   \* CommunicationDelivery rows, all to one contact
          Workers,      \* processes polling the "communications" lane
          NoDelivery,   \* a worker holds no row
          MaxSends,     \* transport attempts per message (3)
          QueueLimit,   \* queued messages admitted per organization (1000)
          MaxCrashes    \* bound: workers that stop with a claim

ASSUME ConstantsAssumption ==
    /\ NoDelivery \notin Deliveries
    /\ MaxSends \in Nat \ {0}
    /\ QueueLimit \in Nat
    /\ MaxCrashes \in Nat

VARIABLES
    status,      \* CommunicationDelivery.status; "none" when there is no row
    attempts,    \* CommunicationDelivery.attempts
    leaseToken,  \* CommunicationDelivery.leaseToken; 0 is NULL
    leaseOver,   \* leasedUntil <= now
    due,         \* availableAt <= now
    overdue,     \* statusAt is 24 hours old
    externalId,  \* the provider's message id; 0 is NULL
    history,     \* the CommunicationAttempt rows, by eventKey
    optedOut,    \* the contact's DND flag and the address suppression
    permitted,   \* consent, destination, account, conversation and member
    pc,          \* where each worker is
    held,        \* the row and token of its claim
    answer,      \* what the provider answered it
    carrier,     \* the <<row, message id, stage>>s the carrier has gone through
    crashes

rowVars == <<status, attempts, leaseToken, leaseOver, due, overdue, externalId,
             history>>
contactVars == <<optedOut, permitted>>
workerVars == <<pc, held, answer>>
vars == <<rowVars, contactVars, workerVars, carrier, crashes>>

Statuses == {"none", "queued", "sending", "accepted", "sent", "delivered",
             "failed", "unknown", "cancelled"}
Terminal == {"delivered", "failed", "cancelled"}

\* What the carrier can report of a message; "opted_out" is error 21610.
Reports == {"accepted", "sent", "delivered", "failed", "opted_out"}
Stages == Reports \cup {"requested", "refused"}

\* A ProviderResult: status, message id, provider_opt_out, retryable.
Results == [status : {"accepted", "delivered", "failed", "unknown", "not_sent"},
            id : 0..MaxSends, opt : BOOLEAN, retryable : BOOLEAN]
Result(s, id, opt, retryable) ==
    [status |-> s, id |-> id, opt |-> opt, retryable |-> retryable]
Unknown == Result("unknown", 0, FALSE, FALSE)

NoClaim == [delivery |-> NoDelivery, token |-> 0]

\* eventKeys: `claim:<token>`, `result:<token>`, `expired:<token>`,
\* `receipt-timeout:<row>`, `blocked:<attempts>` and the hash of a callback.
Events == [kind : {"claim", "result", "expired", "timeout", "blocked"} \cup Reports,
           n : 0..MaxSends, opt : BOOLEAN]
Event(kind, n, opt) == [kind |-> kind, n |-> n, opt |-> opt]

TypeOK ==
    /\ status \in [Deliveries -> Statuses]
    /\ attempts \in [Deliveries -> 0..MaxSends]
    /\ leaseToken \in [Deliveries -> 0..MaxSends]
    /\ leaseOver \in [Deliveries -> BOOLEAN]
    /\ due \in [Deliveries -> BOOLEAN]
    /\ overdue \in [Deliveries -> BOOLEAN]
    /\ externalId \in [Deliveries -> 0..MaxSends]
    /\ history \in [Deliveries -> SUBSET Events]
    /\ optedOut \in BOOLEAN
    /\ permitted \in BOOLEAN
    /\ pc \in [Workers -> {"idle", "claimed", "calling", "returned"}]
    /\ held \in [Workers -> [delivery : Deliveries \cup {NoDelivery},
                             token : 0..MaxSends]]
    /\ answer \in [Workers -> Results]
    /\ carrier \subseteq Deliveries \X (1..MaxSends) \X Stages
    /\ crashes \in 0..MaxCrashes

Init ==
    /\ status = [d \in Deliveries |-> "none"]
    /\ attempts = [d \in Deliveries |-> 0]
    /\ leaseToken = [d \in Deliveries |-> 0]
    /\ leaseOver = [d \in Deliveries |-> FALSE]
    /\ due = [d \in Deliveries |-> FALSE]
    /\ overdue = [d \in Deliveries |-> FALSE]
    /\ externalId = [d \in Deliveries |-> 0]
    /\ history = [d \in Deliveries |-> {}]
    /\ optedOut = FALSE
    /\ permitted = TRUE
    /\ pc = [w \in Workers |-> "idle"]
    /\ held = [w \in Workers |-> NoClaim]
    /\ answer = [w \in Workers |-> Unknown]
    /\ carrier = {}
    /\ crashes = 0

------------------------------------------------------------------------------
(* Recording a status.                                                      *)

\* deliveryTransition: what a reported status makes of the current one.
DeliveryTransition(current, next) ==
    CASE current \in Terminal -> current
      [] current = "sent" /\ next = "accepted" -> current
      [] current \in {"accepted", "sent"} /\ next \in {"queued", "sending", "unknown"}
            -> current
      [] OTHER -> next

\* suppress, in the same transaction.  (It also revokes the consent, which
\* makes no difference once the suppression is there: nothing removes it.)
Suppress(opt) ==
    /\ optedOut' = (optedOut \/ opt)
    /\ UNCHANGED permitted

\* recordStatus on a row whose status is, at this point of the transaction,
\* current: an event seen before changes nothing; otherwise it joins the
\* history and the row takes the transition.  A message id that is not the
\* row's is a 409 (there is no step).
RecordStatus(d, current, reported, event, id) ==
    LET next == DeliveryTransition(current, reported) IN
    /\ id = 0 \/ externalId[d] \in {0, id}
    /\ IF event \in history[d]
       THEN /\ status' = [status EXCEPT ![d] = current]
            /\ UNCHANGED <<history, externalId, overdue, contactVars>>
       ELSE /\ history' = [history EXCEPT ![d] = @ \cup {event}]
            /\ status' = [status EXCEPT ![d] = next]
            /\ externalId' = [externalId EXCEPT ![d] = IF @ # 0 THEN @ ELSE id]
            /\ overdue' = [overdue EXCEPT ![d] = @ /\ next # reported]
            /\ Suppress(event.opt)

------------------------------------------------------------------------------
(* The member's side and the contact's.                                     *)

\* assertContactAllowed, and the worker's checks of what queued the message.
Allowed == ~optedOut /\ permitted

Queued == {d \in Deliveries : status[d] = "queued"}

\* enqueue: one row per idempotency key, refused when the contact may not be
\* written to or the organization's queue is full.
Enqueue(d) ==
    /\ status[d] = "none"
    /\ Allowed
    /\ Cardinality(Queued) < QueueLimit
    /\ status' = [status EXCEPT ![d] = "queued"]
    /\ due' = [due EXCEPT ![d] = TRUE]
    /\ UNCHANGED <<attempts, leaseToken, leaseOver, overdue, externalId, history,
                   contactVars, workerVars, carrier, crashes>>

\* captureMessage: an inbound STOP is suppressed where it is published.
OptOut ==
    /\ ~optedOut
    /\ Suppress(TRUE)
    /\ UNCHANGED <<rowVars, workerVars, carrier, crashes>>

\* consent, setEnabled, closing the conversation, editing the contact, the
\* member's deactivation: all of these can be undone.
ChangePermission ==
    /\ ~optedOut
    /\ permitted' = ~permitted
    /\ UNCHANGED <<optedOut, rowVars, workerVars, carrier, crashes>>

------------------------------------------------------------------------------
(* A worker's iteration, sendOnce: the first transaction takes one of four  *)
(* branches.                                                                *)

\* Mutant: a send whose lease ran out is queued again.
ExpireRequeues(w, d) ==
    /\ pc[w] = "idle"
    /\ status[d] = "sending"
    /\ leaseOver[d]
    /\ status' = [status EXCEPT ![d] = "queued"]
    /\ UNCHANGED <<attempts, leaseToken, leaseOver, due, overdue, externalId, history,
                   contactVars, workerVars, carrier, crashes>>

\* A lease ran out: the send may or may not have happened.  The token stays
\* on the row, so a late answer is still recorded.
ExpireLease(w, d) ==
    /\ pc[w] = "idle"
    /\ status[d] = "sending"
    /\ leaseOver[d]
    /\ RecordStatus(d, "sending", "unknown", Event("expired", leaseToken[d], FALSE),
                    externalId[d])
    /\ UNCHANGED <<attempts, leaseToken, leaseOver, due, workerVars, carrier, crashes>>

\* Mutant: the overdue row keeps its status until the transition.
OverdueKeepsStatus(w, d) ==
    /\ pc[w] = "idle"
    /\ status[d] \in {"accepted", "sent"}
    /\ overdue[d]
    /\ RecordStatus(d, status[d], "unknown", Event("timeout", 0, FALSE), externalId[d])
    /\ UNCHANGED <<attempts, leaseToken, leaseOver, due, workerVars, carrier, crashes>>

\* No receipt for 24 hours: the status is overwritten before recordStatus,
\* whose transition would have kept "accepted" and "sent".
ReceiptOverdue(w, d) ==
    /\ pc[w] = "idle"
    /\ status[d] \in {"accepted", "sent"}
    /\ overdue[d]
    /\ RecordStatus(d, "unknown", "unknown", Event("timeout", 0, FALSE), externalId[d])
    /\ UNCHANGED <<attempts, leaseToken, leaseOver, due, workerVars, carrier, crashes>>

MaySend(d) == Allowed /\ attempts[d] < MaxSends

Block(w, d) ==
    /\ pc[w] = "idle"
    /\ status[d] = "queued"
    /\ due[d]
    /\ ~MaySend(d)
    /\ RecordStatus(d, "queued", "cancelled", Event("blocked", attempts[d], FALSE), 0)
    /\ UNCHANGED <<attempts, leaseToken, leaseOver, due, workerVars, carrier, crashes>>

ClaimSend(w, d) ==
    LET token == attempts[d] + 1 IN
    /\ pc[w] = "idle"
    /\ status[d] = "queued"
    /\ due[d]
    /\ MaySend(d)
    /\ status' = [status EXCEPT ![d] = "sending"]
    /\ attempts' = [attempts EXCEPT ![d] = token]
    /\ leaseToken' = [leaseToken EXCEPT ![d] = token]
    /\ leaseOver' = [leaseOver EXCEPT ![d] = FALSE]
    /\ history' = [history EXCEPT ![d] = @ \cup {Event("claim", token, FALSE)}]
    /\ pc' = [pc EXCEPT ![w] = "claimed"]
    /\ held' = [held EXCEPT ![w] = [delivery |-> d, token |-> token]]
    /\ UNCHANGED <<due, overdue, externalId, contactVars, answer, carrier, crashes>>

Return(w, result) ==
    /\ pc' = [pc EXCEPT ![w] = "returned"]
    /\ answer' = [answer EXCEPT ![w] = result]
    /\ UNCHANGED <<held, carrier>>

\* The provider is not installed or not configured: no request is made.
NotSent(w) ==
    /\ pc[w] = "claimed"
    /\ Return(w, Result("not_sent", 0, FALSE, FALSE))
    /\ UNCHANGED <<rowVars, contactVars, crashes>>

Went(d, n, stage) == <<d, n, stage>> \in carrier

Post(w) ==
    /\ pc[w] = "claimed"
    /\ pc' = [pc EXCEPT ![w] = "calling"]
    /\ carrier' = carrier \cup {<<held[w].delivery, held[w].token, "requested">>}
    /\ UNCHANGED <<rowVars, contactVars, held, answer, crashes>>

\* Mutant: a timeout is answered as a request that was not sent.
SilenceIsNotSent(d, n) ==
    {Result("not_sent", 0, FALSE, TRUE)}
    \cup (IF Went(d, n, "accepted") THEN {Result("accepted", n, FALSE, FALSE)} ELSE {})

\* TwilioSmsProvider.sendSms: what it can answer, given what the carrier did.
\* A timeout, a 5xx or an unreadable receipt is possible whatever it did.
Answers(d, n) ==
    {Unknown}
    \cup (IF Went(d, n, "refused")
          THEN {Result("not_sent", 0, FALSE, TRUE)}
               \cup {Result("failed", 0, opt, FALSE) : opt \in BOOLEAN}
          ELSE {})
    \cup (IF Went(d, n, "accepted") THEN {Result("accepted", n, FALSE, FALSE)} ELSE {})
    \cup (IF Went(d, n, "delivered") THEN {Result("delivered", n, FALSE, FALSE)} ELSE {})
    \cup (IF Went(d, n, "failed") THEN {Result("failed", n, FALSE, FALSE)} ELSE {})
    \cup (IF Went(d, n, "opted_out") THEN {Result("failed", n, TRUE, FALSE)} ELSE {})

Answered(w) ==
    /\ pc[w] = "calling"
    /\ \E result \in Answers(held[w].delivery, held[w].token) : Return(w, result)
    /\ UNCHANGED <<rowVars, contactVars, crashes>>

Release(w) ==
    /\ pc' = [pc EXCEPT ![w] = "idle"]
    /\ held' = [held EXCEPT ![w] = NoClaim]
    /\ answer' = [answer EXCEPT ![w] = Unknown]

\* Only a conclusive and temporary refusal is retried.
Retry(d, result) ==
    result.status = "not_sent" /\ result.retryable /\ attempts[d] < MaxSends

Reported(d, result) ==
    CASE Retry(d, result) -> "queued"
      [] result.status = "not_sent" /\ ~Retry(d, result) -> "failed"
      [] OTHER -> result.status

\* The second transaction.  It drops the answer of a claim whose token is no
\* longer on the row, which AnswersLand shows never happens: only the claim's
\* own answer clears the token, and no new claim is made before that.
RecordResult(w, d) ==
    /\ pc[w] = "returned"
    /\ held[w] = [delivery |-> d, token |-> leaseToken[d]]
    /\ RecordStatus(d, status[d], Reported(d, answer[w]),
                    Event("result", held[w].token, answer[w].opt), answer[w].id)
    /\ leaseToken' = [leaseToken EXCEPT ![d] = 0]
    /\ leaseOver' = [leaseOver EXCEPT ![d] = FALSE]
    /\ due' = [due EXCEPT ![d] = @ /\ ~Retry(d, answer[w])]
    /\ Release(w)
    /\ UNCHANGED <<attempts, carrier, crashes>>

\* The process stops, before or after its request reached the carrier.
Crash(w) ==
    /\ pc[w] # "idle"
    /\ crashes < MaxCrashes
    /\ crashes' = crashes + 1
    /\ Release(w)
    /\ UNCHANGED <<rowVars, contactVars, carrier>>

------------------------------------------------------------------------------
(* The carrier and its callbacks, and time.                                 *)

\* The request may arrive after the worker has stopped waiting for it.
CarrierTakes(d, n) ==
    /\ Went(d, n, "requested")
    /\ ~Went(d, n, "accepted") /\ ~Went(d, n, "refused")
    /\ \E stage \in {"accepted", "refused"} : carrier' = carrier \cup {<<d, n, stage>>}
    /\ UNCHANGED <<rowVars, contactVars, workerVars, crashes>>

CarrierMoves(d, n) ==
    /\ Went(d, n, "accepted")
    /\ \A s \in {"delivered", "failed", "opted_out"} : ~Went(d, n, s)
    /\ \E stage \in Reports \ {"accepted"} :
          ~Went(d, n, stage) /\ carrier' = carrier \cup {<<d, n, stage>>}
    /\ UNCHANGED <<rowVars, contactVars, workerVars, crashes>>

\* processDeliveryStatus: a callback for any stage the carrier has been
\* through, any number of times and in any order.
Callback(d, n, report) ==
    /\ Went(d, n, report)
    /\ attempts[d] # 0
    /\ RecordStatus(d, status[d], IF report = "opted_out" THEN "failed" ELSE report,
                    Event(report, n, report = "opted_out"), n)
    /\ UNCHANGED <<attempts, leaseToken, leaseOver, due, workerVars, carrier, crashes>>

\* 60 seconds, the backoff of 20 or 40 seconds, and 24 hours.
LeaseEnds(d) ==
    /\ status[d] = "sending"
    /\ ~leaseOver[d]
    /\ leaseOver' = [leaseOver EXCEPT ![d] = TRUE]
    /\ UNCHANGED <<status, attempts, leaseToken, due, overdue, externalId, history,
                   contactVars, workerVars, carrier, crashes>>

BackoffEnds(d) ==
    /\ status[d] = "queued"
    /\ ~due[d]
    /\ due' = [due EXCEPT ![d] = TRUE]
    /\ UNCHANGED <<status, attempts, leaseToken, leaseOver, overdue, externalId,
                   history, contactVars, workerVars, carrier, crashes>>

DayPasses(d) ==
    /\ status[d] \in {"accepted", "sent"}
    /\ ~overdue[d]
    /\ overdue' = [overdue EXCEPT ![d] = TRUE]
    /\ UNCHANGED <<status, attempts, leaseToken, leaseOver, due, externalId, history,
                   contactVars, workerVars, carrier, crashes>>

------------------------------------------------------------------------------
Prepare(w, d) ==
    ExpireLease(w, d) \/ ReceiptOverdue(w, d) \/ Block(w, d) \/ ClaimSend(w, d)

Call(w) == NotSent(w) \/ Post(w) \/ Answered(w)

Finish(w) == \E d \in Deliveries : RecordResult(w, d)

Carrier(d, n) ==
    \/ CarrierTakes(d, n)
    \/ CarrierMoves(d, n)
    \/ \E report \in Reports : Callback(d, n, report)

Next ==
    \/ \E d \in Deliveries : Enqueue(d)
    \/ OptOut
    \/ ChangePermission
    \/ \E w \in Workers, d \in Deliveries : Prepare(w, d)
    \/ \E w \in Workers : Call(w) \/ Finish(w) \/ Crash(w)
    \/ \E d \in Deliveries, n \in 1..MaxSends : Carrier(d, n)
    \/ \E d \in Deliveries : LeaseEnds(d) \/ BackoffEnds(d) \/ DayPasses(d)

Spec == Init /\ [][Next]_vars

\* Workers poll, the provider call ends within its 10-second timeout, and
\* time passes.  Rows are taken oldest first, so none is passed over for ever.
\* Nothing is assumed of the carrier or its callbacks.
Fairness ==
    /\ \A d \in Deliveries :
          /\ WF_vars(\E w \in Workers : Prepare(w, d))
          /\ WF_vars(LeaseEnds(d))
          /\ WF_vars(BackoffEnds(d))
          /\ WF_vars(DayPasses(d))
    /\ \A w \in Workers : WF_vars(Call(w)) /\ WF_vars(Finish(w))

FairSpec == Spec /\ Fairness

------------------------------------------------------------------------------
(* Properties.                                                              *)

\* A message is never sent twice: whatever answers are lost, leases run out
\* or workers stop, the carrier accepts at most one of a message's requests.
AtMostOneAcceptance ==
    \A d \in Deliveries :
        Cardinality({n \in 1..MaxSends : Went(d, n, "accepted")}) <= 1

\* A provider's answer always finds its claim on the row, even when it comes
\* after the lease ran out and the message was marked unknown.
AnswersLand ==
    \A w \in Workers : pc[w] # "idle" =>
        held[w].token = leaseToken[held[w].delivery]

\* The recorded status is never more than the carrier's own evidence allows:
\* a message that waits or was cancelled was certainly never accepted, a
\* delivered one was delivered, a failed one was refused or failed.
StatusIsEvidence ==
    \A d \in Deliveries :
        LET Ever(stage) == \E n \in 1..MaxSends : Went(d, n, stage) IN
        /\ status[d] \in {"queued", "cancelled"} => ~Ever("accepted")
        /\ status[d] = "delivered" => Ever("delivered")
        /\ status[d] = "failed" =>
              ~Ever("accepted") \/ Ever("failed") \/ Ever("opted_out")

\* A final status is final, in whatever order and however often callbacks and
\* late answers arrive.
FinalStays ==
    [][\A d \in Deliveries : status[d] \in Terminal => status'[d] = status[d]]_vars

\* An opt-out, whether the contact wrote STOP or the carrier reported one for
\* any message, stops every message still waiting: no further claim is made.
OptOutStopsSends ==
    [][(optedOut \/ \E d \in Deliveries : \E e \in history[d] : e.opt)
          => attempts' = attempts]_vars

\* No message is forgotten: each ends delivered, failed, cancelled or in the
\* visible "unknown", even if no callback ever comes.
EveryMessageResolves ==
    \A d \in Deliveries :
        (status[d] # "none") ~> (status[d] \in Terminal \cup {"unknown"})

\* docs/COMMUNICATIONS.md: "Replayed or out-of-order statuses cannot downgrade
\* delivered/sent into acceptance."
NoDowngrade ==
    \A d \in Deliveries :
        (\E e \in history[d] : e.kind \in {"sent", "delivered"})
            => status[d] # "accepted"
==============================================================================
