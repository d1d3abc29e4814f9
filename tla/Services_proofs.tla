---------------------------- MODULE Services_proofs ----------------------------
(***************************************************************************)
(* Proofs about the two services that pay a provider per call: managed     *)
(* messages (MessageDelivery) and live demo sessions (DemoSession).        *)
(*                                                                         *)
(* Messages, "never sent twice".  A claim is numbered, and the number goes *)
(* up only when the carrier refused the claim before: the row is queued    *)
(* again only by an answer that says so, and a token is on the row from    *)
(* the claim to its own answer.  So of all claims but the last the carrier *)
(* refused each, and the last is made by one worker, once.                 *)
(*                                                                         *)
(* Demos, "never more than the session pays for".  A turn of a chat is     *)
(* claimed before the model is called, so the replies made and the turns   *)
(* claimed together are at most the turns of the row; a voice session has  *)
(* one request that makes its call, and a call made leaves no other to.    *)
(* While no request outlived its marker, one request at a time holds a     *)
(* turn and read the transcript of the row: what it stores is longer.      *)
(***************************************************************************)
EXTENDS MessageDelivery, DemoSession, FiniteSetTheorems, TLAPS

USE ConstantsAssumption

\* What the carrier has done is in order: it refused every claim but the last.
CarrierInv ==
    \A d \in Deliveries, n \in 1..MaxSends :
        /\ \A s \in Stages : Went(d, n, s) => Went(d, n, "requested") /\ n <= attempts[d]
        /\ \A s \in Stages \ {"requested", "refused"} : Went(d, n, s) => Went(d, n, "accepted")
        /\ Went(d, n, "accepted") => ~Went(d, n, "refused")
        /\ n < attempts[d] => Went(d, n, "refused")

\* The token of a row is the number of its last claim, and at most one worker
\* has that claim.
TokenInv ==
    /\ \A d \in Deliveries :
          /\ leaseToken[d] \in {0, attempts[d]}
          /\ status[d] \in {"none", "queued", "cancelled"} => leaseToken[d] = 0
    /\ \A w \in Workers : pc[w] # "idle" =>
          /\ held[w].delivery \in Deliveries
          /\ held[w].token # 0
          /\ held[w].token = leaseToken[held[w].delivery]
    /\ \A w, v \in Workers :
          pc[w] # "idle" /\ pc[v] # "idle" /\ held[w].delivery = held[v].delivery => w = v

\* What a result says of a claim was so when the provider gave it.
Supports(d, n, result) ==
    /\ result.status = "not_sent" =>
          IF result.retryable THEN Went(d, n, "refused") ELSE ~Went(d, n, "requested")
    /\ result.status = "delivered" => Went(d, n, "delivered")
    /\ result.status = "failed" =>
          Went(d, n, "refused") \/ Went(d, n, "failed") \/ Went(d, n, "opted_out")

AnswerInv ==
    \A w \in Workers :
        /\ pc[w] = "claimed" => ~Went(held[w].delivery, held[w].token, "requested")
        /\ pc[w] = "returned" => Supports(held[w].delivery, held[w].token, answer[w])

\* No claim up to n is taken: the carrier refused it, or it was never asked
\* and never will be.
Untaken(d, n) ==
    Went(d, n, "refused") \/ (~Went(d, n, "requested") /\ leaseToken[d] = 0)

Failed(d) ==
    \/ \E n \in 1..MaxSends : Went(d, n, "failed") \/ Went(d, n, "opted_out")
    \/ \A n \in 1..attempts[d] : Untaken(d, n)

EvidenceInv ==
    \A d \in Deliveries :
        /\ status[d] = "none" => attempts[d] = 0
        /\ status[d] \in {"queued", "cancelled"} =>
              \A n \in 1..attempts[d] : Went(d, n, "refused")
        /\ status[d] = "delivered" => \E n \in 1..MaxSends : Went(d, n, "delivered")
        /\ status[d] = "failed" => Failed(d)

\* An event that reports an opt-out is recorded together with it.
OptOutInv == \A d \in Deliveries : \A e \in history[d] : e.opt => optedOut

IInv == TypeOK /\ CarrierInv /\ TokenInv /\ AnswerInv /\ EvidenceInv /\ OptOutInv

------------------------------------------------------------------------------
(* Recording a status.                                                      *)

\* A transition keeps the status or takes the reported one; a final status
\* stays, and nothing leads back to "queued" or "cancelled" but a report of it.
LEMMA TransitionChoice ==
    ASSUME NEW current, NEW next
    PROVE  /\ DeliveryTransition(current, next) \in {current, next}
           /\ current \in Terminal => DeliveryTransition(current, next) = current
<1>1. CASE current \in Terminal
  BY <1>1 DEF DeliveryTransition
<1>2. CASE current \notin Terminal /\ current = "sent" /\ next = "accepted"
  BY <1>2 DEF DeliveryTransition
<1>3. CASE /\ current \notin Terminal /\ ~(current = "sent" /\ next = "accepted")
           /\ current \in {"accepted", "sent"} /\ next \in {"queued", "sending", "unknown"}
  BY <1>3 DEF DeliveryTransition
<1>4. CASE /\ current \notin Terminal /\ ~(current = "sent" /\ next = "accepted")
           /\ ~(current \in {"accepted", "sent"} /\ next \in {"queued", "sending", "unknown"})
  BY <1>4 DEF DeliveryTransition
<1>5. QED
  BY <1>1, <1>2, <1>3, <1>4

\* What recordStatus writes: the old status or the reported one, to one row.
LEMMA RecordedStatus ==
    ASSUME NEW d, NEW current, NEW reported, NEW event, NEW id,
           RecordStatus(d, current, reported, event, id)
    PROVE  \E s \in {current, reported} :
               /\ status' = [status EXCEPT ![d] = s]
               /\ current \in Terminal => s = current
<1>1. CASE event \in history[d]
  BY <1>1 DEF RecordStatus
<1>2. CASE event \notin history[d]
  <2>1. status' = [status EXCEPT ![d] = DeliveryTransition(current, reported)]
    BY <1>2 DEF RecordStatus
  <2>2. QED
    BY <2>1, TransitionChoice
<1>3. QED
  BY <1>1, <1>2

\* The rest of it: the event joins the history of that row, with its opt-out.
LEMMA RecordEffect ==
    ASSUME TypeOK, NEW d \in Deliveries, NEW current \in Statuses,
           NEW reported \in Statuses, NEW event \in Events, NEW id \in 0..MaxSends,
           RecordStatus(d, current, reported, event, id)
    PROVE  /\ externalId' \in [Deliveries -> 0..MaxSends]
           /\ overdue' \in [Deliveries -> BOOLEAN]
           /\ \A c \in Deliveries : history'[c] \subseteq history[c] \cup {event}
           /\ history' \in [Deliveries -> SUBSET Events]
           /\ optedOut' \in BOOLEAN /\ permitted' \in BOOLEAN
           /\ optedOut => optedOut'
           /\ \A c \in Deliveries : \A e \in history'[c] : e \notin history[c] /\ e.opt => optedOut'
<1>1. CASE event \in history[d]
  BY <1>1 DEF RecordStatus, TypeOK, contactVars
<1>2. CASE event \notin history[d]
  <2>1. /\ history' = [history EXCEPT ![d] = @ \cup {event}]
        /\ status' = [status EXCEPT ![d] = DeliveryTransition(current, reported)]
        /\ externalId' = [externalId EXCEPT ![d] = IF @ # 0 THEN @ ELSE id]
        /\ overdue' = [overdue EXCEPT ![d] =
                         @ /\ DeliveryTransition(current, reported) # reported]
        /\ Suppress(event.opt)
    BY <1>2 DEF RecordStatus
  <2>2. event.opt \in BOOLEAN
    BY DEF Events
  <2>3. optedOut' = (optedOut \/ event.opt) /\ permitted' = permitted
    BY <2>1 DEF Suppress
  <2>4. /\ \A c \in Deliveries : history'[c] \subseteq history[c] \cup {event}
        /\ history' \in [Deliveries -> SUBSET Events]
    BY <2>1 DEF TypeOK
  <2>5. overdue' \in [Deliveries -> BOOLEAN]
    BY <2>1 DEF TypeOK
  <2>6. externalId' \in [Deliveries -> 0..MaxSends]
    BY <2>1 DEF TypeOK
  <2>7. QED
    BY <2>1, <2>2, <2>3, <2>4, <2>5, <2>6 DEF TypeOK
<1>3. QED
  BY <1>1, <1>2

\* What an answer is recorded as.
LEMMA ReportedChoice ==
    ASSUME NEW d, NEW result
    PROVE  /\ Retry(d, result) => Reported(d, result) = "queued"
           /\ result.status = "not_sent" /\ ~Retry(d, result) => Reported(d, result) = "failed"
           /\ result.status # "not_sent" => Reported(d, result) = result.status
<1>1. CASE Retry(d, result)
  BY <1>1 DEF Reported, Retry
<1>2. CASE result.status = "not_sent" /\ ~Retry(d, result)
  BY <1>2 DEF Reported
<1>3. CASE result.status # "not_sent"
  <2>1. ~Retry(d, result)
    BY <1>3 DEF Retry
  <2>2. QED
    BY <1>3, <2>1 DEF Reported
<1>4. QED
  BY <1>1, <1>2, <1>3

\* The statuses and events the queue records.
LEMMA ReportedType ==
    ASSUME TypeOK, NEW d \in Deliveries, NEW w \in Workers
    PROVE  /\ Reported(d, answer[w]) \in Statuses
           /\ Event("result", held[w].token, answer[w].opt) \in Events
           /\ answer[w].id \in 0..MaxSends
<1>1. answer[w].status \in {"accepted", "delivered", "failed", "unknown", "not_sent"}
  BY DEF TypeOK, Results
<1>2. Reported(d, answer[w]) \in Statuses
  BY <1>1, ReportedChoice DEF Statuses
<1>3. QED
  BY <1>2 DEF TypeOK, Results, Event, Events

------------------------------------------------------------------------------
(* Every row, worker and message of the carrier always has its type.        *)

LEMMA TypeInit == Init => TypeOK
<1>1. Unknown \in Results
  BY DEF Unknown, Result, Results
<1>2. NoClaim \in [delivery : Deliveries \cup {NoDelivery}, token : 0..MaxSends]
  BY DEF NoClaim
<1>3. ASSUME Init
      PROVE  /\ status \in [Deliveries -> Statuses]
             /\ attempts \in [Deliveries -> 0..MaxSends]
             /\ leaseToken \in [Deliveries -> 0..MaxSends]
             /\ externalId \in [Deliveries -> 0..MaxSends]
             /\ crashes \in 0..MaxCrashes
  BY <1>3 DEF Init, Statuses
<1>4. ASSUME Init
      PROVE  /\ leaseOver \in [Deliveries -> BOOLEAN]
             /\ due \in [Deliveries -> BOOLEAN]
             /\ overdue \in [Deliveries -> BOOLEAN]
             /\ history \in [Deliveries -> SUBSET Events]
             /\ optedOut \in BOOLEAN /\ permitted \in BOOLEAN
  BY <1>4 DEF Init
<1>5. ASSUME Init
      PROVE  /\ pc \in [Workers -> {"idle", "claimed", "calling", "returned"}]
             /\ held \in [Workers -> [delivery : Deliveries \cup {NoDelivery},
                                      token : 0..MaxSends]]
             /\ answer \in [Workers -> Results]
             /\ carrier \subseteq Deliveries \X (1..MaxSends) \X Stages
  BY <1>1, <1>2, <1>5 DEF Init
<1>6. QED
  BY <1>3, <1>4, <1>5 DEF TypeOK

LEMMA ReleaseType ==
    ASSUME TypeOK, NEW w \in Workers, Release(w)
    PROVE  /\ pc' \in [Workers -> {"idle", "claimed", "calling", "returned"}]
           /\ held' \in [Workers -> [delivery : Deliveries \cup {NoDelivery},
                                     token : 0..MaxSends]]
           /\ answer' \in [Workers -> Results]
BY DEF TypeOK, Release, NoClaim, Unknown, Result, Results

LEMMA AnswersType ==
    ASSUME NEW d, NEW n \in 0..MaxSends
    PROVE  Answers(d, n) \subseteq Results
<1>1. /\ \A s \in {"accepted", "delivered", "failed"}, opt \in BOOLEAN :
            Result(s, n, opt, FALSE) \in Results /\ Result(s, 0, opt, FALSE) \in Results
      /\ Result("not_sent", 0, FALSE, TRUE) \in Results /\ Unknown \in Results
  BY DEF Unknown, Result, Results
<1>2. QED
  BY <1>1 DEF Answers

\* A recorded status leaves the row well typed.
LEMMA RecordType ==
    ASSUME TypeOK, NEW d \in Deliveries, NEW current \in Statuses,
           NEW reported \in Statuses, NEW event \in Events, NEW id \in 0..MaxSends,
           RecordStatus(d, current, reported, event, id)
    PROVE  /\ status' \in [Deliveries -> Statuses]
           /\ externalId' \in [Deliveries -> 0..MaxSends]
           /\ overdue' \in [Deliveries -> BOOLEAN]
           /\ history' \in [Deliveries -> SUBSET Events]
           /\ optedOut' \in BOOLEAN /\ permitted' \in BOOLEAN
<1>1. PICK s \in {current, reported} : status' = [status EXCEPT ![d] = s]
  BY RecordedStatus
<1>2. status' \in [Deliveries -> Statuses]
  BY <1>1 DEF TypeOK
<1>3. QED
  BY <1>2, RecordEffect

\* A worker that sends holds a row, and that is TokenInv.
LEMMA TypeStep == TypeOK /\ TokenInv /\ [Next]_vars => TypeOK'
<1> SUFFICES ASSUME TypeOK, TokenInv, [Next]_vars
             PROVE  TypeOK'
  OBVIOUS
<1> USE DEF rowVars, contactVars, workerVars
<1>1. ASSUME NEW d \in Deliveries, Enqueue(d)
      PROVE  TypeOK'
  BY <1>1 DEF TypeOK, Enqueue, Statuses
<1>2. CASE OptOut \/ ChangePermission
  BY <1>2 DEF TypeOK, OptOut, ChangePermission, Suppress
<1>3. ASSUME NEW w \in Workers, NEW d \in Deliveries, Prepare(w, d)
      PROVE  TypeOK'
  <2>1. CASE ExpireLease(w, d)
    <3>1. /\ Event("expired", leaseToken[d], FALSE) \in Events
          /\ {"sending", "unknown"} \subseteq Statuses /\ externalId[d] \in 0..MaxSends
      BY DEF TypeOK, Statuses, Event, Events
    <3>2. RecordStatus(d, "sending", "unknown", Event("expired", leaseToken[d], FALSE),
                       externalId[d])
      BY <2>1 DEF ExpireLease
    <3>3. UNCHANGED <<attempts, leaseToken, leaseOver, due, workerVars, carrier, crashes>>
      BY <2>1 DEF ExpireLease
    <3>4. QED
      BY <3>1, <3>2, <3>3, RecordType DEF TypeOK
  <2>2. CASE ReceiptOverdue(w, d)
    <3>1. /\ Event("timeout", 0, FALSE) \in Events
          /\ "unknown" \in Statuses /\ externalId[d] \in 0..MaxSends
      BY DEF TypeOK, Statuses, Event, Events
    <3>2. RecordStatus(d, "unknown", "unknown", Event("timeout", 0, FALSE), externalId[d])
      BY <2>2 DEF ReceiptOverdue
    <3>3. UNCHANGED <<attempts, leaseToken, leaseOver, due, workerVars, carrier, crashes>>
      BY <2>2 DEF ReceiptOverdue
    <3>4. QED
      BY <3>1, <3>2, <3>3, RecordType DEF TypeOK
  <2>3. CASE Block(w, d)
    <3>1. /\ Event("blocked", attempts[d], FALSE) \in Events
          /\ {"queued", "cancelled"} \subseteq Statuses /\ 0 \in 0..MaxSends
      BY DEF TypeOK, Statuses, Event, Events
    <3>2. RecordStatus(d, "queued", "cancelled", Event("blocked", attempts[d], FALSE), 0)
      BY <2>3 DEF Block
    <3>3. UNCHANGED <<attempts, leaseToken, leaseOver, due, workerVars, carrier, crashes>>
      BY <2>3 DEF Block
    <3>4. QED
      BY <3>1, <3>2, <3>3, RecordType DEF TypeOK
  <2>4. CASE ClaimSend(w, d)
    <3>1. attempts[d] + 1 \in 0..MaxSends
      BY <2>4 DEF TypeOK, ClaimSend, MaySend
    <3>2. Event("claim", attempts[d] + 1, FALSE) \in Events
      BY <3>1 DEF Event, Events
    <3>3. history' \in [Deliveries -> SUBSET Events]
      BY <2>4, <3>2 DEF TypeOK, ClaimSend
    <3>4. held' \in [Workers -> [delivery : Deliveries \cup {NoDelivery}, token : 0..MaxSends]]
      BY <2>4, <3>1 DEF TypeOK, ClaimSend
    <3>5. QED
      BY <2>4, <3>1, <3>3, <3>4 DEF TypeOK, ClaimSend, Statuses
  <2>5. QED
    BY <1>3, <2>1, <2>2, <2>3, <2>4 DEF Prepare
<1>4. ASSUME NEW w \in Workers, Call(w)
      PROVE  TypeOK'
  <2>1. CASE NotSent(w)
    BY <2>1 DEF TypeOK, NotSent, Return, Result, Results
  <2>2. CASE Post(w)
    <3>1. held[w].delivery \in Deliveries /\ held[w].token \in 1..MaxSends
      BY <2>2 DEF TypeOK, TokenInv, Post
    <3>2. QED
      BY <2>2, <3>1 DEF TypeOK, Post, Stages
  <2>3. CASE Answered(w)
    <3>1. PICK result \in Answers(held[w].delivery, held[w].token) : Return(w, result)
      BY <2>3 DEF Answered
    <3>2. result \in Results
      BY <3>1, AnswersType DEF TypeOK
    <3>3. QED
      BY <2>3, <3>1, <3>2 DEF TypeOK, Answered, Return
  <2>4. QED
    BY <1>4, <2>1, <2>2, <2>3 DEF Call

<1>5. ASSUME NEW w \in Workers, NEW d \in Deliveries, RecordResult(w, d)
      PROVE  TypeOK'
  <2>1. /\ RecordStatus(d, status[d], Reported(d, answer[w]),
                        Event("result", held[w].token, answer[w].opt), answer[w].id)
        /\ leaseToken' = [leaseToken EXCEPT ![d] = 0]
        /\ leaseOver' = [leaseOver EXCEPT ![d] = FALSE]
        /\ due' = [due EXCEPT ![d] = @ /\ ~Retry(d, answer[w])]
        /\ Release(w)
        /\ UNCHANGED <<attempts, carrier, crashes>>
    BY <1>5 DEF RecordResult
  <2>2. status[d] \in Statuses
    BY DEF TypeOK
  <2>3. due' \in [Deliveries -> BOOLEAN]
    BY <2>1 DEF TypeOK
  <2>4. QED
    BY <2>1, <2>2, <2>3, ReportedType, RecordType, ReleaseType DEF TypeOK
<1>6. ASSUME NEW w \in Workers, Crash(w)
      PROVE  TypeOK'
  BY <1>6, ReleaseType DEF TypeOK, Crash
<1>7. ASSUME NEW d \in Deliveries, NEW n \in 1..MaxSends, Carrier(d, n)
      PROVE  TypeOK'
  <2>1. CASE CarrierTakes(d, n) \/ CarrierMoves(d, n)
    <3>1. PICK stage \in Stages : carrier' = carrier \cup {<<d, n, stage>>}
      <4>1. CASE CarrierTakes(d, n)
        BY <4>1 DEF CarrierTakes, Stages, Reports
      <4>2. CASE CarrierMoves(d, n)
        BY <4>2 DEF CarrierMoves, Stages, Reports
      <4>3. QED
        BY <2>1, <4>1, <4>2
    <3>2. carrier' \subseteq Deliveries \X (1..MaxSends) \X Stages
      BY <3>1 DEF TypeOK
    <3>3. QED
      BY <2>1, <3>2 DEF TypeOK, CarrierTakes, CarrierMoves
  <2>2. ASSUME NEW report \in Reports, Callback(d, n, report)
        PROVE  TypeOK'
    <3>1. /\ Event(report, n, report = "opted_out") \in Events
          /\ (IF report = "opted_out" THEN "failed" ELSE report) \in Statuses
          /\ status[d] \in Statuses /\ n \in 0..MaxSends
      BY DEF TypeOK, Reports, Statuses, Event, Events
    <3>2. RecordStatus(d, status[d], IF report = "opted_out" THEN "failed" ELSE report,
                       Event(report, n, report = "opted_out"), n)
      BY <2>2 DEF Callback
    <3>3. UNCHANGED <<attempts, leaseToken, leaseOver, due, workerVars, carrier, crashes>>
      BY <2>2 DEF Callback
    <3>4. QED
      BY <3>1, <3>2, <3>3, RecordType DEF TypeOK
  <2>3. QED
    BY <1>7, <2>1, <2>2 DEF Carrier
<1>8. ASSUME NEW d \in Deliveries, LeaseEnds(d) \/ BackoffEnds(d) \/ DayPasses(d)
      PROVE  TypeOK'
  BY <1>8 DEF TypeOK, LeaseEnds, BackoffEnds, DayPasses
<1>9. CASE UNCHANGED vars
  BY <1>9 DEF TypeOK, vars
<1>10. QED
  BY <1>1, <1>2, <1>3, <1>4, <1>5, <1>6, <1>7, <1>8, <1>9 DEF Next, Finish

------------------------------------------------------------------------------
(* What a step can be.                                                      *)

\* Nothing the invariant speaks of changes.
Quiet == UNCHANGED <<status, attempts, leaseToken, history, workerVars, carrier>>

\* A status that the row of d may take without a claim or an answer.
News(d, s) ==
    \/ s = status[d]
    \/ s = "unknown" /\ status[d] \in {"sending", "accepted", "sent"}
    \/ s = "cancelled" /\ status[d] = "queued"
    \/ status[d] \notin Terminal /\ \E n \in 1..MaxSends :
          \/ s \in {"accepted", "sent", "delivered", "failed"} /\ Went(d, n, s)
          \/ s = "failed" /\ Went(d, n, "opted_out")

Told(d) ==
    /\ \E s \in Statuses : status' = [status EXCEPT ![d] = s] /\ News(d, s)
    /\ UNCHANGED <<attempts, leaseToken, workerVars, carrier>>

CarrierActs(d, n) ==
    /\ \E stage \in Stages \ {"requested"} :
          /\ carrier' = carrier \cup {<<d, n, stage>>}
          /\ IF stage \in {"accepted", "refused"}
             THEN Went(d, n, "requested") /\ ~Went(d, n, "accepted") /\ ~Went(d, n, "refused")
             ELSE Went(d, n, "accepted")
    /\ UNCHANGED <<rowVars, contactVars, workerVars, crashes>>

\* Expired leases, overdue receipts, blocked messages and callbacks only tell
\* a row something.
LEMMA PrepareTells ==
    ASSUME TypeOK, NEW w \in Workers, NEW d \in Deliveries,
           ExpireLease(w, d) \/ ReceiptOverdue(w, d) \/ Block(w, d)
    PROVE  Told(d)
<1>1. CASE ExpireLease(w, d)
  <2>1. /\ RecordStatus(d, "sending", "unknown", Event("expired", leaseToken[d], FALSE),
                        externalId[d])
        /\ Event("expired", leaseToken[d], FALSE) \in Events
        /\ "sending" \in Statuses /\ "unknown" \in Statuses /\ externalId[d] \in 0..MaxSends
        /\ status[d] = "sending"
    BY <1>1 DEF ExpireLease, TypeOK, Statuses, Event, Events
  <2>2. PICK s \in {"sending", "unknown"} :
            /\ status' = [status EXCEPT ![d] = s]
            /\ "sending" \in Terminal => s = "sending"
    <3>1. RecordStatus(d, "sending", "unknown", Event("expired", leaseToken[d], FALSE),
                       externalId[d])
      BY <2>1
    <3>2. QED
      BY <3>1, RecordedStatus, Zenon
  <2>3. QED
    BY <1>1, <2>1, <2>2 DEF ExpireLease, Told, News
<1>2. CASE ReceiptOverdue(w, d)
  <2>1. /\ RecordStatus(d, "unknown", "unknown", Event("timeout", 0, FALSE), externalId[d])
        /\ Event("timeout", 0, FALSE) \in Events
        /\ "unknown" \in Statuses /\ externalId[d] \in 0..MaxSends
        /\ status[d] \in {"accepted", "sent"}
    BY <1>2 DEF ReceiptOverdue, TypeOK, Statuses, Event, Events
  <2>2. status' = [status EXCEPT ![d] = "unknown"]
    BY <2>1, RecordedStatus
  <2>3. QED
    BY <1>2, <2>1, <2>2 DEF ReceiptOverdue, Told, News
<1>3. CASE Block(w, d)
  <2>1. /\ RecordStatus(d, "queued", "cancelled", Event("blocked", attempts[d], FALSE), 0)
        /\ Event("blocked", attempts[d], FALSE) \in Events
        /\ "queued" \in Statuses /\ "cancelled" \in Statuses /\ 0 \in 0..MaxSends
        /\ status[d] = "queued"
    BY <1>3 DEF Block, TypeOK, Statuses, Event, Events
  <2>2. PICK s \in {"queued", "cancelled"} :
            /\ status' = [status EXCEPT ![d] = s]
            /\ "queued" \in Terminal => s = "queued"
    <3>1. RecordStatus(d, "queued", "cancelled", Event("blocked", attempts[d], FALSE), 0)
      BY <2>1
    <3>2. QED
      BY <3>1, RecordedStatus, Zenon
  <2>3. QED
    BY <1>3, <2>1, <2>2 DEF Block, Told, News
<1>4. QED
  BY <1>1, <1>2, <1>3

LEMMA CallbackTells ==
    ASSUME TypeOK, NEW d \in Deliveries, NEW n \in 1..MaxSends, NEW report \in Reports,
           Callback(d, n, report)
    PROVE  Told(d)
<1> DEFINE said == IF report = "opted_out" THEN "failed" ELSE report
<1>1. /\ RecordStatus(d, status[d], said, Event(report, n, report = "opted_out"), n)
      /\ Event(report, n, report = "opted_out") \in Events
      /\ said \in Statuses /\ status[d] \in Statuses /\ n \in 0..MaxSends
  BY DEF Callback, TypeOK, Statuses, Reports, Event, Events
<1>2. PICK s \in {status[d], said} : /\ status' = [status EXCEPT ![d] = s]
                                     /\ status[d] \in Terminal => s = status[d]
  BY <1>1, RecordedStatus
<1>3. News(d, s)
  BY <1>2 DEF Callback, News, Reports
<1>4. QED
  BY <1>1, <1>2, <1>3 DEF Callback, Told

\* An answer is recorded on its own row, as what ReportedChoice says, and a
\* final status stays.
LEMMA ResultEffect ==
    ASSUME TypeOK, NEW w \in Workers, NEW d \in Deliveries, RecordResult(w, d)
    PROVE  \E s \in {status[d], Reported(d, answer[w])} :
               /\ status' = [status EXCEPT ![d] = s]
               /\ status[d] \in Terminal => s = status[d]
<1>1. /\ RecordStatus(d, status[d], Reported(d, answer[w]),
                      Event("result", held[w].token, answer[w].opt), answer[w].id)
      /\ status[d] \in Statuses
  BY DEF RecordResult, TypeOK
<1>2. QED
  BY <1>1, RecordedStatus

\* Every step is one of these.
LEMMA StepCases ==
    ASSUME TypeOK, [Next]_vars
    PROVE  \/ Quiet
           \/ \E d \in Deliveries : Enqueue(d) \/ Told(d)
           \/ \E w \in Workers, d \in Deliveries : ClaimSend(w, d) \/ RecordResult(w, d)
           \/ \E w \in Workers : NotSent(w) \/ Post(w) \/ Answered(w) \/ Crash(w)
           \/ \E d \in Deliveries, n \in 1..MaxSends : CarrierActs(d, n)
<1>1. CASE OptOut \/ ChangePermission \/ UNCHANGED vars
  BY <1>1 DEF OptOut, ChangePermission, Quiet, vars, rowVars, workerVars
<1>2. ASSUME NEW d \in Deliveries, LeaseEnds(d) \/ BackoffEnds(d) \/ DayPasses(d)
      PROVE  Quiet
  BY <1>2 DEF LeaseEnds, BackoffEnds, DayPasses, Quiet
<1>3. ASSUME NEW w \in Workers, NEW d \in Deliveries, Prepare(w, d)
      PROVE  Told(d) \/ ClaimSend(w, d)
  BY <1>3, PrepareTells DEF Prepare
<1>4. ASSUME NEW d \in Deliveries, NEW n \in 1..MaxSends, Carrier(d, n)
      PROVE  Told(d) \/ CarrierActs(d, n) \/ Quiet
  <2>1. CASE CarrierTakes(d, n)
    BY <2>1 DEF CarrierTakes, CarrierActs, Stages, Reports
  <2>2. CASE CarrierMoves(d, n)
    <3>1. PICK stage \in Reports \ {"accepted"} : carrier' = carrier \cup {<<d, n, stage>>}
      BY <2>2 DEF CarrierMoves
    <3>2. stage \in Stages \ {"requested", "accepted", "refused"}
      BY <3>1 DEF Stages, Reports
    <3>3. Went(d, n, "accepted") /\ UNCHANGED <<rowVars, contactVars, workerVars, crashes>>
      BY <2>2 DEF CarrierMoves
    <3>4. QED
      BY <3>1, <3>2, <3>3 DEF CarrierActs
  <2>3. ASSUME NEW report \in Reports, Callback(d, n, report)
        PROVE  Told(d)
    BY <2>3, CallbackTells
  <2>4. QED
    BY <1>4, <2>1, <2>2, <2>3 DEF Carrier
<1>5. QED
  BY <1>1, <1>2, <1>3, <1>4 DEF Next, Call, Finish

------------------------------------------------------------------------------
(* The inductive invariant, one lemma per conjunct.                         *)

\* What the carrier did stays done.
LEMMA CarrierInvStep ==
    TypeOK /\ CarrierInv /\ TokenInv /\ EvidenceInv /\ [Next]_vars => CarrierInv'
<1> SUFFICES ASSUME TypeOK, CarrierInv, TokenInv, EvidenceInv, [Next]_vars
             PROVE  CarrierInv'
  OBVIOUS
<1>1. CASE UNCHANGED <<attempts, carrier>>
  BY <1>1 DEF CarrierInv, Went
<1>2. ASSUME NEW w \in Workers, NEW d \in Deliveries, ClaimSend(w, d)
      PROVE  CarrierInv'
  <2>1. \A n \in 1..attempts[d] : Went(d, n, "refused")
    BY <1>2 DEF ClaimSend, EvidenceInv
  <2>2. attempts' = [attempts EXCEPT ![d] = @ + 1] /\ carrier' = carrier
    BY <1>2 DEF ClaimSend
  <2>3. \A c \in Deliveries : /\ attempts'[c] = IF c = d THEN attempts[d] + 1 ELSE attempts[c]
                              /\ attempts[c] \in Nat
    BY <2>2 DEF TypeOK
  <2>4. \A c, n, s : Went(c, n, s)' <=> Went(c, n, s)
    BY <2>2 DEF Went
  <2>5. ASSUME NEW c \in Deliveries, NEW n \in 1..MaxSends
        PROVE  /\ \A s \in Stages : Went(c, n, s) => n <= attempts'[c]
               /\ n < attempts'[c] => Went(c, n, "refused")
    <3>1. /\ \A s \in Stages : Went(c, n, s) => n <= attempts[c]
          /\ n < attempts[c] => Went(c, n, "refused")
      BY DEF CarrierInv
    <3>2. QED
      BY <2>1, <2>3, <3>1
  <2>6. QED
    BY <2>4, <2>5 DEF CarrierInv
<1>3. ASSUME NEW w \in Workers, Post(w)
      PROVE  CarrierInv'
  <2> DEFINE d == held[w].delivery
             n == held[w].token
  <2>1. d \in Deliveries /\ n = attempts[d] /\ n \in Nat
    BY <1>3 DEF Post, TokenInv, TypeOK
  <2>2. carrier' = carrier \cup {<<d, n, "requested">>} /\ attempts' = attempts
    BY <1>3 DEF Post, rowVars
  <2> HIDE DEF d, n
  <2>3. \A c, m, s : Went(c, m, s)' <=>
           Went(c, m, s) \/ (c = d /\ m = n /\ s = "requested")
    BY <2>2 DEF Went
  <2>4. QED
    BY <2>1, <2>2, <2>3 DEF CarrierInv
<1>4. ASSUME NEW d \in Deliveries, NEW n \in 1..MaxSends, CarrierActs(d, n)
      PROVE  CarrierInv'
  <2>1. PICK stage \in Stages \ {"requested"} :
            /\ carrier' = carrier \cup {<<d, n, stage>>}
            /\ IF stage \in {"accepted", "refused"}
               THEN Went(d, n, "requested") /\ ~Went(d, n, "accepted") /\ ~Went(d, n, "refused")
               ELSE Went(d, n, "accepted")
    BY <1>4 DEF CarrierActs
  <2>2. attempts' = attempts
    BY <1>4 DEF CarrierActs, rowVars
  <2>3. \A c, m, s : Went(c, m, s)' <=> Went(c, m, s) \/ (c = d /\ m = n /\ s = stage)
    BY <2>1 DEF Went
  <2>4. Went(d, n, "requested") /\ n <= attempts[d]
    BY <2>1 DEF CarrierInv, Stages, Reports
  <2>5. QED
    BY <2>1, <2>2, <2>3, <2>4 DEF CarrierInv
<1>5. QED
  BY <1>1, <1>2, <1>3, <1>4, StepCases
     DEF Quiet, Enqueue, Told, RecordResult, NotSent, Answered, Return, Crash, rowVars

\* A claim is made where no token is, so it is the only one of its row.
LEMMA TokenInvStep ==
    TypeOK /\ TokenInv /\ EvidenceInv /\ [Next]_vars => TokenInv'
<1> SUFFICES ASSUME TypeOK, TokenInv, EvidenceInv, [Next]_vars
             PROVE  TokenInv'
  OBVIOUS
<1>1. CASE Quiet
  BY <1>1 DEF Quiet, TokenInv, workerVars
<1>2. ASSUME NEW d \in Deliveries, Enqueue(d) \/ Told(d)
      PROVE  TokenInv'
  <2>1. /\ \E s \in Statuses : /\ status' = [status EXCEPT ![d] = s]
                               /\ s \in {"none", "queued", "cancelled"} =>
                                     status[d] \in {"none", "queued", "cancelled"}
        /\ UNCHANGED <<attempts, leaseToken, workerVars>>
    BY <1>2 DEF Enqueue, Told, News, Statuses
  <2>2. QED
    BY <2>1 DEF TypeOK, TokenInv, workerVars
<1>3. ASSUME NEW w \in Workers, NEW d \in Deliveries, ClaimSend(w, d)
      PROVE  TokenInv'
  <2>1. /\ status' = [status EXCEPT ![d] = "sending"]
        /\ attempts' = [attempts EXCEPT ![d] = @ + 1]
        /\ leaseToken' = [leaseToken EXCEPT ![d] = attempts[d] + 1]
        /\ pc' = [pc EXCEPT ![w] = "claimed"]
        /\ held' = [held EXCEPT ![w] = [delivery |-> d, token |-> attempts[d] + 1]]
    BY <1>3 DEF ClaimSend
  <2>2. \A v \in Workers : pc[v] # "idle" => held[v].delivery # d
    BY <1>3 DEF ClaimSend, TokenInv
  <2>3. \A v \in Workers : held'[v] =
           IF v = w THEN [delivery |-> d, token |-> attempts[d] + 1] ELSE held[v]
    BY <2>1 DEF TypeOK
  <2>4. \A v \in Workers : pc'[v] = IF v = w THEN "claimed" ELSE pc[v]
    BY <2>1 DEF TypeOK
  <2>5. \A c \in Deliveries : /\ leaseToken'[c] \in {0, attempts'[c]}
                              /\ c # d => leaseToken'[c] = leaseToken[c]
                              /\ status'[c] \in {"none", "queued", "cancelled"} =>
                                    leaseToken'[c] = 0
    BY <2>1 DEF TypeOK, TokenInv
  <2>6. leaseToken'[d] = attempts[d] + 1 /\ attempts[d] + 1 # 0
    BY <2>1 DEF TypeOK
  <2>7. QED
    BY <2>2, <2>3, <2>4, <2>5, <2>6 DEF TokenInv
<1>4. ASSUME NEW w \in Workers, NotSent(w) \/ Post(w) \/ Answered(w)
      PROVE  TokenInv'
  <2>1. /\ \E s \in {"calling", "returned"} : pc' = [pc EXCEPT ![w] = s]
        /\ pc[w] # "idle"
        /\ UNCHANGED <<status, attempts, leaseToken, held>>
    BY <1>4 DEF NotSent, Post, Answered, Return, rowVars
  <2>2. \A v \in Workers : pc'[v] # "idle" => pc[v] # "idle"
    BY <2>1 DEF TypeOK
  <2>3. QED
    BY <2>1, <2>2 DEF TokenInv
<1>5. ASSUME NEW w \in Workers, NEW d \in Deliveries, RecordResult(w, d)
      PROVE  TokenInv'
  <2>1. /\ leaseToken' = [leaseToken EXCEPT ![d] = 0] /\ attempts' = attempts
        /\ pc[w] # "idle" /\ held[w].delivery = d /\ leaseToken[d] # 0
    BY <1>5 DEF RecordResult, TokenInv, NoClaim
  <2>2. \A v \in Workers : pc'[v] # "idle" => /\ v # w /\ pc[v] # "idle"
                                              /\ held'[v] = held[v]
    BY <1>5 DEF RecordResult, Release, TypeOK
  <2>3. \A c \in Deliveries : c # d => status'[c] = status[c]
    BY <1>5, ResultEffect DEF TypeOK
  <2>4. QED
    BY <2>1, <2>2, <2>3 DEF TypeOK, TokenInv
<1>6. ASSUME NEW w \in Workers, Crash(w)
      PROVE  TokenInv'
  <2>1. \A v \in Workers : pc'[v] # "idle" => pc[v] # "idle" /\ held'[v] = held[v]
    BY <1>6 DEF Crash, Release, TypeOK
  <2>2. QED
    BY <1>6, <2>1 DEF Crash, TokenInv, rowVars
<1>7. ASSUME NEW d \in Deliveries, NEW n \in 1..MaxSends, CarrierActs(d, n)
      PROVE  TokenInv'
  BY <1>7 DEF CarrierActs, TokenInv, rowVars, workerVars
<1>8. QED
  BY <1>1, <1>2, <1>3, <1>4, <1>5, <1>6, <1>7, StepCases

\* What the provider can answer is supported by what the carrier did.
LEMMA AnswersSupport ==
    ASSUME NEW d, NEW n, NEW result \in Answers(d, n)
    PROVE  Supports(d, n, result)
BY DEF Answers, Supports, Unknown, Result

\* Nobody else sends under a worker's claim.
LEMMA AnswerInvStep ==
    TypeOK /\ CarrierInv /\ TokenInv /\ AnswerInv /\ [Next]_vars => AnswerInv'
<1> SUFFICES ASSUME TypeOK, CarrierInv, TokenInv, AnswerInv, [Next]_vars
             PROVE  AnswerInv'
  OBVIOUS
<1>1. CASE UNCHANGED <<workerVars, carrier>>
  BY <1>1 DEF AnswerInv, Supports, Went, workerVars
<1>2. ASSUME NEW w \in Workers, NEW d \in Deliveries, ClaimSend(w, d)
      PROVE  AnswerInv'
  <2>1. /\ pc' = [pc EXCEPT ![w] = "claimed"]
        /\ held' = [held EXCEPT ![w] = [delivery |-> d, token |-> attempts[d] + 1]]
        /\ UNCHANGED <<answer, carrier>> /\ attempts[d] < MaxSends
    BY <1>2 DEF ClaimSend, MaySend
  <2>2. ~Went(d, attempts[d] + 1, "requested")
    <3>1. attempts[d] + 1 \in 1..MaxSends /\ ~(attempts[d] + 1 <= attempts[d])
      BY <2>1 DEF TypeOK
    <3>2. QED
      BY <3>1 DEF CarrierInv, Stages
  <2>3. \A v \in Workers : v # w => pc'[v] = pc[v] /\ held'[v] = held[v]
    BY <2>1 DEF TypeOK
  <2>4. pc'[w] = "claimed" /\ held'[w].delivery = d /\ held'[w].token = attempts[d] + 1
    BY <2>1 DEF TypeOK
  <2>5. \A c, n, s : Went(c, n, s)' <=> Went(c, n, s)
    BY <2>1 DEF Went
  <2>6. ASSUME NEW v \in Workers
        PROVE  /\ pc'[v] = "claimed" => ~Went(held'[v].delivery, held'[v].token, "requested")
               /\ pc'[v] = "returned" => Supports(held'[v].delivery, held'[v].token, answer[v])
    BY <2>2, <2>3, <2>4 DEF AnswerInv
  <2>7. QED
    BY <2>1, <2>5, <2>6 DEF AnswerInv, Supports
<1>3. ASSUME NEW w \in Workers, Post(w)
      PROVE  AnswerInv'
  <2>1. /\ pc[w] = "claimed" /\ pc' = [pc EXCEPT ![w] = "calling"]
        /\ carrier' = carrier \cup {<<held[w].delivery, held[w].token, "requested">>}
        /\ UNCHANGED <<held, answer>>
    BY <1>3 DEF Post
  <2>2. ASSUME NEW v \in Workers, pc'[v] \in {"claimed", "returned"}
        PROVE  /\ pc[v] = pc'[v]
               /\ \A s : Went(held[v].delivery, held[v].token, s)' <=>
                         Went(held[v].delivery, held[v].token, s)
    <3>1. v # w /\ pc[v] = pc'[v]
      BY <2>1, <2>2 DEF TypeOK
    <3>2. held[v].delivery # held[w].delivery
      BY <2>1, <2>2, <3>1 DEF TokenInv
    <3>3. QED
      BY <2>1, <3>1, <3>2 DEF Went
  <2>3. QED
    BY <2>1, <2>2 DEF AnswerInv, Supports
<1>4. ASSUME NEW w \in Workers, NotSent(w) \/ Answered(w)
      PROVE  AnswerInv'
  <2>1. PICK result : /\ Supports(held[w].delivery, held[w].token, result)
                      /\ Return(w, result)
    <3>1. CASE NotSent(w)
      <4>1. Supports(held[w].delivery, held[w].token, Result("not_sent", 0, FALSE, FALSE))
        BY <3>1 DEF NotSent, AnswerInv, Supports, Result
      <4>2. QED
        BY <3>1, <4>1 DEF NotSent
    <3>2. CASE Answered(w)
      BY <3>2, AnswersSupport DEF Answered
    <3>3. QED
      BY <1>4, <3>1, <3>2
  <2>2. /\ pc' = [pc EXCEPT ![w] = "returned"] /\ answer' = [answer EXCEPT ![w] = result]
        /\ UNCHANGED <<held, carrier>>
    BY <2>1 DEF Return
  <2>3. ASSUME NEW v \in Workers
        PROVE  /\ pc'[v] = "claimed" => ~Went(held[v].delivery, held[v].token, "requested")
               /\ pc'[v] = "returned" => Supports(held[v].delivery, held[v].token, answer'[v])
    BY <2>1, <2>2 DEF TypeOK, AnswerInv
  <2>4. QED
    BY <2>2, <2>3 DEF AnswerInv, Supports, Went
<1>5. ASSUME NEW w \in Workers, Release(w), carrier' = carrier
      PROVE  AnswerInv'
  <2>1. \A v \in Workers : pc'[v] # "idle" =>
           pc'[v] = pc[v] /\ held'[v] = held[v] /\ answer'[v] = answer[v]
    BY <1>5 DEF Release, TypeOK
  <2>2. QED
    BY <1>5, <2>1 DEF AnswerInv, Supports, Went
<1>6. ASSUME NEW d \in Deliveries, NEW n \in 1..MaxSends, CarrierActs(d, n)
      PROVE  AnswerInv'
  <2>1. PICK stage \in Stages \ {"requested"} :
            /\ carrier' = carrier \cup {<<d, n, stage>>}
            /\ Went(d, n, "requested")
    <3>1. PICK stage \in Stages \ {"requested"} :
              /\ carrier' = carrier \cup {<<d, n, stage>>}
              /\ Went(d, n, "requested") \/ Went(d, n, "accepted")
      BY <1>6 DEF CarrierActs
    <3>2. QED
      BY <3>1 DEF CarrierInv, Stages, Reports
  <2>2. UNCHANGED workerVars
    BY <1>6 DEF CarrierActs
  <2>3. \A c, m, s : /\ Went(c, m, s) => Went(c, m, s)'
                     /\ Went(c, m, "requested")' => Went(c, m, "requested")
    BY <2>1 DEF Went
  <2>4. QED
    BY <2>2, <2>3 DEF AnswerInv, Supports, workerVars
<1>7. QED
  BY <1>1, <1>2, <1>3, <1>4, <1>5, <1>6, StepCases
     DEF Quiet, Enqueue, Told, RecordResult, Crash

\* A status says no more than what the carrier did.
LEMMA EvidenceInvStep ==
    TypeOK /\ CarrierInv /\ TokenInv /\ AnswerInv /\ EvidenceInv /\ [Next]_vars => EvidenceInv'
<1> SUFFICES ASSUME TypeOK, CarrierInv, TokenInv, AnswerInv, EvidenceInv, [Next]_vars
             PROVE  EvidenceInv'
  OBVIOUS
\* What holds of a row whose status, attempts and token are as before.
<1>1. ASSUME NEW d \in Deliveries,
             status'[d] = status[d], attempts'[d] = attempts[d],
             leaseToken'[d] = leaseToken[d] \/ leaseToken'[d] = 0,
             \A n, s : Went(d, n, s) => Went(d, n, s)',
             leaseToken[d] # 0 \/ \A n : Went(d, n, "requested")' => Went(d, n, "requested")
      PROVE  /\ status'[d] = "none" => attempts'[d] = 0
             /\ status'[d] \in {"queued", "cancelled"} =>
                   \A n \in 1..attempts'[d] : Went(d, n, "refused")'
             /\ status'[d] = "delivered" => \E n \in 1..MaxSends : Went(d, n, "delivered")'
             /\ status'[d] = "failed" => Failed(d)'
  <2>1. CASE status[d] # "failed"
    BY <1>1, <2>1 DEF EvidenceInv
  <2>2. ASSUME status[d] = "failed", NEW n \in 1..MaxSends,
               Went(d, n, "failed") \/ Went(d, n, "opted_out")
        PROVE  Failed(d)'
    BY <1>1, <2>2 DEF Failed
  <2>3. ASSUME status[d] = "failed", \A n \in 1..attempts[d] : Untaken(d, n)
        PROVE  Failed(d)'
    <3>1. \A n \in 1..attempts'[d] : Untaken(d, n)'
      BY <1>1, <2>3 DEF Untaken
    <3>2. QED
      BY <3>1 DEF Failed
  <2>4. QED
    BY <1>1, <2>1, <2>2, <2>3 DEF EvidenceInv, Failed
<1>2. CASE UNCHANGED <<status, attempts, leaseToken, carrier>>
  <2>1. ASSUME NEW d \in Deliveries
        PROVE  /\ status'[d] = status[d] /\ attempts'[d] = attempts[d]
               /\ leaseToken'[d] = leaseToken[d]
               /\ \A n, s : Went(d, n, s)' <=> Went(d, n, s)
    BY <1>2 DEF Went
  <2>2. QED
    BY <1>1, <2>1 DEF EvidenceInv

<1>3. ASSUME NEW d \in Deliveries, Enqueue(d)
      PROVE  EvidenceInv'
  <2>1. /\ status[d] = "none" /\ status' = [status EXCEPT ![d] = "queued"]
        /\ UNCHANGED <<attempts, leaseToken, carrier>>
    BY <1>3 DEF Enqueue
  <2>2. attempts[d] = 0 /\ status'[d] = "queued"
    BY <2>1 DEF TypeOK, EvidenceInv
  <2>3. ASSUME NEW c \in Deliveries, c # d
        PROVE  /\ status'[c] = status[c] /\ attempts'[c] = attempts[c]
               /\ leaseToken'[c] = leaseToken[c]
    BY <2>1, <2>3 DEF TypeOK
  <2>4. \A c, n, s : Went(c, n, s)' <=> Went(c, n, s)
    BY <2>1 DEF Went
  <2>5. QED
    BY <1>1, <2>1, <2>2, <2>3, <2>4 DEF EvidenceInv
<1>4. ASSUME NEW d \in Deliveries, Told(d)
      PROVE  EvidenceInv'
  <2>1. PICK s \in Statuses : status' = [status EXCEPT ![d] = s] /\ News(d, s)
    BY <1>4 DEF Told
  <2>2. UNCHANGED <<attempts, leaseToken, carrier>>
    BY <1>4 DEF Told
  <2>3. \A c, n, t : Went(c, n, t)' <=> Went(c, n, t)
    BY <2>2 DEF Went
  <2>4. ASSUME NEW c \in Deliveries, c # d
        PROVE  /\ status'[c] = status[c] /\ attempts'[c] = attempts[c]
               /\ leaseToken'[c] = leaseToken[c]
    BY <2>1, <2>2, <2>4 DEF TypeOK
  <2>5. status'[d] = s
    BY <2>1 DEF TypeOK
  <2>6. CASE s = status[d]
    BY <1>1, <2>2, <2>3, <2>4, <2>5, <2>6 DEF EvidenceInv
  <2>7. CASE s = "unknown"
    BY <1>1, <2>2, <2>3, <2>4, <2>5, <2>7 DEF EvidenceInv
  <2>8. CASE s = "cancelled" /\ status[d] = "queued"
    <3>1. \A n \in 1..attempts'[d] : Went(d, n, "refused")'
      BY <2>2, <2>3, <2>8 DEF EvidenceInv
    <3>2. QED
      BY <1>1, <2>2, <2>3, <2>4, <2>5, <2>8, <3>1 DEF EvidenceInv
  <2>9. ASSUME NEW n \in 1..MaxSends,
               \/ s \in {"accepted", "sent", "delivered", "failed"} /\ Went(d, n, s)
               \/ s = "failed" /\ Went(d, n, "opted_out")
        PROVE  EvidenceInv'
    <3>1. s = "delivered" => Went(d, n, "delivered")'
      BY <2>3, <2>9
    <3>2. s = "failed" => Failed(d)'
      BY <2>3, <2>9 DEF Failed
    <3>3. s \notin {"none", "queued", "cancelled"}
      BY <2>9
    <3>4. QED
      BY <1>1, <2>2, <2>3, <2>4, <2>5, <3>1, <3>2, <3>3 DEF EvidenceInv
  <2>10. QED
    BY <2>1, <2>6, <2>7, <2>8, <2>9 DEF News
<1>5. ASSUME NEW w \in Workers, NEW d \in Deliveries, ClaimSend(w, d)
      PROVE  EvidenceInv'
  <2>1. /\ status' = [status EXCEPT ![d] = "sending"]
        /\ attempts' = [attempts EXCEPT ![d] = @ + 1]
        /\ leaseToken' = [leaseToken EXCEPT ![d] = attempts[d] + 1]
        /\ carrier' = carrier
    BY <1>5 DEF ClaimSend
  <2>2. ASSUME NEW c \in Deliveries, c # d
        PROVE  /\ status'[c] = status[c] /\ attempts'[c] = attempts[c]
               /\ leaseToken'[c] = leaseToken[c]
    BY <2>1, <2>2 DEF TypeOK
  <2>3. status'[d] = "sending"
    BY <2>1 DEF TypeOK
  <2>4. \A c, n, s : Went(c, n, s)' <=> Went(c, n, s)
    BY <2>1 DEF Went
  <2>5. QED
    BY <1>1, <2>2, <2>3, <2>4 DEF EvidenceInv
<1>6. ASSUME NEW w \in Workers, Post(w)
      PROVE  EvidenceInv'
  <2>1. /\ pc[w] = "claimed" /\ UNCHANGED <<status, attempts, leaseToken>>
        /\ carrier' = carrier \cup {<<held[w].delivery, held[w].token, "requested">>}
    BY <1>6 DEF Post, rowVars
  <2>2. leaseToken[held[w].delivery] # 0
    BY <2>1 DEF TokenInv
  <2>3. ASSUME NEW d \in Deliveries
        PROVE  /\ status'[d] = status[d] /\ attempts'[d] = attempts[d]
               /\ leaseToken'[d] = leaseToken[d]
               /\ \A n, s : Went(d, n, s) => Went(d, n, s)'
               /\ leaseToken[d] # 0 \/ \A n : Went(d, n, "requested")' => Went(d, n, "requested")
    BY <2>1, <2>2 DEF Went
  <2>4. QED
    BY <1>1, <2>3 DEF EvidenceInv
<1>7. ASSUME NEW w \in Workers, NEW d \in Deliveries, RecordResult(w, d)
      PROVE  EvidenceInv'
  <2> DEFINE n == held[w].token
  <2>1. /\ pc[w] = "returned" /\ held[w].delivery = d /\ n = leaseToken[d]
        /\ leaseToken' = [leaseToken EXCEPT ![d] = 0]
        /\ UNCHANGED <<attempts, carrier>>
    BY <1>7 DEF RecordResult
  <2>2. n = attempts[d] /\ n \in 1..MaxSends
    BY <2>1 DEF TokenInv, TypeOK
  <2>3. Supports(d, n, answer[w])
    BY <2>1 DEF AnswerInv
  <2>4. PICK s \in {status[d], Reported(d, answer[w])} : status' = [status EXCEPT ![d] = s]
    BY <1>7, ResultEffect
  <2>5. \A c, m, t : Went(c, m, t)' <=> Went(c, m, t)
    BY <2>1 DEF Went
  <2>6. ASSUME NEW c \in Deliveries, c # d
        PROVE  /\ status'[c] = status[c] /\ attempts'[c] = attempts[c]
               /\ leaseToken'[c] = leaseToken[c]
    BY <2>1, <2>4, <2>6 DEF TypeOK
  <2>7. status'[d] = s /\ leaseToken'[d] = 0 /\ attempts'[d] = attempts[d]
    BY <2>1, <2>4 DEF TypeOK
  <2>8. CASE s = status[d]
    BY <1>1, <2>5, <2>6, <2>7, <2>8 DEF EvidenceInv
  <2>9. CASE s = Reported(d, answer[w])
    <3>1. \A m \in 1..attempts[d] : m # n => Went(d, m, "refused")
      <4>1. attempts[d] \in 1..MaxSends
        BY <2>2
      <4>2. \A m \in 1..attempts[d] :
               m # attempts[d] => m \in 1..MaxSends /\ m < attempts[d]
        BY <4>1
      <4>3. QED
        BY <2>2, <4>2 DEF CarrierInv
    <3>2. answer[w].status \in {"accepted", "delivered", "failed", "unknown", "not_sent"}
      BY DEF TypeOK, Results
    <3>3. CASE Retry(d, answer[w])
      <4>1. s = "queued" /\ Went(d, n, "refused")
        BY <2>3, <2>9, <3>3, ReportedChoice DEF Retry, Supports
      <4>2. \A m \in 1..attempts'[d] : Went(d, m, "refused")'
        BY <2>5, <2>7, <3>1, <4>1
      <4>3. QED
        BY <1>1, <2>5, <2>6, <2>7, <4>1, <4>2 DEF EvidenceInv
    <3>4. CASE answer[w].status = "not_sent" /\ ~Retry(d, answer[w])
      <4>1. s = "failed" /\ (Went(d, n, "refused") \/ ~Went(d, n, "requested"))
        BY <2>3, <2>9, <3>4, ReportedChoice DEF Supports
      <4>2. \A m \in 1..attempts'[d] : Untaken(d, m)'
        BY <2>5, <2>7, <3>1, <4>1 DEF Untaken
      <4>3. Failed(d)'
        BY <4>2 DEF Failed
      <4>4. QED
        BY <1>1, <2>5, <2>6, <2>7, <4>1, <4>3 DEF EvidenceInv
    <3>5. CASE answer[w].status # "not_sent"
      <4>1. s = answer[w].status
        BY <2>9, <3>5, ReportedChoice
      <4>2. s = "delivered" => \E m \in 1..MaxSends : Went(d, m, "delivered")'
        BY <2>2, <2>3, <2>5, <4>1 DEF Supports
      <4>3. ASSUME s = "failed"
            PROVE  Failed(d)'
        <5>1. CASE Went(d, n, "refused")
          <6>1. \A m \in 1..attempts'[d] : Untaken(d, m)'
            BY <2>5, <2>7, <3>1, <5>1 DEF Untaken
          <6>2. QED
            BY <6>1 DEF Failed
        <5>2. CASE Went(d, n, "failed") \/ Went(d, n, "opted_out")
          BY <2>2, <2>5, <5>2 DEF Failed
        <5>3. QED
          BY <2>3, <4>1, <4>3, <5>1, <5>2 DEF Supports
      <4>4. s \notin {"none", "queued", "cancelled"}
        BY <3>2, <3>5, <4>1
      <4>5. QED
        BY <1>1, <2>5, <2>6, <2>7, <4>2, <4>3, <4>4 DEF EvidenceInv
    <3>6. QED
      BY <3>3, <3>4, <3>5 DEF Retry
  <2>10. QED
    BY <2>4, <2>8, <2>9
<1>8. ASSUME NEW d \in Deliveries, NEW n \in 1..MaxSends, CarrierActs(d, n)
      PROVE  EvidenceInv'
  <2>1. PICK stage \in Stages \ {"requested"} : carrier' = carrier \cup {<<d, n, stage>>}
    BY <1>8 DEF CarrierActs
  <2>2. UNCHANGED <<status, attempts, leaseToken>>
    BY <1>8 DEF CarrierActs, rowVars
  <2>3. \A c, m, s : /\ Went(c, m, s) => Went(c, m, s)'
                     /\ Went(c, m, "requested")' => Went(c, m, "requested")
    BY <2>1 DEF Went
  <2>4. QED
    BY <1>1, <2>2, <2>3 DEF EvidenceInv
<1>9. QED
  BY <1>2, <1>3, <1>4, <1>5, <1>6, <1>7, <1>8, StepCases
     DEF Quiet, NotSent, Answered, Return, Crash, rowVars

------------------------------------------------------------------------------
(* Opt-outs.                                                                *)

\* Whatever a step adds to the history of a row, an opt-out in it is recorded
\* in the same step, and no step takes an opt-out back.
LEMMA LoggedStep ==
    TypeOK /\ [Next]_vars =>
        /\ optedOut => optedOut'
        /\ \A c \in Deliveries : \A e \in history'[c] :
              e \in history[c] \/ (e.opt => optedOut')
<1> DEFINE Logged == /\ optedOut => optedOut'
                     /\ \A c \in Deliveries : \A e \in history'[c] :
                           e \in history[c] \/ (e.opt => optedOut')
<1> SUFFICES ASSUME TypeOK, [Next]_vars
             PROVE  Logged
  OBVIOUS
<1>1. CASE UNCHANGED <<history, optedOut>>
  BY <1>1
<1>2. CASE OptOut
  BY <1>2 DEF OptOut, Suppress, rowVars
<1>3. ASSUME NEW w \in Workers, NEW d \in Deliveries, Prepare(w, d)
      PROVE  Logged
  <2>1. CASE ExpireLease(w, d)
    <3>1. /\ RecordStatus(d, "sending", "unknown", Event("expired", leaseToken[d], FALSE),
                          externalId[d])
          /\ Event("expired", leaseToken[d], FALSE) \in Events
          /\ "sending" \in Statuses /\ "unknown" \in Statuses /\ externalId[d] \in 0..MaxSends
      BY <2>1 DEF ExpireLease, TypeOK, Statuses, Event, Events
    <3>2. QED
      BY <3>1, RecordEffect
  <2>2. CASE ReceiptOverdue(w, d)
    <3>1. /\ RecordStatus(d, "unknown", "unknown", Event("timeout", 0, FALSE), externalId[d])
          /\ Event("timeout", 0, FALSE) \in Events
          /\ "unknown" \in Statuses /\ externalId[d] \in 0..MaxSends
      BY <2>2 DEF ReceiptOverdue, TypeOK, Statuses, Event, Events
    <3>2. QED
      BY <3>1, RecordEffect
  <2>3. CASE Block(w, d)
    <3>1. /\ RecordStatus(d, "queued", "cancelled", Event("blocked", attempts[d], FALSE), 0)
          /\ Event("blocked", attempts[d], FALSE) \in Events
          /\ "queued" \in Statuses /\ "cancelled" \in Statuses /\ 0 \in 0..MaxSends
      BY <2>3 DEF Block, TypeOK, Statuses, Event, Events
    <3>2. QED
      BY <3>1, RecordEffect
  <2>4. CASE ClaimSend(w, d)
    <3>1. /\ history' = [history EXCEPT ![d] = @ \cup {Event("claim", attempts[d] + 1, FALSE)}]
          /\ optedOut' = optedOut
      BY <2>4 DEF ClaimSend, contactVars
    <3>2. ~Event("claim", attempts[d] + 1, FALSE).opt
      BY DEF Event
    <3>3. \A c \in Deliveries :
             history'[c] \subseteq history[c] \cup {Event("claim", attempts[d] + 1, FALSE)}
      BY <3>1 DEF TypeOK
    <3>4. QED
      BY <3>1, <3>2, <3>3
  <2>5. QED
    BY <1>3, <2>1, <2>2, <2>3, <2>4 DEF Prepare
<1>4. ASSUME NEW w \in Workers, NEW d \in Deliveries, RecordResult(w, d)
      PROVE  Logged
  <2>1. RecordStatus(d, status[d], Reported(d, answer[w]),
                     Event("result", held[w].token, answer[w].opt), answer[w].id)
    BY <1>4 DEF RecordResult
  <2>2. status[d] \in Statuses
    BY DEF TypeOK
  <2>3. QED
    BY <2>1, <2>2, ReportedType, RecordEffect
<1>5. ASSUME NEW d \in Deliveries, NEW n \in 1..MaxSends, NEW report \in Reports,
             Callback(d, n, report)
      PROVE  Logged
  <2> DEFINE said == IF report = "opted_out" THEN "failed" ELSE report
  <2>1. /\ RecordStatus(d, status[d], said, Event(report, n, report = "opted_out"), n)
        /\ Event(report, n, report = "opted_out") \in Events
        /\ said \in Statuses /\ status[d] \in Statuses /\ n \in 0..MaxSends
    BY <1>5 DEF Callback, TypeOK, Statuses, Reports, Event, Events
  <2>2. QED
    BY <2>1, RecordEffect
<1>6. ASSUME NEW d \in Deliveries, NEW n \in 1..MaxSends, CarrierTakes(d, n) \/ CarrierMoves(d, n)
      PROVE  UNCHANGED <<history, optedOut>>
  BY <1>6 DEF CarrierTakes, CarrierMoves, rowVars, contactVars
<1>7. ASSUME NEW w \in Workers, Call(w) \/ Crash(w)
      PROVE  UNCHANGED <<history, optedOut>>
  BY <1>7 DEF Call, NotSent, Post, Answered, Crash, rowVars, contactVars
<1>8. ASSUME NEW d \in Deliveries, Enqueue(d) \/ LeaseEnds(d) \/ BackoffEnds(d) \/ DayPasses(d)
      PROVE  UNCHANGED <<history, optedOut>>
  BY <1>8 DEF Enqueue, LeaseEnds, BackoffEnds, DayPasses, contactVars
<1>9. CASE ChangePermission \/ UNCHANGED vars
  BY <1>1, <1>9 DEF ChangePermission, vars, rowVars, contactVars
<1>10. QED
  BY <1>1, <1>2, <1>3, <1>4, <1>5, <1>6, <1>7, <1>8, <1>9 DEF Next, Finish, Carrier

LEMMA OptOutInvStep == TypeOK /\ OptOutInv /\ [Next]_vars => OptOutInv'
BY LoggedStep DEF OptOutInv

------------------------------------------------------------------------------
(* The theorems.                                                            *)

\* The invariant holds before anything is queued.
LEMMA IInvInit == Init => IInv
<1> SUFFICES ASSUME Init
             PROVE  IInv
  OBVIOUS
<1>1. TypeOK
  BY TypeInit
<1>2. \A d, n, s : ~Went(d, n, s)
  BY DEF Init, Went
<1>3. \A d \in Deliveries : /\ status[d] = "none" /\ attempts[d] = 0 /\ leaseToken[d] = 0
                            /\ history[d] = {}
  BY DEF Init
<1>4. \A w \in Workers : pc[w] = "idle"
  BY DEF Init
<1>5. CarrierInv
  BY <1>2, <1>3 DEF CarrierInv
<1>6. TokenInv /\ AnswerInv
  BY <1>3, <1>4 DEF TokenInv, AnswerInv
<1>7. EvidenceInv /\ OptOutInv
  BY <1>3 DEF EvidenceInv, OptOutInv
<1>8. QED
  BY <1>1, <1>5, <1>6, <1>7 DEF IInv

\* Over any number of messages, workers, retries and crashes.
THEOREM Inductive == Spec => []IInv
<1>1. IInv /\ [Next]_vars => IInv'
  BY TypeStep, CarrierInvStep, TokenInvStep, AnswerInvStep, EvidenceInvStep, OptOutInvStep
     DEF IInv
<1>2. QED
  BY IInvInit, <1>1, PTL DEF Spec

\* Every row, claim, answer and carrier record stays within its type.
THEOREM TypeCorrect == Spec => []TypeOK
<1>1. IInv => TypeOK
  BY DEF IInv
<1>2. QED
  BY Inductive, <1>1, PTL

\* worker.ts sendOnce: whatever answers are lost, leases run out or workers
\* stop, the carrier accepts at most one of the requests made for a message.
THEOREM SentOnce == Spec => []AtMostOneAcceptance
<1>1. IInv => AtMostOneAcceptance
  <2> SUFFICES ASSUME IInv, NEW d \in Deliveries
               PROVE  Cardinality({n \in 1..MaxSends : Went(d, n, "accepted")}) <= 1
    BY DEF AtMostOneAcceptance
  <2> DEFINE taken == {n \in 1..MaxSends : Went(d, n, "accepted")}
  <2>1. taken \subseteq {attempts[d]}
    <3>1. ASSUME NEW n \in 1..MaxSends, Went(d, n, "accepted")
          PROVE  n = attempts[d]
      <4>1. n <= attempts[d] /\ ~(n < attempts[d])
        BY <3>1 DEF IInv, CarrierInv, Stages, Reports
      <4>2. attempts[d] \in Nat
        BY DEF IInv, TypeOK
      <4>3. QED
        BY <4>1, <4>2
    <3>2. QED
      BY <3>1
  <2>2. IsFiniteSet({attempts[d]}) /\ Cardinality({attempts[d]}) = 1
    BY FS_Singleton
  <2>3. QED
    BY <2>1, <2>2, FS_Subset
<1>2. QED
  BY Inductive, <1>1, PTL

\* recordStatus and the worker's second transaction: an answer always finds the
\* claim it belongs to.
THEOREM AnswersAlwaysLand == Spec => []AnswersLand
<1>1. IInv => AnswersLand
  BY DEF IInv, TokenInv, AnswersLand
<1>2. QED
  BY Inductive, <1>1, PTL

\* deliveryTransition and the worker: what the row says of a message is never
\* more than the carrier did with it.
THEOREM Evidence == Spec => []StatusIsEvidence
<1>1. IInv => StatusIsEvidence
  <2> SUFFICES ASSUME IInv, NEW d \in Deliveries
               PROVE  LET Ever(stage) == \E n \in 1..MaxSends : Went(d, n, stage) IN
                      /\ status[d] \in {"queued", "cancelled"} => ~Ever("accepted")
                      /\ status[d] = "delivered" => Ever("delivered")
                      /\ status[d] = "failed" =>
                            ~Ever("accepted") \/ Ever("failed") \/ Ever("opted_out")
    BY DEF StatusIsEvidence
  <2>1. attempts[d] \in Nat
    BY DEF IInv, TypeOK
  <2>2. ASSUME NEW n \in 1..MaxSends, Went(d, n, "accepted")
        PROVE  n \in 1..attempts[d] /\ Went(d, n, "requested") /\ ~Went(d, n, "refused")
    <3>1. n <= attempts[d] /\ Went(d, n, "requested") /\ ~Went(d, n, "refused")
      BY <2>2 DEF IInv, CarrierInv, Stages, Reports
    <3>2. QED
      BY <2>1, <3>1
  <2>3. status[d] \in {"queued", "cancelled"} =>
           ~\E n \in 1..MaxSends : Went(d, n, "accepted")
    BY <2>2 DEF IInv, EvidenceInv
  <2>4. status[d] = "delivered" => \E n \in 1..MaxSends : Went(d, n, "delivered")
    BY DEF IInv, EvidenceInv
  <2>5. status[d] = "failed" =>
           \/ ~\E n \in 1..MaxSends : Went(d, n, "accepted")
           \/ \E n \in 1..MaxSends : Went(d, n, "failed")
           \/ \E n \in 1..MaxSends : Went(d, n, "opted_out")
    <3>1. status[d] = "failed" => Failed(d)
      BY DEF IInv, EvidenceInv
    <3>2. QED
      BY <2>2, <3>1 DEF Failed, Untaken
  <2>6. QED
    BY <2>3, <2>4, <2>5
<1>2. QED
  BY Inductive, <1>1, PTL

\* deliveryTransition: a delivered, failed or cancelled message stays so, in
\* whatever order callbacks and late answers come.
THEOREM FinalIsFinal == Spec => FinalStays
<1>1. IInv /\ [Next]_vars =>
         \A d \in Deliveries : status[d] \in Terminal => status'[d] = status[d]
  <2> SUFFICES ASSUME IInv, [Next]_vars, NEW c \in Deliveries, status[c] \in Terminal
               PROVE  status'[c] = status[c]
    OBVIOUS
  <2>1. TypeOK
    BY DEF IInv
  <2>2. status[c] \notin {"none", "queued", "sending", "accepted", "sent"}
    BY DEF Terminal
  <2>3. ASSUME NEW d \in Deliveries, Enqueue(d)
        PROVE  status'[c] = status[c]
    BY <2>1, <2>2, <2>3 DEF Enqueue, TypeOK
  <2>4. ASSUME NEW d \in Deliveries, Told(d)
        PROVE  status'[c] = status[c]
    <3>1. PICK s \in Statuses : status' = [status EXCEPT ![d] = s] /\ News(d, s)
      BY <2>4 DEF Told
    <3>2. c = d => s = status[c]
      BY <2>2, <3>1 DEF News
    <3>3. QED
      BY <2>1, <3>1, <3>2 DEF TypeOK
  <2>5. ASSUME NEW w \in Workers, NEW d \in Deliveries, ClaimSend(w, d)
        PROVE  status'[c] = status[c]
    BY <2>1, <2>2, <2>5 DEF ClaimSend, TypeOK
  <2>6. ASSUME NEW w \in Workers, NEW d \in Deliveries, RecordResult(w, d)
        PROVE  status'[c] = status[c]
    <3>1. PICK s \in {status[d], Reported(d, answer[w])} :
              /\ status' = [status EXCEPT ![d] = s]
              /\ status[d] \in Terminal => s = status[d]
      BY <2>1, <2>6, ResultEffect
    <3>2. QED
      BY <2>1, <3>1 DEF TypeOK
  <2>7. QED
    BY <2>1, <2>3, <2>4, <2>5, <2>6, StepCases
       DEF Quiet, NotSent, Post, Answered, Crash, CarrierActs, rowVars
<1>2. QED
  BY Inductive, <1>1, PTL DEF Spec, FinalStays

\* captureMessage, suppress and the worker's checks: after a STOP, or an
\* opt-out the carrier reported for any message, no message is claimed again.
THEOREM OptOutHolds == Spec => OptOutStopsSends
<1>1. IInv /\ [Next]_vars =>
         ((optedOut \/ \E d \in Deliveries : \E e \in history[d] : e.opt)
             => attempts' = attempts)
  <2> SUFFICES ASSUME IInv, [Next]_vars, optedOut
               PROVE  attempts' = attempts
    BY DEF IInv, OptOutInv
  <2>1. TypeOK
    BY DEF IInv
  <2>2. \A w \in Workers, d \in Deliveries : ~ClaimSend(w, d)
    BY DEF ClaimSend, MaySend, Allowed
  <2>3. QED
    BY <2>1, <2>2, StepCases
       DEF Quiet, Enqueue, Told, RecordResult, NotSent, Post, Answered, Crash, CarrierActs, rowVars
<1>2. QED
  BY Inductive, <1>1, PTL DEF Spec, OptOutStopsSends

------------------------------------------------------------------------------
(* Demo sessions: what may still be used is what was claimed.               *)

\* The requests of a session that hold a turn they have not used, and those
\* that make its call.
Claimed(s) == {p \in Procs : proc[p].pc = "claimed" /\ proc[p].session = s}
Makers(s) == {p \in Procs : proc[p].pc \in {"creating", "recording", "recorded"} /\ proc[p].session = s}
Creating(s) == {p \in Procs : proc[p].pc = "creating" /\ proc[p].session = s}

Fits(x) ==
    /\ x.pc # "idle" => x.session \in Sessions
    /\ x.pc \in ChatSteps => row[x.session].channel = "chat"
    /\ x.pc \in ChatSteps \ {"checked"} => x.turn > 0
    /\ x.pc \in VoiceSteps => row[x.session].channel = "voice"
ProcSound(p) == Fits(proc[p])

\* Each turn of a chat pays for one reply.
ChatBudget(s) ==
    /\ IsFiniteSet(Claimed(s))
    /\ used[s] + Cardinality(Claimed(s)) <= row[s].turns
    /\ row[s].turns <= MaxTurns

\* One request makes the call of a session, and no sideband is open before.
VoiceBudget(s) ==
    /\ used[s] <= 1
    /\ \A p, q \in Makers(s) : p = q
    /\ Creating(s) # {} => used[s] = 0
    /\ row[s].turns = 0 => used[s] = 0 /\ socket[s] = "none" /\ Makers(s) = {}
    /\ socket[s] # "none" => Makers(s) = {}
    /\ row[s].turns > MaxTurns => Makers(s) = {} /\ socket[s] # "open"

Budget(s) ==
    /\ row[s].channel = "none" => used[s] = 0 /\ row[s].turns = 0
    /\ row[s].channel = "chat" => ChatBudget(s)
    /\ row[s].channel = "voice" => VoiceBudget(s)
    /\ socket[s] # "none" => row[s].channel = "voice"

DemoInd ==
    /\ DemoTypeOK
    /\ \A p \in Procs : ProcSound(p)
    /\ \A s \in Sessions : Budget(s)

LEMMA DemoRows ==
    /\ NoRow \in Rows /\ Idle \in ProcRecords
    /\ \A s \in Sessions : \A step \in {"checked", "ringing", "ending"} :
          LET new == [Idle EXCEPT !.pc = step, !.session = s] IN
          new \in ProcRecords /\ new.pc = step /\ new.session = s /\ new.call = 0 /\ new.turn = 0
<1>1. 0 \in 0..MaxTurns /\ 0 \in 0..(MaxTurns + 1)
  BY DemoAssumption
<1>2. <<>> \in Seq(1..MaxTurns)
  OBVIOUS
<1>3. NoRow \in Rows
  BY <1>1, <1>2 DEF NoRow, Rows
<1>4. Idle \in ProcRecords
  BY <1>1, <1>2 DEF Idle, ProcRecords
<1>5. ASSUME NEW s \in Sessions, NEW step \in {"checked", "ringing", "ending"}
      PROVE  LET new == [Idle EXCEPT !.pc = step, !.session = s] IN
             new \in ProcRecords /\ new.pc = step /\ new.session = s /\ new.call = 0 /\ new.turn = 0
  <2>1. step \in {"idle"} \cup ChatSteps \cup VoiceSteps \cup EndSteps
    BY DEF ChatSteps, VoiceSteps, EndSteps
  <2>2. QED
    BY <1>1, <1>2, <2>1 DEF Idle, ProcRecords
<1>6. QED
  BY <1>3, <1>4, <1>5

LEMMA DemoInitInd == DemoInit => DemoInd
<1> SUFFICES ASSUME DemoInit PROVE DemoInd
  OBVIOUS
<1>1. 0 \in 0..MaxFaults
  BY DemoAssumption
<1>2. DemoTypeOK
  BY <1>1, DemoRows DEF DemoInit, DemoTypeOK
<1>3. \A p \in Procs : proc[p].pc = "idle"
  BY DEF DemoInit, Idle
<1>4. \A p \in Procs : ProcSound(p)
  BY <1>3 DEF ProcSound, Fits, ChatSteps, VoiceSteps
<1>5. \A s \in Sessions : row[s].channel = "none" /\ row[s].turns = 0 /\ used[s] = 0 /\ socket[s] = "none"
  BY DEF DemoInit, NoRow
<1>6. QED
  BY <1>2, <1>4, <1>5 DEF DemoInd, Budget

\* What the step leaves of a session's budget.
Spends(s) ==
    /\ row'[s].channel = row[s].channel /\ row'[s].turns = row[s].turns /\ used'[s] = used[s]
    /\ \/ socket'[s] \in {socket[s], "none"}
       \/ socket[s] = "open" /\ socket'[s] = "closing"
    /\ Claimed(s)' \subseteq Claimed(s)
    /\ Makers(s)' \subseteq Makers(s)
    /\ Creating(s)' \subseteq Creating(s)

LEMMA SpendsBudget ==
    ASSUME DemoInd, NEW s \in Sessions, Spends(s)
    PROVE  Budget(s)'
<1>1. row[s].turns \in Nat /\ used[s] \in Nat
  BY DEF DemoInd, DemoTypeOK, Rows
<1>2. CASE row[s].channel = "chat"
  <2>1. IsFiniteSet(Claimed(s)) /\ used[s] + Cardinality(Claimed(s)) <= row[s].turns /\ row[s].turns <= MaxTurns
        /\ socket[s] = "none"
    BY <1>2 DEF DemoInd, Budget, ChatBudget
  <2>2. /\ IsFiniteSet(Claimed(s)') /\ Cardinality(Claimed(s)') <= Cardinality(Claimed(s))
        /\ Cardinality(Claimed(s)') \in Nat /\ Cardinality(Claimed(s)) \in Nat
    BY <2>1, FS_Subset, FS_CardinalityType DEF Spends
  <2>3. used'[s] + Cardinality(Claimed(s)') <= row'[s].turns
    BY <1>1, <2>1, <2>2 DEF Spends
  <2>4. QED
    BY <1>2, <2>1, <2>2, <2>3 DEF Budget, ChatBudget, Spends
<1>3. CASE row[s].channel = "voice"
  <2>1. VoiceBudget(s)
    BY <1>3 DEF DemoInd, Budget
  <2>2. VoiceBudget(s)'
    BY <2>1 DEF VoiceBudget, Spends
  <2>3. QED
    BY <1>3, <2>2 DEF Budget, Spends
<1>4. CASE row[s].channel = "none"
  BY <1>4 DEF DemoInd, Budget, Spends
<1>5. QED
  BY <1>2, <1>3, <1>4 DEF DemoInd, DemoTypeOK, Rows

LEMMA ProcMoves ==
    ASSUME DemoTypeOK, NEW p \in Procs, NEW new, proc' = [proc EXCEPT ![p] = new]
    PROVE  /\ proc'[p] = new /\ \A q \in Procs \ {p} : proc'[q] = proc[q]
BY DEF DemoTypeOK

\* A step of one process that claims nothing and makes no call.
LEMMA QuietProc ==
    ASSUME DemoInd, DemoTypeOK', NEW p \in Procs, NEW new \in ProcRecords, proc' = [proc EXCEPT ![p] = new],
           new.pc \notin {"claimed", "creating"}, new.pc \in {"recording", "recorded"} => p \in Makers(new.session),
           Fits(new), used' = used,
           \A s \in Sessions : /\ row'[s].channel = row[s].channel /\ row'[s].turns = row[s].turns
                               /\ \/ socket'[s] \in {socket[s], "none"}
                                  \/ socket[s] = "open" /\ socket'[s] = "closing"
    PROVE  DemoInd'
<1>1. DemoTypeOK
  BY DEF DemoInd
<1>2. \A q \in Procs \ {p} : proc'[q] = proc[q]
  BY <1>1, ProcMoves
<1>3. ASSUME NEW s \in Sessions
      PROVE  Claimed(s)' \subseteq Claimed(s) /\ Makers(s)' \subseteq Makers(s) /\ Creating(s)' \subseteq Creating(s)
  <2>1. proc'[p] = new
    BY <1>1, ProcMoves
  <2>2. Claimed(s)' \subseteq Claimed(s) /\ Creating(s)' \subseteq Creating(s)
    BY <1>2, <2>1 DEF Claimed, Creating
  <2>3. Makers(s)' \subseteq Makers(s)
    BY <1>2, <2>1 DEF Makers
  <2>4. QED
    BY <2>2, <2>3
<1>4. ASSUME NEW q \in Procs \ {p}
      PROVE  ProcSound(q)'
  BY <1>2 DEF DemoInd, ProcSound, Fits, ChatSteps, VoiceSteps
<1>6. ProcSound(p)'
  <2>1. proc'[p] = new
    BY <1>1, ProcMoves
  <2>2. QED
    BY <2>1 DEF ProcSound, Fits, ChatSteps, VoiceSteps
<1>5. \A s \in Sessions : Budget(s)'
  BY <1>3, SpendsBudget DEF Spends
<1>7. QED
  BY <1>4, <1>5, <1>6 DEF DemoInd

DemoUntouched == live' = live /\ socket' = socket /\ retired' = retired /\ shown' = shown /\ stalled' = stalled

\* Only a process goes on.
LEMMA ProcOnly ==
    ASSUME DemoInd, NEW p \in Procs, NEW new \in ProcRecords, proc' = [proc EXCEPT ![p] = new],
           new.pc \notin {"claimed", "creating"}, new.pc \in {"recording", "recorded"} => p \in Makers(new.session),
           Fits(new), row' = row, used' = used, DemoUntouched, faults' \in 0..MaxFaults
    PROVE  DemoInd'
<1>1. DemoTypeOK'
  BY DEF DemoInd, DemoTypeOK, DemoUntouched
<1>2. QED
  BY <1>1, QuietProc DEF DemoUntouched

\* A process goes on and writes what is no part of a budget.
LEMMA RowAndProc ==
    ASSUME DemoInd, NEW p \in Procs, NEW new \in ProcRecords, proc' = [proc EXCEPT ![p] = new],
           new.pc \notin {"claimed", "creating"}, new.pc \in {"recording", "recorded"} => p \in Makers(new.session),
           Fits(new), NEW s \in Sessions, NEW r \in Rows, row' = [row EXCEPT ![s] = r],
           r.channel = row[s].channel, r.turns = row[s].turns, used' = used,
           live' = live, retired' = retired, shown' = shown, stalled' = stalled, faults' = faults,
           socket' = socket \/ socket' = [socket EXCEPT ![s] = "none"]
    PROVE  DemoInd'
<1>1. /\ \A q \in Sessions : row'[q].channel = row[q].channel /\ row'[q].turns = row[q].turns
      /\ row' \in [Sessions -> Rows]
  BY DEF DemoInd, DemoTypeOK
<1>2. /\ \A q \in Sessions : socket'[q] \in {socket[q], "none"}
      /\ socket' \in [Sessions -> {"none", "open", "closing"}]
  BY DEF DemoInd, DemoTypeOK
<1>3. DemoTypeOK'
  BY <1>1, <1>2 DEF DemoInd, DemoTypeOK
<1>4. QED
  BY <1>1, <1>2, <1>3, QuietProc

LEMMA MovedProc ==
    ASSUME DemoTypeOK, NEW p \in Procs, NEW step \in {"idle"} \cup ChatSteps \cup VoiceSteps \cup EndSteps
    PROVE  /\ [proc[p] EXCEPT !.pc = step] \in ProcRecords
           /\ [proc[p] EXCEPT !.pc = step].pc = step
           /\ [proc[p] EXCEPT !.pc = step].session = proc[p].session
           /\ [proc[p] EXCEPT !.pc = step].turn = proc[p].turn
           /\ Move(p, step) => proc' = [proc EXCEPT ![p] = [proc[p] EXCEPT !.pc = step]]
<1>1. proc[p] \in ProcRecords
  BY DEF DemoTypeOK
<1>2. QED
  BY <1>1 DEF ProcRecords, Move

\* One move to a step of the same kind, or to the end.
LEMMA MoveOnly ==
    ASSUME DemoInd, NEW p \in Procs, NEW step, Move(p, step), proc[p].pc # "idle",
           \/ step \in {"asking", "answered", "saving", "clearing"} /\ proc[p].pc \in ChatSteps \ {"checked"}
           \/ step \in {"ringing", "opening"} /\ proc[p].pc \in VoiceSteps
           \/ step \in {"recording", "recorded"} /\ proc[p].pc \in {"creating", "recording"}
           \/ step \in EndSteps
    PROVE  \E new \in ProcRecords :
              /\ proc' = [proc EXCEPT ![p] = new] /\ new.pc = step /\ new.session = proc[p].session
              /\ new.pc \notin {"claimed", "creating"}
              /\ new.pc \in {"recording", "recorded"} => p \in Makers(new.session)
              /\ Fits(new)
<1> DEFINE new == [proc[p] EXCEPT !.pc = step]
<1>1. DemoTypeOK /\ Fits(proc[p])
  BY DEF DemoInd, ProcSound
<1>2. step \in {"idle"} \cup ChatSteps \cup VoiceSteps \cup EndSteps
  BY DEF ChatSteps, VoiceSteps, EndSteps
<1>3. new \in ProcRecords /\ new.pc = step /\ new.session = proc[p].session /\ new.turn = proc[p].turn
      /\ proc' = [proc EXCEPT ![p] = new]
  BY <1>1, <1>2, MovedProc
<1> HIDE DEF new
<1>4. new.pc \notin {"claimed", "creating"}
  BY <1>3 DEF EndSteps
<1>5. new.pc \in {"recording", "recorded"} => p \in Makers(new.session)
  BY <1>3 DEF Makers, EndSteps
<1>6. Fits(new)
  BY <1>1, <1>3 DEF Fits, ChatSteps, VoiceSteps, EndSteps
<1>7. QED
  BY <1>3, <1>4, <1>5, <1>6

LEMMA BegunProc ==
    ASSUME DemoInd, NEW p \in Procs, NEW s \in Sessions, NEW step \in {"checked", "ringing", "ending"}, Begin(p, step, s),
           step = "checked" => row[s].channel = "chat", step = "ringing" => row[s].channel = "voice"
    PROVE  \E new \in ProcRecords :
              /\ proc' = [proc EXCEPT ![p] = new]
              /\ new.pc \notin {"claimed", "creating"}
              /\ new.pc \in {"recording", "recorded"} => p \in Makers(new.session)
              /\ Fits(new)
<1> DEFINE new == [Idle EXCEPT !.pc = step, !.session = s]
<1>1. new \in ProcRecords /\ new.pc = step /\ new.session = s
  BY ZenonT(30), DemoRows
<1>2. proc' = [proc EXCEPT ![p] = new]
  BY DEF Begin
<1> HIDE DEF new
<1>3. Fits(new)
  BY <1>1 DEF Fits, ChatSteps, VoiceSteps
<1>4. QED
  BY <1>1, <1>2, <1>3

LEMMA LeftProc ==
    ASSUME NEW p, Leave(p)
    PROVE  /\ Idle \in ProcRecords /\ proc' = [proc EXCEPT ![p] = Idle] /\ Fits(Idle)
           /\ Idle.pc \notin {"claimed", "creating"} /\ Idle.pc \notin {"recording", "recorded"}
BY DemoRows DEF Leave, Idle, Fits, ChatSteps, VoiceSteps

LEMMA WatchStep ==
    ASSUME DemoInd, NEW p \in Procs, NEW s \in Sessions,
           CheckChat(p, s) \/ CheckVoice(p, s) \/ BeginEnd(p, s) \/ (p = Watchdog /\ Sweep(s))
    PROVE  DemoInd'
<1>1. \E step \in {"checked", "ringing", "ending"} :
         /\ Begin(p, step, s)
         /\ step = "checked" => row[s].channel = "chat"
         /\ step = "ringing" => row[s].channel = "voice"
  BY DEF CheckChat, CheckVoice, BeginEnd, Sweep
<1>2. row' = row /\ used' = used /\ DemoUntouched /\ faults' = faults
  BY DEF CheckChat, CheckVoice, BeginEnd, Sweep, DemoUntouched, showing
<1>3. faults' \in 0..MaxFaults
  BY <1>2 DEF DemoInd, DemoTypeOK
<1>4. QED
  BY <1>1, <1>2, <1>3, BegunProc, ProcOnly

LEMMA StepOnly ==
    ASSUME DemoInd, NEW p \in Procs,
           \/ TurnRefused(p) \/ ProviderReplies(p) \/ RecheckChat(p) \/ CallRefused(p) \/ VoiceOpened(p)
           \/ HangUpFails(p)
    PROVE  DemoInd'
<1>1. row' = row /\ used' = used /\ DemoUntouched /\ faults' = faults
  BY DEF TurnRefused, ProviderReplies, RecheckChat, CallRefused, VoiceOpened, HangUpFails, DemoUntouched, showing
<1>2. faults' \in 0..MaxFaults
  BY <1>1 DEF DemoInd, DemoTypeOK
<1>3. CASE Leave(p)
  BY <1>1, <1>2, <1>3, LeftProc, ProcOnly
<1>4. CASE ~Leave(p)
  <2>1. PICK step \in {"answered", "clearing", "saving"} : Move(p, step) /\ proc[p].pc \in ChatSteps \ {"checked"}
    BY <1>4 DEF TurnRefused, ProviderReplies, RecheckChat, CallRefused, VoiceOpened, HangUpFails, At, ChatSteps
  <2>2. proc[p].pc # "idle"
    BY <2>1 DEF ChatSteps
  <2>3. QED
    BY <1>1, <1>2, <2>1, <2>2, MoveOnly, ProcOnly
<1>5. QED
  BY <1>3, <1>4

LEMMA EndReadsStep == DemoInd /\ (\E p \in Procs : EndReads(p)) => DemoInd'
<1> SUFFICES ASSUME DemoInd, NEW p \in Procs, EndReads(p) PROVE DemoInd'
  OBVIOUS
<1> DEFINE s == proc[p].session
           call == row[s].call
           new == [proc[p] EXCEPT !.pc = IF call = 0 THEN "closing" ELSE "hanging", !.call = call]
<1>1. DemoTypeOK /\ Fits(proc[p]) /\ proc[p] \in ProcRecords /\ proc[p].pc = "ending"
  BY DEF DemoInd, ProcSound, DemoTypeOK, EndReads, At
<1>2. s \in Sessions /\ call \in Nat
  BY <1>1 DEF Fits, DemoTypeOK, Rows
<1>3. /\ new \in ProcRecords /\ new.pc \in {"closing", "hanging"} /\ new.session = s
  BY <1>1, <1>2 DEF ProcRecords, EndSteps
<1>4. proc' = [proc EXCEPT ![p] = new]
  BY <1>1 DEF EndReads, DemoTypeOK, ProcRecords
<1> HIDE DEF new
<1>5. Fits(new)
  BY <1>2, <1>3 DEF Fits, ChatSteps, VoiceSteps
<1>6. row' = row /\ used' = used /\ DemoUntouched /\ faults' \in 0..MaxFaults
  BY <1>1 DEF EndReads, DemoUntouched, showing, DemoTypeOK
<1>7. QED
  BY <1>3, <1>4, <1>5, <1>6, ProcOnly

LEMMA FaultStep ==
    ASSUME DemoInd, NEW p \in Procs, Throws(p) \/ DemoCrash(p)
    PROVE  DemoInd'
<1>1. faults' \in 0..MaxFaults
  BY DemoAssumption DEF Throws, DemoCrash, Fault, DemoInd, DemoTypeOK
<1>2. CASE Throws(p)
  <2>1. row' = row /\ used' = used /\ DemoUntouched
    BY <1>2 DEF Throws, DemoUntouched, showing
  <2>2. CASE Leave(p)
    BY <1>1, <2>1, <2>2, LeftProc, ProcOnly
  <2>3. CASE ~Leave(p)
    <3>1. PICK step \in {"clearing", "ending"} :
             /\ Move(p, step) /\ proc[p].pc # "idle"
             /\ step = "clearing" => proc[p].pc \in ChatSteps \ {"checked"}
      BY <1>2, <2>3 DEF Throws, ChatSteps
    <3>2. step \in EndSteps \/ (step = "clearing" /\ proc[p].pc \in ChatSteps \ {"checked"})
      BY <3>1 DEF EndSteps
    <3>3. QED
      BY <1>1, <2>1, <3>1, <3>2, MoveOnly, ProcOnly
  <2>4. QED
    BY <2>2, <2>3
<1>3. CASE DemoCrash(p)
  <2> DEFINE s == proc[p].session
  <2>1. s \in Sessions
    BY <1>3 DEF DemoCrash, At, DemoInd, ProcSound, Fits
  <2>2. /\ Leave(p) /\ row' = row /\ used' = used /\ live' = live /\ retired' = retired /\ shown' = shown
        /\ stalled' = stalled /\ socket' = [socket EXCEPT ![s] = "none"]
    BY <1>3 DEF DemoCrash, showing
  <2>3. /\ socket' \in [Sessions -> {"none", "open", "closing"}]
        /\ \A q \in Sessions : socket'[q] \in {socket[q], "none"}
    BY <2>2 DEF DemoInd, DemoTypeOK
  <2>4. proc' \in [Procs -> ProcRecords]
    BY <2>2, LeftProc DEF DemoInd, DemoTypeOK
  <2>5. DemoTypeOK'
    BY <1>1, <2>2, <2>3, <2>4 DEF DemoInd, DemoTypeOK
  <2>6. QED
    BY <2>2, <2>3, <2>5, LeftProc, QuietProc
<1>4. QED
  BY <1>2, <1>3

\* The session a process works on.
LEMMA AtSession ==
    ASSUME DemoInd, NEW p \in Procs, proc[p].pc # "idle"
    PROVE  /\ proc[p].session \in Sessions /\ proc[p] \in ProcRecords /\ Fits(proc[p])
           /\ row[proc[p].session] \in Rows /\ used[proc[p].session] \in Nat
BY DEF DemoInd, DemoTypeOK, ProcSound, Fits

LEMMA ChatWrites ==
    ASSUME DemoInd, NEW p \in Procs, SaveReply(p) \/ ClearBusy(p) \/ CallNotCreated(p) \/ RecordCall(p) \/ EndWrites(p)
    PROVE  DemoInd'
<1> DEFINE s == proc[p].session
           R1 == [row[s] EXCEPT !.messages = Append(proc[p].seen, proc[p].turn)]
           R2 == [row[s] EXCEPT !.busy = "no"]
           R3 == [row[s] EXCEPT !.ended = TRUE]
           R4 == [row[s] EXCEPT !.call = proc[p].call]
           R5 == [row[s] EXCEPT !.ended = TRUE, !.call = 0]
<1>1. proc[p].pc # "idle"
  BY DEF SaveReply, ClearBusy, CallNotCreated, RecordCall, EndWrites, At
<1>2. s \in Sessions /\ proc[p] \in ProcRecords /\ Fits(proc[p]) /\ row[s] \in Rows
  BY <1>1, AtSession
<1>3. /\ used' = used /\ live' = live /\ retired' = retired /\ shown' = shown /\ stalled' = stalled /\ faults' = faults
      /\ socket' = socket \/ socket' = [socket EXCEPT ![s] = "none"]
  BY DEF SaveReply, ClearBusy, CallNotCreated, RecordCall, EndWrites, showing
<1>4. /\ R2 \in Rows /\ R2.channel = row[s].channel /\ R2.turns = row[s].turns
      /\ R3 \in Rows /\ R3.channel = row[s].channel /\ R3.turns = row[s].turns
      /\ R4 \in Rows /\ R4.channel = row[s].channel /\ R4.turns = row[s].turns
      /\ R5 \in Rows /\ R5.channel = row[s].channel /\ R5.turns = row[s].turns
  BY <1>2 DEF Rows, ProcRecords
<1>5. SaveReply(p) => R1 \in Rows /\ R1.channel = row[s].channel /\ R1.turns = row[s].turns
  <2> SUFFICES ASSUME SaveReply(p) PROVE R1 \in Rows /\ R1.channel = row[s].channel /\ R1.turns = row[s].turns
    OBVIOUS
  <2>1. proc[p].seen \in Seq(1..MaxTurns) /\ proc[p].turn \in 0..MaxTurns
    BY <1>2 DEF ProcRecords
  <2>2. proc[p].turn > 0
    BY <1>2 DEF SaveReply, At, Fits, ChatSteps
  <2>3. proc[p].turn \in 1..MaxTurns
    BY <2>1, <2>2, DemoAssumption
  <2>4. Append(proc[p].seen, proc[p].turn) \in Seq(1..MaxTurns)
    BY <2>1, <2>3
  <2>5. QED
    BY <1>2, <2>4 DEF Rows
<1>6. PICK r \in Rows : row' = [row EXCEPT ![s] = r] /\ r.channel = row[s].channel /\ r.turns = row[s].turns
  <2>1. SaveReply(p) => row' = [row EXCEPT ![s] = R1]
    BY DEF SaveReply
  <2>2. ClearBusy(p) => row' = [row EXCEPT ![s] = R2]
    BY DEF ClearBusy
  <2>3. CallNotCreated(p) => row' = [row EXCEPT ![s] = R3]
    BY DEF CallNotCreated
  <2>4. RecordCall(p) => row' = [row EXCEPT ![s] = R4]
    BY DEF RecordCall
  <2>5. EndWrites(p) => row' = [row EXCEPT ![s] = R5]
    BY <1>2 DEF EndWrites, Rows
  <2> HIDE DEF R1, R2, R3, R4, R5
  <2>6. QED
    BY <1>4, <1>5, <2>1, <2>2, <2>3, <2>4, <2>5
<1>7. CASE Leave(p)
  BY <1>2, <1>3, <1>6, <1>7, LeftProc, RowAndProc
<1>8. CASE ~Leave(p)
  <2>1. PICK step \in {"clearing", "recorded"} :
           /\ Move(p, step)
           /\ step = "clearing" => proc[p].pc \in ChatSteps \ {"checked"}
           /\ step = "recorded" => proc[p].pc \in {"creating", "recording"}
    BY <1>8 DEF SaveReply, ClearBusy, CallNotCreated, RecordCall, EndWrites, At, ChatSteps
  <2>2. \E new \in ProcRecords :
           /\ proc' = [proc EXCEPT ![p] = new]
           /\ new.pc \notin {"claimed", "creating"}
           /\ new.pc \in {"recording", "recorded"} => p \in Makers(new.session)
           /\ Fits(new)
    BY <1>1, <2>1, MoveOnly
  <2>3. QED
    BY <1>2, <1>3, <1>6, <2>2, RowAndProc
<1>9. QED
  BY <1>7, <1>8

LEMMA HangUpStep == DemoInd /\ (\E p \in Procs : HangUp(p)) => DemoInd'
<1> SUFFICES ASSUME DemoInd, NEW p \in Procs, HangUp(p) PROVE DemoInd'
  OBVIOUS
<1>1. Move(p, "closing") /\ proc[p].pc # "idle" /\ "closing" \in EndSteps
  BY DEF HangUp, At, EndSteps
<1>2. PICK new \in ProcRecords :
         /\ proc' = [proc EXCEPT ![p] = new]
         /\ new.pc \notin {"claimed", "creating"}
         /\ new.pc \in {"recording", "recorded"} => p \in Makers(new.session)
         /\ Fits(new)
  BY <1>1, MoveOnly
<1>3. proc' \in [Procs -> ProcRecords]
  BY <1>2 DEF DemoInd, DemoTypeOK
<1>4. live' \in [Sessions -> SUBSET Nat]
  BY DEF HangUp, DemoInd, DemoTypeOK
<1>5. row' = row /\ used' = used /\ socket' = socket
  BY DEF HangUp
<1>6. DemoTypeOK'
  BY <1>3, <1>4 DEF HangUp, DemoInd, DemoTypeOK, showing
<1>7. QED
  BY <1>2, <1>5, <1>6, QuietProc

\* Sessions, time and the demo change; no process does.
LEMMA NoProc ==
    ASSUME DemoInd, DemoTypeOK', proc' = proc, used' = used, socket' = socket,
           \A s \in Sessions : row'[s].channel = row[s].channel \/ row[s].channel = "none",
           \A s \in Sessions : \/ row'[s].channel = row[s].channel /\ row'[s].turns = row[s].turns
                               \/ Budget(s)'
    PROVE  DemoInd'
<1>1. ASSUME NEW p \in Procs
      PROVE  ProcSound(p)'
  <2>1. Fits(proc[p]) /\ (proc[p].pc # "idle" => proc[p].session \in Sessions)
    BY DEF DemoInd, ProcSound, Fits
  <2>2. "none" # "chat" /\ "none" # "voice"
    OBVIOUS
  <2>3. QED
    BY <2>1, <2>2 DEF ProcSound, Fits, ChatSteps, VoiceSteps
<1>2. ASSUME NEW s \in Sessions
      PROVE  Budget(s)'
  <2>1. Claimed(s)' = Claimed(s) /\ Makers(s)' = Makers(s) /\ Creating(s)' = Creating(s)
    BY DEF Claimed, Makers, Creating
  <2>2. QED
    BY <2>1, SpendsBudget DEF Spends
<1>3. QED
  BY <1>1, <1>2 DEF DemoInd

LEMMA TimeStep ==
    ASSUME DemoInd, NEW s \in Sessions, Expires(s) \/ MarkerEnds(s) \/ \E value \in BOOLEAN : DemoChanges(value)
    PROVE  DemoInd'
<1> DEFINE R1 == [row[s] EXCEPT !.expired = TRUE]
           R2 == [row[s] EXCEPT !.busy = "over"]
<1>1. proc' = proc /\ used' = used /\ socket' = socket /\ live' = live /\ faults' = faults
  BY DEF Expires, MarkerEnds, DemoChanges
<1>2. row[s] \in Rows
  BY DEF DemoInd, DemoTypeOK
<1>3. R1 \in Rows /\ R1.channel = row[s].channel /\ R1.turns = row[s].turns
  BY <1>2 DEF Rows
<1>4. R2 \in Rows /\ R2.channel = row[s].channel /\ R2.turns = row[s].turns
  BY <1>2 DEF Rows
<1>5. row' = row \/ row' = [row EXCEPT ![s] = R1] \/ row' = [row EXCEPT ![s] = R2]
  BY DEF Expires, MarkerEnds, DemoChanges
<1> HIDE DEF R1, R2
<1>6. row' \in [Sessions -> Rows] /\ \A q \in Sessions : row'[q].channel = row[q].channel /\ row'[q].turns = row[q].turns
  BY <1>3, <1>4, <1>5 DEF DemoInd, DemoTypeOK
<1>7. retired' \subseteq Sessions /\ shown' \in BOOLEAN /\ stalled' \subseteq Sessions
  BY DEF Expires, MarkerEnds, DemoChanges, DemoInd, DemoTypeOK, showing
<1>8. DemoTypeOK'
  BY <1>1, <1>6, <1>7 DEF DemoInd, DemoTypeOK
<1>9. QED
  BY <1>1, <1>6, <1>8, NoProc

LEMMA StartStep ==
    ASSUME DemoInd, NEW s \in Sessions, NEW channel \in {"chat", "voice"}, StartSession(s, channel)
    PROVE  DemoInd'
<1> DEFINE r == [row[s] EXCEPT !.channel = channel]
<1>1. row[s] \in Rows /\ row[s].channel = "none" /\ used[s] = 0 /\ row[s].turns = 0 /\ socket[s] = "none"
  BY DEF DemoInd, DemoTypeOK, Budget, StartSession, Started
<1>2. r \in Rows /\ r.channel = channel /\ r.turns = 0
  BY <1>1 DEF Rows
<1>3. /\ row' = [row EXCEPT ![s] = r] /\ proc' = proc /\ used' = used /\ socket' = socket /\ live' = live
      /\ retired' = retired /\ shown' = shown /\ stalled' = stalled /\ faults' = faults
  BY DEF StartSession, showing
<1> HIDE DEF r
<1>4. row' \in [Sessions -> Rows] /\ row'[s] = r /\ \A q \in Sessions \ {s} : row'[q] = row[q]
  BY <1>2, <1>3 DEF DemoInd, DemoTypeOK
<1>5. DemoTypeOK'
  BY <1>3, <1>4 DEF DemoInd, DemoTypeOK
<1>6. Claimed(s)' = {} /\ Makers(s)' = {} /\ Creating(s)' = {}
  <2>1. \A p \in Procs : proc[p].session = s => proc[p].pc \notin ChatSteps /\ proc[p].pc \notin VoiceSteps
    BY <1>1 DEF DemoInd, ProcSound, Fits
  <2>2. QED
    BY <1>3, <2>1 DEF Claimed, Makers, Creating, ChatSteps, VoiceSteps
<1>7. Budget(s)'
  <2>1. ChatBudget(s)'
    BY <1>1, <1>2, <1>3, <1>4, <1>6, FS_EmptySet, DemoAssumption DEF ChatBudget
  <2>2. VoiceBudget(s)'
    BY <1>1, <1>2, <1>3, <1>4, <1>6, DemoAssumption DEF VoiceBudget
  <2>3. QED
    BY <1>1, <1>2, <1>3, <1>4, <2>1, <2>2 DEF Budget
<1>8. QED
  BY <1>1, <1>3, <1>4, <1>5, <1>7, NoProc

\* A response on the sideband counts a turn of the call.
LEMMA ResponseStep ==
    ASSUME DemoInd, NEW s \in Sessions, VoiceResponse(s)
    PROVE  DemoInd'
<1> DEFINE r == [row[s] EXCEPT !.turns = @ + 1]
<1>1. row[s] \in Rows /\ socket[s] = "open" /\ row[s].channel = "voice" /\ VoiceBudget(s)
  BY DEF DemoInd, DemoTypeOK, Budget, VoiceResponse
<1>2. row[s].turns \in Nat /\ row[s].turns + 1 \in 0..(MaxTurns + 1) /\ row[s].turns < MaxTurns /\ MaxTurns \in Nat
  BY <1>1, DemoAssumption DEF Rows, VoiceResponse
<1>3. r \in Rows /\ r.channel = "voice" /\ r.turns = row[s].turns + 1
  BY <1>1, <1>2 DEF Rows
<1>4. /\ row' = [row EXCEPT ![s] = r] /\ proc' = proc /\ used' = used /\ socket' = socket /\ live' = live
      /\ retired' = retired /\ shown' = shown /\ stalled' = stalled /\ faults' = faults
  BY DEF VoiceResponse, showing
<1> HIDE DEF r
<1>5. row' \in [Sessions -> Rows] /\ row'[s] = r /\ \A q \in Sessions \ {s} : row'[q] = row[q]
  BY <1>3, <1>4 DEF DemoInd, DemoTypeOK
<1>6. DemoTypeOK'
  BY <1>4, <1>5 DEF DemoInd, DemoTypeOK
<1>7. Makers(s)' = Makers(s) /\ Creating(s)' = Creating(s) /\ Makers(s) = {}
  BY <1>1, <1>4 DEF Makers, Creating, VoiceBudget
<1>8. VoiceBudget(s)'
  BY <1>1, <1>2, <1>3, <1>4, <1>5, <1>7 DEF VoiceBudget
<1>9. Budget(s)'
  BY <1>3, <1>5, <1>8 DEF Budget
<1>10. QED
  BY <1>1, <1>3, <1>4, <1>5, <1>6, <1>9, NoProc

\* The step of a process that spends or takes on something for one session.
LEMMA OneBudget ==
    ASSUME DemoInd, DemoTypeOK', NEW p \in Procs, NEW new \in ProcRecords, proc' = [proc EXCEPT ![p] = new],
           Fits(new), NEW s \in Sessions, new.session = s, Budget(s)', row'[s].channel = row[s].channel,
           \A q \in Sessions \ {s} : row'[q] = row[q] /\ used'[q] = used[q] /\ socket'[q] = socket[q]
    PROVE  DemoInd'
<1>1. \A q \in Procs \ {p} : proc'[q] = proc[q]
  BY ProcMoves DEF DemoInd
<1>2. proc'[p] = new
  BY ProcMoves DEF DemoInd
<1>3. \A q \in Sessions : row'[q].channel = row[q].channel
  OBVIOUS
<1>4. ASSUME NEW q \in Procs
      PROVE  ProcSound(q)'
  <2>1. CASE q = p
    BY <1>2, <1>3, <2>1 DEF ProcSound, Fits, ChatSteps, VoiceSteps
  <2>2. CASE q # p
    BY <1>1, <1>3, <2>2 DEF DemoInd, ProcSound, Fits, ChatSteps, VoiceSteps
  <2>3. QED
    BY <2>1, <2>2
<1>5. ASSUME NEW q \in Sessions \ {s}
      PROVE  Budget(q)'
  <2>1. Claimed(q)' \subseteq Claimed(q) /\ Makers(q)' \subseteq Makers(q) /\ Creating(q)' \subseteq Creating(q)
    BY <1>1, <1>2 DEF Claimed, Makers, Creating
  <2>2. QED
    BY <2>1, SpendsBudget DEF Spends
<1>6. QED
  BY <1>4, <1>5 DEF DemoInd

LEMMA OverrunStep ==
    ASSUME DemoInd, NEW s \in Sessions, NEW p \in Procs, VoiceOverrun(s, p) \/ SocketFails(s, p)
    PROVE  DemoInd'
<1> DEFINE new == [Idle EXCEPT !.pc = "ending", !.session = s]
           r == [row[s] EXCEPT !.turns = @ + 1]
<1>1. new \in ProcRecords /\ new.pc = "ending" /\ new.session = s
  BY DemoRows
<1>2. /\ proc' = [proc EXCEPT ![p] = new] /\ socket[s] = "open" /\ proc[p].pc = "idle"
      /\ socket' = [socket EXCEPT ![s] = "closing"] /\ used' = used /\ live' = live
      /\ retired' = retired /\ shown' = shown /\ stalled' = stalled /\ faults' = faults
  BY DEF VoiceOverrun, SocketFails, Begin, At, showing
<1> HIDE DEF new
<1>3. Fits(new)
  BY <1>1 DEF Fits, ChatSteps, VoiceSteps
<1>4. row[s] \in Rows /\ row[s].channel = "voice" /\ VoiceBudget(s)
  BY <1>2 DEF DemoInd, DemoTypeOK, Budget
<1>5. row[s].turns \in Nat /\ row[s].turns <= MaxTurns /\ MaxTurns \in Nat /\ row[s].turns + 1 \in 0..(MaxTurns + 1)
  BY <1>2, <1>4, DemoAssumption DEF Rows, VoiceBudget
<1>6. r \in Rows /\ r.channel = "voice" /\ r.turns = row[s].turns + 1
  BY <1>4, <1>5 DEF Rows
<1>7. row' = row \/ row' = [row EXCEPT ![s] = r]
  BY DEF VoiceOverrun, SocketFails
<1> HIDE DEF r
<1>8. /\ row' \in [Sessions -> Rows] /\ \A q \in Sessions \ {s} : row'[q] = row[q]
      /\ row'[s].channel = "voice" /\ row'[s].turns \in {row[s].turns, row[s].turns + 1}
  BY <1>4, <1>6, <1>7 DEF DemoInd, DemoTypeOK
<1>9. /\ socket' \in [Sessions -> {"none", "open", "closing"}] /\ socket'[s] = "closing"
      /\ \A q \in Sessions \ {s} : socket'[q] = socket[q]
  BY <1>2 DEF DemoInd, DemoTypeOK
<1>10. DemoTypeOK'
  BY <1>1, <1>2, <1>8, <1>9 DEF DemoInd, DemoTypeOK
<1>11. Makers(s)' = {} /\ Creating(s)' = {}
  <2>1. Makers(s) = {}
    BY <1>2, <1>4 DEF VoiceBudget
  <2>2. \A q \in Procs : proc'[q] = proc[q] \/ proc'[q].pc = "ending"
    BY <1>1, <1>2 DEF DemoInd, DemoTypeOK
  <2>3. QED
    BY <2>1, <2>2 DEF Makers, Creating
<1>12. VoiceBudget(s)'
  <2>1. row[s].turns # 0
    BY <1>2, <1>4 DEF VoiceBudget
  <2>2. row'[s].turns # 0
    BY <1>5, <1>8, <2>1
  <2>3. QED
    BY <1>2, <1>4, <1>9, <1>11, <2>2 DEF VoiceBudget
<1>13. Budget(s)'
  BY <1>8, <1>12 DEF Budget
<1>14. QED
  BY <1>1, <1>2, <1>3, <1>4, <1>8, <1>9, <1>10, <1>13, OneBudget

LEMMA ClaimTurnStep == DemoInd /\ (\E p \in Procs : ClaimTurn(p)) => DemoInd'
<1> SUFFICES ASSUME DemoInd, NEW p \in Procs, ClaimTurn(p) PROVE DemoInd'
  OBVIOUS
<1>1. PICK s \in Sessions : s = proc[p].session
  BY AtSession DEF ClaimTurn, At
<1> DEFINE r == [row[s] EXCEPT !.busy = "yes", !.turns = @ + 1]
           new == [proc[p] EXCEPT !.pc = "claimed", !.turn = row[s].turns + 1]
<1>2. proc[p] \in ProcRecords /\ proc[p].pc = "checked" /\ row[s] \in Rows /\ row[s].channel = "chat" /\ used[s] \in Nat
  BY <1>1, AtSession DEF ClaimTurn, At, Fits, ChatSteps
<1>3. ChatBudget(s) /\ socket[s] = "none"
  BY <1>2 DEF DemoInd, Budget
<1>4. /\ row[s].turns \in Nat /\ row[s].turns < MaxTurns /\ MaxTurns \in Nat
      /\ row[s].turns + 1 \in 0..(MaxTurns + 1) /\ row[s].turns + 1 \in 0..MaxTurns
  <2>1. row[s].turns \in 0..(MaxTurns + 1)
    BY <1>2 DEF Rows
  <2>2. row[s].turns < MaxTurns
    BY <1>1 DEF ClaimTurn, TurnFree
  <2>3. QED
    BY <2>1, <2>2, DemoAssumption
<1>5. r \in Rows /\ r.channel = "chat" /\ r.turns = row[s].turns + 1
  BY <1>2, <1>4 DEF Rows
<1>6. new \in ProcRecords /\ new.pc = "claimed" /\ new.session = s /\ new.turn = row[s].turns + 1
  BY <1>1, <1>2, <1>4 DEF ProcRecords, ChatSteps
<1>7. /\ row' = [row EXCEPT ![s] = r] /\ proc' = [proc EXCEPT ![p] = new] /\ used' = used /\ socket' = socket
      /\ live' = live /\ retired' = retired /\ shown' = shown /\ stalled' = stalled /\ faults' = faults
  <2>1. row' = [row EXCEPT ![s] = r]
    BY <1>1, <1>2 DEF ClaimTurn, Rows
  <2>2. proc' = [proc EXCEPT ![p] = new]
    BY <1>1, <1>2 DEF ClaimTurn, ProcRecords
  <2>3. QED
    BY <2>1, <2>2 DEF ClaimTurn, showing
<1> HIDE DEF r, new
<1>8. row' \in [Sessions -> Rows] /\ row'[s] = r /\ \A q \in Sessions \ {s} : row'[q] = row[q]
  BY <1>5, <1>7 DEF DemoInd, DemoTypeOK
<1>9. DemoTypeOK'
  BY <1>6, <1>7, <1>8 DEF DemoInd, DemoTypeOK
<1>10. Fits(new)
  BY <1>2, <1>4, <1>6 DEF Fits, ChatSteps, VoiceSteps
<1>11. ChatBudget(s)'
  <2>1. p \notin Claimed(s) /\ Claimed(s)' = Claimed(s) \cup {p}
    BY <1>2, <1>6, <1>7 DEF Claimed, DemoInd, DemoTypeOK
  <2>2. IsFiniteSet(Claimed(s)) /\ Cardinality(Claimed(s)) \in Nat
    BY <1>3, FS_CardinalityType DEF ChatBudget
  <2>3. IsFiniteSet(Claimed(s)') /\ Cardinality(Claimed(s)') = Cardinality(Claimed(s)) + 1
    BY <2>1, <2>2, FS_AddElement
  <2>4. used[s] + Cardinality(Claimed(s)) <= row[s].turns
    BY <1>3 DEF ChatBudget
  <2>5. used'[s] + Cardinality(Claimed(s)') <= row'[s].turns /\ row'[s].turns <= MaxTurns
    BY <1>2, <1>4, <1>5, <1>7, <1>8, <2>2, <2>3, <2>4
  <2>6. QED
    BY <2>3, <2>5 DEF ChatBudget
<1>12. Budget(s)'
  BY <1>3, <1>5, <1>7, <1>8, <1>11 DEF Budget
<1>13. QED
  BY <1>2, <1>5, <1>6, <1>7, <1>8, <1>9, <1>10, <1>12, OneBudget

LEMMA AskProviderStep == DemoInd /\ (\E p \in Procs : AskProvider(p)) => DemoInd'
<1> SUFFICES ASSUME DemoInd, NEW p \in Procs, AskProvider(p) PROVE DemoInd'
  OBVIOUS
<1>1. PICK s \in Sessions : s = proc[p].session
  BY AtSession DEF AskProvider, At
<1> DEFINE new == [proc[p] EXCEPT !.pc = "asking", !.seen = row[s].messages]
<1>2. /\ proc[p] \in ProcRecords /\ proc[p].pc = "claimed" /\ proc[p].turn > 0 /\ row[s] \in Rows
      /\ row[s].channel = "chat" /\ used[s] \in Nat
  BY <1>1, AtSession DEF AskProvider, At, Fits, ChatSteps
<1>3. ChatBudget(s) /\ socket[s] = "none"
  BY <1>2 DEF DemoInd, Budget
<1>4. new \in ProcRecords /\ new.pc = "asking" /\ new.session = s /\ new.turn = proc[p].turn
  BY <1>1, <1>2 DEF ProcRecords, ChatSteps, Rows
<1>5. /\ row' = row /\ proc' = [proc EXCEPT ![p] = new] /\ used' = [used EXCEPT ![s] = used[s] + 1] /\ socket' = socket
      /\ live' = live /\ retired' = retired /\ shown' = shown /\ stalled' = stalled /\ faults' = faults
  BY <1>1, <1>2 DEF AskProvider, showing, ProcRecords
<1> HIDE DEF new
<1>6. used' \in [Sessions -> Nat] /\ used'[s] = used[s] + 1 /\ \A q \in Sessions \ {s} : used'[q] = used[q]
  <2>1. used[s] + 1 \in Nat
    BY <1>2
  <2>2. QED
    BY <1>5, <2>1 DEF DemoInd, DemoTypeOK
<1>7. DemoTypeOK'
  BY <1>4, <1>5, <1>6 DEF DemoInd, DemoTypeOK
<1>8. Fits(new)
  BY <1>2, <1>4 DEF Fits, ChatSteps, VoiceSteps
<1>9. ChatBudget(s)'
  <2>1. p \in Claimed(s) /\ Claimed(s)' = Claimed(s) \ {p}
    BY <1>1, <1>2, <1>4, <1>5 DEF Claimed, DemoInd, DemoTypeOK
  <2>2. IsFiniteSet(Claimed(s)) /\ Cardinality(Claimed(s)) \in Nat /\ row[s].turns \in Nat
    BY <1>2, <1>3, FS_CardinalityType DEF ChatBudget, Rows
  <2>3. IsFiniteSet(Claimed(s)') /\ Cardinality(Claimed(s)') = Cardinality(Claimed(s)) - 1
    BY <2>1, <2>2, FS_RemoveElement
  <2>4. used[s] + Cardinality(Claimed(s)) <= row[s].turns /\ row[s].turns <= MaxTurns
    BY <1>3 DEF ChatBudget
  <2>5. used'[s] + Cardinality(Claimed(s)') <= row'[s].turns
    BY <1>2, <1>5, <1>6, <2>2, <2>3, <2>4
  <2>6. QED
    BY <1>5, <2>3, <2>4, <2>5 DEF ChatBudget
<1>10. Budget(s)'
  BY <1>2, <1>3, <1>5, <1>9 DEF Budget
<1>11. QED
  BY <1>4, <1>5, <1>6, <1>7, <1>8, <1>10, OneBudget

LEMMA ClaimCallStep == DemoInd /\ (\E p \in Procs : ClaimCall(p)) => DemoInd'
<1> SUFFICES ASSUME DemoInd, NEW p \in Procs, ClaimCall(p) PROVE DemoInd'
  OBVIOUS
<1>1. PICK s \in Sessions : s = proc[p].session
  BY AtSession DEF ClaimCall, At
<1> DEFINE r == [row[s] EXCEPT !.busy = "yes", !.turns = 1]
           new == [proc[p] EXCEPT !.pc = "creating"]
<1>2. proc[p] \in ProcRecords /\ proc[p].pc = "ringing" /\ row[s] \in Rows /\ row[s].channel = "voice" /\ row[s].turns = 0
  BY <1>1, AtSession DEF ClaimCall, CallFree, At, Fits, VoiceSteps
<1>3. used[s] = 0 /\ socket[s] = "none" /\ Makers(s) = {}
  BY <1>2 DEF DemoInd, Budget, VoiceBudget
<1>4. 1 \in 0..(MaxTurns + 1) /\ 1 <= MaxTurns
  BY DemoAssumption
<1>5. r \in Rows /\ r.channel = "voice" /\ r.turns = 1
  BY <1>2, <1>4 DEF Rows
<1>6. new \in ProcRecords /\ new.pc = "creating" /\ new.session = s
  BY <1>1, <1>2 DEF ProcRecords, VoiceSteps
<1>7. /\ row' = [row EXCEPT ![s] = r] /\ proc' = [proc EXCEPT ![p] = new] /\ used' = used /\ socket' = socket
      /\ live' = live /\ retired' = retired /\ shown' = shown /\ stalled' = stalled /\ faults' = faults
  <2>1. row' = [row EXCEPT ![s] = r]
    BY <1>1, <1>2 DEF ClaimCall, Rows
  <2>2. proc' = [proc EXCEPT ![p] = new]
    BY DEF ClaimCall, Move
  <2>3. QED
    BY <2>1, <2>2 DEF ClaimCall, showing
<1> HIDE DEF r, new
<1>8. row' \in [Sessions -> Rows] /\ row'[s] = r /\ \A q \in Sessions \ {s} : row'[q] = row[q]
  BY <1>5, <1>7 DEF DemoInd, DemoTypeOK
<1>9. DemoTypeOK'
  BY <1>6, <1>7, <1>8 DEF DemoInd, DemoTypeOK
<1>10. Fits(new)
  BY <1>2, <1>6 DEF Fits, ChatSteps, VoiceSteps
<1>11. Makers(s)' = {p} /\ Creating(s)' = {p}
  BY <1>3, <1>6, <1>7 DEF Makers, Creating, DemoInd, DemoTypeOK
<1>12. VoiceBudget(s)'
  BY <1>3, <1>4, <1>5, <1>7, <1>8, <1>11, DemoAssumption DEF VoiceBudget
<1>13. Budget(s)'
  BY <1>5, <1>8, <1>12 DEF Budget
<1>14. QED
  BY <1>2, <1>5, <1>6, <1>7, <1>8, <1>9, <1>10, <1>13, OneBudget

LEMMA CallCreatedStep == DemoInd /\ (\E p \in Procs : CallCreated(p)) => DemoInd'
<1> SUFFICES ASSUME DemoInd, NEW p \in Procs, CallCreated(p) PROVE DemoInd'
  OBVIOUS
<1>1. PICK s \in Sessions : s = proc[p].session
  BY AtSession DEF CallCreated, At
<1> DEFINE n == used[s] + 1
           new == [proc[p] EXCEPT !.pc = "recording", !.call = n]
<1>2. proc[p] \in ProcRecords /\ proc[p].pc = "creating" /\ row[s] \in Rows /\ row[s].channel = "voice" /\ used[s] \in Nat
  BY <1>1, AtSession DEF CallCreated, At, Fits, VoiceSteps
<1>3. VoiceBudget(s) /\ p \in Creating(s) /\ p \in Makers(s) /\ used[s] = 0
  BY <1>1, <1>2 DEF DemoInd, Budget, VoiceBudget, Creating, Makers
<1>n. n \in Nat /\ n = 1
  BY <1>3
<1> HIDE DEF n
<1>c. "recording" \in VoiceSteps
  BY DEF VoiceSteps
<1>4. new \in ProcRecords /\ new.pc = "recording" /\ new.session = s
  BY <1>1, <1>2, <1>n, <1>c DEF ProcRecords
<1> USE DEF n
<1>5. /\ row' = row /\ proc' = [proc EXCEPT ![p] = new] /\ used' = [used EXCEPT ![s] = n] /\ socket' = socket
      /\ live' = [live EXCEPT ![s] = @ \cup {n}]
      /\ retired' = retired /\ shown' = shown /\ stalled' = stalled /\ faults' = faults
  BY <1>1, <1>2 DEF CallCreated, showing, ProcRecords
<1> HIDE DEF new, n
<1>6. used' \in [Sessions -> Nat] /\ used'[s] = 1 /\ \A q \in Sessions \ {s} : used'[q] = used[q]
  BY <1>n, <1>5 DEF DemoInd, DemoTypeOK
<1>7. live' \in [Sessions -> SUBSET Nat]
  BY <1>n, <1>5 DEF DemoInd, DemoTypeOK
<1>8. DemoTypeOK'
  BY <1>4, <1>5, <1>6, <1>7 DEF DemoInd, DemoTypeOK
<1>9. Fits(new)
  BY <1>2, <1>4 DEF Fits, ChatSteps, VoiceSteps
<1>10. Makers(s)' = {p} /\ Creating(s)' = {}
  <2>1. proc'[p] = new /\ \A q \in Procs \ {p} : proc'[q] = proc[q]
    BY <1>5 DEF DemoInd, DemoTypeOK
  <2>2. \A q \in Makers(s) : q = p
    BY <1>3 DEF VoiceBudget
  <2>3. \A q \in Creating(s) : q \in Makers(s)
    BY DEF Creating, Makers
  <2>4. QED
    BY <1>4, <2>1, <2>2, <2>3 DEF Makers, Creating
<1>11. VoiceBudget(s)'
  BY <1>3, <1>5, <1>6, <1>10 DEF VoiceBudget
<1>12. Budget(s)'
  BY <1>2, <1>5, <1>11 DEF Budget
<1>13. QED
  BY <1>4, <1>5, <1>6, <1>8, <1>9, <1>12, OneBudget

LEMMA RecheckVoiceStep == DemoInd /\ (\E p \in Procs : RecheckVoice(p)) => DemoInd'
<1> SUFFICES ASSUME DemoInd, NEW p \in Procs, RecheckVoice(p) PROVE DemoInd'
  OBVIOUS
<1>1. PICK s \in Sessions : s = proc[p].session
  BY AtSession DEF RecheckVoice, At
<1>2. proc[p].pc = "recorded" /\ proc[p].pc # "idle" /\ row[s].channel = "voice" /\ p \in Makers(s)
  BY <1>1, AtSession DEF RecheckVoice, At, Fits, VoiceSteps, Makers
<1>3. VoiceBudget(s)
  BY <1>2 DEF DemoInd, Budget
<1>4. /\ row' = row /\ used' = used /\ live' = live /\ retired' = retired /\ shown' = shown
      /\ stalled' = stalled /\ faults' = faults
      /\ socket' = socket \/ socket' = [socket EXCEPT ![s] = "open"]
  BY <1>1 DEF RecheckVoice, showing
<1>5. PICK new \in ProcRecords :
         /\ proc' = [proc EXCEPT ![p] = new] /\ new.pc \in {"opening", "ending"} /\ new.session = s /\ Fits(new)
  <2>1. Move(p, "opening") \/ Move(p, "ending")
    BY DEF RecheckVoice
  <2>2. proc[p].pc \in VoiceSteps /\ "ending" \in EndSteps
    BY <1>2 DEF VoiceSteps, EndSteps
  <2>3. \A step \in {"opening", "ending"} : Move(p, step) =>
           \E new \in ProcRecords : /\ proc' = [proc EXCEPT ![p] = new] /\ new.pc = step
                                    /\ new.session = proc[p].session /\ Fits(new)
    BY <1>2, <2>2, MoveOnly
  <2>4. QED
    BY <1>1, <2>1, <2>3
<1>6. /\ socket' \in [Sessions -> {"none", "open", "closing"}] /\ \A q \in Sessions \ {s} : socket'[q] = socket[q]
  BY <1>4 DEF DemoInd, DemoTypeOK
<1>7. DemoTypeOK'
  BY <1>4, <1>5, <1>6 DEF DemoInd, DemoTypeOK
<1>8. Makers(s)' = {} /\ Creating(s)' = {}
  <2>1. proc'[p] = new /\ \A q \in Procs \ {p} : proc'[q] = proc[q]
    BY <1>5 DEF DemoInd, DemoTypeOK
  <2>2. \A q \in Makers(s) : q = p
    BY <1>2, <1>3 DEF VoiceBudget
  <2>3. \A q \in Creating(s) : q \in Makers(s)
    BY DEF Creating, Makers
  <2>4. QED
    BY <1>5, <2>1, <2>2, <2>3 DEF Makers, Creating
<1>9. VoiceBudget(s)'
  BY <1>2, <1>3, <1>4, <1>8 DEF VoiceBudget
<1>10. Budget(s)'
  BY <1>2, <1>4, <1>9 DEF Budget
<1>11. QED
  BY <1>4, <1>5, <1>6, <1>7, <1>10, OneBudget

LEMMA DemoNextInd == DemoInd /\ [DemoNext]_demoVars => DemoInd'
<1> SUFFICES ASSUME DemoInd, [DemoNext]_demoVars PROVE DemoInd'
  OBVIOUS
<1>1. ASSUME NEW p \in Procs, Chat(p)
      PROVE  DemoInd'
  BY <1>1, WatchStep, ClaimTurnStep, StepOnly, AskProviderStep, ChatWrites DEF Chat
<1>2. ASSUME NEW p \in Procs, Voice(p)
      PROVE  DemoInd'
  BY <1>2, WatchStep, OverrunStep, ClaimCallStep, StepOnly, CallCreatedStep, ChatWrites, RecheckVoiceStep DEF Voice
<1>3. ASSUME NEW p \in Procs, End(p)
      PROVE  DemoInd'
  BY <1>3, WatchStep, EndReadsStep, HangUpStep, StepOnly, ChatWrites DEF End
<1>4. ASSUME NEW p \in Procs, Throws(p) \/ DemoCrash(p)
      PROVE  DemoInd'
  BY <1>4, FaultStep
<1>5. ASSUME NEW s \in Sessions, VoiceResponse(s) \/ Sweep(s) \/ Expires(s) \/ MarkerEnds(s)
      PROVE  DemoInd'
  BY <1>5, ResponseStep, WatchStep, TimeStep DEF Procs
<1>6. ASSUME NEW value \in BOOLEAN, DemoChanges(value)
      PROVE  DemoInd'
  BY <1>6, TimeStep DEF DemoChanges
<1>7. CASE UNCHANGED demoVars
  <2>1. DemoTypeOK' /\ proc' = proc /\ used' = used /\ socket' = socket /\ row' = row
    BY <1>7 DEF demoVars, showing, DemoInd, DemoTypeOK
  <2>2. QED
    BY <2>1, NoProc
<1>8. QED
  BY <1>1, <1>2, <1>3, <1>4, <1>5, <1>6, <1>7, StartStep DEF DemoNext

\* Rows, processes, calls and sidebands keep their types, and what a session
\* may still ask of the provider is what its requests have claimed.
THEOREM DemoInductive == DemoSpec => []DemoInd
<1>1. QED
  BY DemoInitInd, DemoNextInd, PTL DEF DemoSpec

\* One call per voice session and at most MAX_TURNS replies per chat, for any
\* number of requests and replicas, retries, failures and late markers.
THEOREM UsageStaysBounded == DemoSpec => []UsageBounded
<1>1. DemoInd => UsageBounded
  <2> SUFFICES ASSUME DemoInd, NEW s \in Sessions
               PROVE  used[s] <= IF row[s].channel = "voice" THEN 1 ELSE MaxTurns
    BY DEF UsageBounded
  <2>1. used[s] \in Nat /\ row[s].turns \in Nat /\ row[s] \in Rows /\ MaxTurns \in Nat /\ Budget(s)
    BY DemoAssumption DEF DemoInd, DemoTypeOK, Rows
  <2>2. CASE row[s].channel = "chat"
    <3>1. Cardinality(Claimed(s)) \in Nat /\ used[s] + Cardinality(Claimed(s)) <= row[s].turns /\ row[s].turns <= MaxTurns
      BY <2>1, <2>2, FS_CardinalityType DEF Budget, ChatBudget
    <3>2. QED
      BY <2>1, <2>2, <3>1
  <2>3. CASE row[s].channel = "voice"
    BY <2>1, <2>3 DEF Budget, VoiceBudget
  <2>4. CASE row[s].channel = "none"
    BY <2>1, <2>4 DEF Budget
  <2>5. QED
    BY <2>1, <2>2, <2>3, <2>4 DEF Rows
<1>2. QED
  BY <1>1, DemoInductive, PTL

------------------------------------------------------------------------------
(* Demo sessions: one chat request at a time, until one is too slow.        *)

Worker(p, s) == proc[p].session = s /\ proc[p].pc \in ChatSteps \ {"checked"}
Holding == {"asking", "answered", "saving"}

\* The marker of a session keeps others out while a request works on it, so
\* the transcript it extends is the one on the row.
TurnsInv ==
    \A s \in Sessions \ stalled : \A p \in Procs : Worker(p, s) =>
        /\ row[s].busy = "yes"
        /\ \A q \in Procs : Worker(q, s) => q = p
        /\ proc[p].pc \in Holding => proc[p].seen = row[s].messages

\* The row of a session as requests that work on it see it.
SameTurn(s) ==
    /\ row'[s].messages = row[s].messages
    /\ row'[s].busy = row[s].busy \/ row'[s].busy = "yes"

LEMMA KeepTurns ==
    ASSUME TurnsInv, NEW p \in Procs, stalled \subseteq stalled',
           \A q \in Procs \ {p} : proc'[q] = proc[q],
           \A s \in Sessions : SameTurn(s),
           \A s \in Sessions \ stalled' : Worker(p, s)' =>
               Worker(p, s) /\ (proc'[p].pc \in Holding => proc'[p].seen = row[s].messages)
    PROVE  TurnsInv'
<1> SUFFICES ASSUME NEW s \in Sessions \ stalled', NEW q \in Procs, Worker(q, s)'
             PROVE  /\ row'[s].busy = "yes"
                    /\ \A o \in Procs : Worker(o, s)' => o = q
                    /\ proc'[q].pc \in Holding => proc'[q].seen = row'[s].messages
  BY DEF TurnsInv
<1>1. \A o \in Procs : Worker(o, s)' => Worker(o, s)
  BY DEF Worker
<1>2. Worker(q, s)
  BY <1>1
<1>3. row[s].busy = "yes" /\ (\A o \in Procs : Worker(o, s) => o = q)
      /\ (proc[q].pc \in Holding => proc[q].seen = row[s].messages)
  BY <1>2 DEF TurnsInv
<1>4. SameTurn(s)
  OBVIOUS
<1>5. row'[s].busy = "yes" /\ row'[s].messages = row[s].messages
  BY <1>3, <1>4 DEF SameTurn
<1>6. proc'[q].pc \in Holding => proc'[q].seen = row[s].messages
  BY <1>3
<1>7. QED
  BY <1>1, <1>3, <1>5, <1>6

LEMMA StepDisjoint ==
    /\ Holding \subseteq ChatSteps \ {"checked"}
    /\ \A step \in {"idle", "checked"} \cup VoiceSteps \cup EndSteps : step \notin ChatSteps \ {"checked"}
BY DEF Holding, ChatSteps, VoiceSteps, EndSteps

\* A process that goes to a step outside the chat, or on within it.
LEMMA LeaveTurns ==
    ASSUME DemoInd, TurnsInv, NEW p \in Procs, stalled \subseteq stalled',
           \A s \in Sessions : SameTurn(s),
           NEW new, proc' = [proc EXCEPT ![p] = new],
           new.pc \in {"idle", "checked"} \cup VoiceSteps \cup EndSteps
    PROVE  TurnsInv'
<1>1. proc'[p] = new /\ \A q \in Procs \ {p} : proc'[q] = proc[q]
  BY ProcMoves DEF DemoInd
<1>2. \A s \in Sessions : ~Worker(p, s)'
  BY <1>1, StepDisjoint DEF Worker
<1>3. QED
  BY <1>1, <1>2, KeepTurns

LEMMA MoveTurns ==
    ASSUME DemoInd, TurnsInv, NEW p \in Procs, stalled \subseteq stalled',
           \A s \in Sessions : SameTurn(s),
           NEW step, Move(p, step), proc[p].pc \in ChatSteps \ {"checked"},
           step \in Holding => proc[p].pc \in Holding
    PROVE  TurnsInv'
<1> DEFINE new == [proc[p] EXCEPT !.pc = step]
<1>1. proc' = [proc EXCEPT ![p] = new]
  BY DEF Move
<1>2. new.session = proc[p].session /\ new.seen = proc[p].seen /\ new.pc = step
  BY DEF DemoInd, DemoTypeOK, ProcRecords
<1> HIDE DEF new
<1>3. proc'[p] = new /\ \A q \in Procs \ {p} : proc'[q] = proc[q]
  BY <1>1, ProcMoves DEF DemoInd
<1>4. ASSUME NEW s \in Sessions \ stalled', Worker(p, s)'
      PROVE  Worker(p, s) /\ (proc'[p].pc \in Holding => proc'[p].seen = row[s].messages)
  <2>1. Worker(p, s)
    BY <1>2, <1>3, <1>4 DEF Worker
  <2>2. QED
    BY <1>2, <1>3, <2>1 DEF TurnsInv
<1>5. QED
  BY <1>3, <1>4, KeepTurns

LEMMA RowEdits ==
    ASSUME DemoInd, NEW s \in Sessions, NEW r, row' = [row EXCEPT ![s] = r],
           r.messages = row[s].messages, r.busy = row[s].busy \/ r.busy = "yes"
    PROVE  \A t \in Sessions : SameTurn(t)
<1>1. row'[s] = r /\ \A t \in Sessions \ {s} : row'[t] = row[t]
  BY DEF DemoInd, DemoTypeOK
<1>2. QED
  BY <1>1 DEF SameTurn

\* The steps that write the row, but neither its transcript nor its marker
\* in the way of a turn.
LEMMA RowSame ==
    ASSUME DemoInd, row' = row
    PROVE  \A t \in Sessions : SameTurn(t)
BY DEF SameTurn

LEMMA RowParts ==
    ASSUME DemoInd, NEW s \in Sessions
    PROVE  /\ LET r == [row[s] EXCEPT !.ended = TRUE] IN r.messages = row[s].messages /\ r.busy = row[s].busy
           /\ LET r == [row[s] EXCEPT !.expired = TRUE] IN r.messages = row[s].messages /\ r.busy = row[s].busy
           /\ LET r == [row[s] EXCEPT !.ended = TRUE, !.call = 0]
              IN r.messages = row[s].messages /\ r.busy = row[s].busy
           /\ LET r == [row[s] EXCEPT !.turns = @ + 1] IN r.messages = row[s].messages /\ r.busy = row[s].busy
           /\ LET r == [row[s] EXCEPT !.busy = "yes", !.turns = 1]
              IN r.messages = row[s].messages /\ r.busy = "yes"
           /\ LET r == [row[s] EXCEPT !.busy = "yes", !.turns = @ + 1]
              IN r.messages = row[s].messages /\ r.busy = "yes"
           /\ \A n : LET r == [row[s] EXCEPT !.call = n] IN r.messages = row[s].messages /\ r.busy = row[s].busy
           /\ \A c : LET r == [row[s] EXCEPT !.channel = c] IN r.messages = row[s].messages /\ r.busy = row[s].busy
BY DEF DemoInd, DemoTypeOK, Rows

LEMMA OutTurns ==
    ASSUME DemoInd, TurnsInv, NEW p \in Procs, stalled \subseteq stalled',
           \A s \in Sessions : SameTurn(s),
           \/ Leave(p)
           \/ \E step \in {"checked"} \cup VoiceSteps \cup EndSteps, s \in Sessions : Begin(p, step, s)
           \/ \E step \in VoiceSteps \cup EndSteps : Move(p, step)
    PROVE  TurnsInv'
<1>1. CASE Leave(p)
  BY <1>1, LeaveTurns DEF Leave, Idle
<1>2. ASSUME NEW step \in {"checked"} \cup VoiceSteps \cup EndSteps, NEW s \in Sessions, Begin(p, step, s)
      PROVE  TurnsInv'
  <2> DEFINE new == [Idle EXCEPT !.pc = step, !.session = s]
  <2>1. new.pc = step /\ proc' = [proc EXCEPT ![p] = new]
    BY <1>2 DEF Idle, Begin
  <2> HIDE DEF new
  <2>2. QED
    BY <2>1, LeaveTurns
<1>3. ASSUME NEW step \in VoiceSteps \cup EndSteps, Move(p, step)
      PROVE  TurnsInv'
  <2> DEFINE new == [proc[p] EXCEPT !.pc = step]
  <2>1. new.pc = step /\ proc' = [proc EXCEPT ![p] = new]
    BY <1>3 DEF Move, DemoInd, DemoTypeOK, ProcRecords
  <2> HIDE DEF new
  <2>2. QED
    BY <2>1, LeaveTurns
<1>4. QED
  BY <1>1, <1>2, <1>3

LEMMA QuietTurns ==
    ASSUME DemoInd, TurnsInv, NEW p \in Procs,
           \/ \E s \in Sessions : CheckChat(p, s) \/ CheckVoice(p, s) \/ SocketFails(s, p) \/ BeginEnd(p, s)
           \/ \E s \in Sessions : Sweep(s) /\ p = Watchdog
           \/ TurnRefused(p) \/ CallRefused(p) \/ VoiceOpened(p) \/ HangUpFails(p) \/ HangUp(p)
           \/ RecheckVoice(p) \/ DemoCrash(p)
    PROVE  TurnsInv' /\ row' = row
<1>1. row' = row /\ stalled' = stalled
  BY DEF CheckChat, CheckVoice, SocketFails, BeginEnd, Sweep, TurnRefused, CallRefused, VoiceOpened,
         HangUpFails, HangUp, RecheckVoice, DemoCrash
<1>2. \A s \in Sessions : SameTurn(s)
  BY <1>1, RowSame
<1>3. \/ Leave(p)
      \/ \E step \in {"checked", "ringing", "ending"}, s \in Sessions : Begin(p, step, s)
      \/ \E step \in {"closing", "opening", "ending"} : Move(p, step)
  BY DEF CheckChat, CheckVoice, SocketFails, BeginEnd, Sweep, TurnRefused, CallRefused, VoiceOpened,
         HangUpFails, HangUp, RecheckVoice, DemoCrash
<1>4. {"checked", "ringing", "ending"} \subseteq {"checked"} \cup VoiceSteps \cup EndSteps
      /\ {"closing", "opening", "ending"} \subseteq VoiceSteps \cup EndSteps
  BY DEF VoiceSteps, EndSteps
<1>5. QED
  BY <1>1, <1>2, <1>3, <1>4, OutTurns

LEMMA VoiceTurns ==
    ASSUME DemoInd, TurnsInv, NEW p \in Procs,
           \/ \E s \in Sessions : VoiceOverrun(s, p)
           \/ ClaimCall(p) \/ CallNotCreated(p) \/ RecordCall(p) \/ EndWrites(p)
    PROVE  TurnsInv' /\ \A s \in Sessions : row'[s].messages = row[s].messages
<1>1. stalled' = stalled
  BY DEF VoiceOverrun, ClaimCall, CallNotCreated, RecordCall, EndWrites
<1>2. \A s \in Sessions : SameTurn(s)
  <2>1. ASSUME NEW s \in Sessions, VoiceOverrun(s, p)
        PROVE  \A t \in Sessions : SameTurn(t)
    <3>1. row' = [row EXCEPT ![s] = [row[s] EXCEPT !.turns = @ + 1]]
      BY <2>1 DEF VoiceOverrun
    <3>2. QED
      BY <3>1, RowParts, RowEdits
  <2>2. ~At(p, "idle") => proc[p].session \in Sessions
    BY AtSession DEF At
  <2>3. CASE ClaimCall(p)
    <3>1. proc[p].session \in Sessions
      BY <2>2, <2>3 DEF ClaimCall, At
    <3>2. row' = [row EXCEPT ![proc[p].session] = [row[proc[p].session] EXCEPT !.busy = "yes", !.turns = 1]]
      BY <2>3 DEF ClaimCall
    <3>3. QED
      BY <3>1, <3>2, RowParts, RowEdits
  <2>4. CASE CallNotCreated(p)
    <3>1. proc[p].session \in Sessions
      BY <2>2, <2>4 DEF CallNotCreated, At
    <3>2. row' = [row EXCEPT ![proc[p].session] = [row[proc[p].session] EXCEPT !.ended = TRUE]]
      BY <2>4 DEF CallNotCreated
    <3>3. QED
      BY <3>1, <3>2, RowParts, RowEdits
  <2>5. CASE RecordCall(p)
    <3>1. proc[p].session \in Sessions
      BY <2>2, <2>5 DEF RecordCall, At
    <3>2. row' = [row EXCEPT ![proc[p].session] = [row[proc[p].session] EXCEPT !.call = proc[p].call]]
      BY <2>5 DEF RecordCall
    <3>3. QED
      BY ZenonT(30), <3>1, <3>2, RowParts, RowEdits
  <2>6. CASE EndWrites(p)
    <3>1. proc[p].session \in Sessions
      BY <2>2, <2>6 DEF EndWrites, At
    <3>2. row' = [row EXCEPT ![proc[p].session] = [row[proc[p].session] EXCEPT !.ended = TRUE, !.call = 0]]
      BY <2>6 DEF EndWrites
    <3>3. QED
      BY <3>1, <3>2, RowParts, RowEdits
  <2>7. QED
    BY <2>1, <2>3, <2>4, <2>5, <2>6
<1>3. \/ Leave(p)
      \/ \E s \in Sessions : Begin(p, "ending", s)
      \/ Move(p, "creating") \/ Move(p, "recorded")
  BY DEF VoiceOverrun, ClaimCall, CallNotCreated, RecordCall, EndWrites
<1>4. "ending" \in EndSteps /\ "creating" \in VoiceSteps /\ "recorded" \in VoiceSteps
  BY DEF VoiceSteps, EndSteps
<1>5. TurnsInv'
  BY <1>1, <1>2, <1>3, <1>4, OutTurns
<1>6. QED
  BY <1>2, <1>5 DEF SameTurn

\* Steps that set more than the place of their process.
LEMMA SetTurns ==
    ASSUME DemoInd, TurnsInv, NEW p \in Procs, CallCreated(p) \/ EndReads(p)
    PROVE  TurnsInv' /\ row' = row
<1>1. row' = row /\ stalled' = stalled
  BY DEF CallCreated, EndReads
<1>2. \A s \in Sessions : SameTurn(s)
  BY <1>1, RowSame
<1>3. PICK step \in {"recording", "closing", "hanging"}, n \in {used[proc[p].session] + 1, row[proc[p].session].call} :
         proc' = [proc EXCEPT ![p].pc = step, ![p].call = n]
  BY DEF CallCreated, EndReads
<1> DEFINE new == [proc[p] EXCEPT !.pc = step, !.call = n]
<1>4. new.pc = step /\ proc' = [proc EXCEPT ![p] = new]
  BY <1>3 DEF DemoInd, DemoTypeOK, ProcRecords
<1>5. step \in VoiceSteps \cup EndSteps
  BY DEF VoiceSteps, EndSteps
<1> HIDE DEF new
<1>6. QED
  BY <1>1, <1>2, <1>4, <1>5, LeaveTurns

LEMMA TimeTurns ==
    ASSUME DemoInd, TurnsInv,
           \/ \E s \in Sessions, channel \in {"chat", "voice"} : StartSession(s, channel)
           \/ \E s \in Sessions : VoiceResponse(s) \/ Expires(s)
           \/ \E value \in BOOLEAN : DemoChanges(value)
    PROVE  TurnsInv' /\ \A s \in Sessions : row'[s].messages = row[s].messages
<1>1. stalled' = stalled /\ proc' = proc
  BY DEF StartSession, VoiceResponse, Expires, DemoChanges
<1>2. \A s \in Sessions : SameTurn(s)
  <2>1. ASSUME NEW s \in Sessions, NEW channel \in {"chat", "voice"}, StartSession(s, channel)
        PROVE  \A t \in Sessions : SameTurn(t)
    <3>1. row' = [row EXCEPT ![s] = [row[s] EXCEPT !.channel = channel]]
      BY <2>1 DEF StartSession
    <3>2. QED
      BY <3>1, RowParts, RowEdits
  <2>2. ASSUME NEW s \in Sessions, VoiceResponse(s)
        PROVE  \A t \in Sessions : SameTurn(t)
    <3>1. row' = [row EXCEPT ![s] = [row[s] EXCEPT !.turns = @ + 1]]
      BY <2>2 DEF VoiceResponse
    <3>2. QED
      BY <3>1, RowParts, RowEdits
  <2>3. ASSUME NEW s \in Sessions, Expires(s)
        PROVE  \A t \in Sessions : SameTurn(t)
    <3>1. row' = [row EXCEPT ![s] = [row[s] EXCEPT !.expired = TRUE]]
      BY <2>3 DEF Expires
    <3>2. QED
      BY <3>1, RowParts, RowEdits
  <2>4. ASSUME NEW value \in BOOLEAN, DemoChanges(value)
        PROVE  \A t \in Sessions : SameTurn(t)
    BY <2>4, RowSame DEF DemoChanges
  <2>5. QED
    BY <2>1, <2>2, <2>3, <2>4
<1>3. TurnsInv'
  BY <1>1, <1>2 DEF TurnsInv, SameTurn, Worker
<1>4. QED
  BY <1>2, <1>3 DEF SameTurn

LEMMA ChatMoves ==
    ASSUME DemoInd, TurnsInv, NEW p \in Procs, ProviderReplies(p) \/ RecheckChat(p) \/ Throws(p)
    PROVE  TurnsInv' /\ row' = row
<1>1. row' = row /\ stalled' = stalled
  BY DEF ProviderReplies, RecheckChat, Throws
<1>2. \A s \in Sessions : SameTurn(s)
  BY <1>1, RowSame
<1>3. \/ Leave(p) \/ Move(p, "ending")
      \/ proc[p].pc \in Holding \cup {"claimed"} /\ Move(p, "clearing")
      \/ proc[p].pc \in Holding /\ \E step \in {"answered", "saving"} : Move(p, step)
  BY DEF ProviderReplies, RecheckChat, Throws, At, Holding
<1>4. Holding \cup {"claimed"} \subseteq ChatSteps \ {"checked"} /\ "clearing" \notin Holding
  BY DEF Holding, ChatSteps
<1>5. CASE Leave(p) \/ Move(p, "ending")
  <2>1. "ending" \in VoiceSteps \cup EndSteps
    BY DEF EndSteps
  <2>2. QED
    BY <1>1, <1>2, <1>5, <2>1, OutTurns
<1>6. CASE proc[p].pc \in Holding \cup {"claimed"} /\ Move(p, "clearing")
  BY <1>1, <1>2, <1>4, <1>6, MoveTurns
<1>7. ASSUME NEW step \in {"answered", "saving"}, Move(p, step), proc[p].pc \in Holding
      PROVE  TurnsInv'
  BY <1>1, <1>2, <1>4, <1>7, MoveTurns
<1>8. QED
  BY <1>1, <1>3, <1>5, <1>6, <1>7

LEMMA AskTurns ==
    ASSUME DemoInd, TurnsInv, NEW p \in Procs, AskProvider(p)
    PROVE  TurnsInv' /\ row' = row
<1> DEFINE s == proc[p].session
           new == [proc[p] EXCEPT !.pc = "asking", !.seen = row[s].messages]
<1>1. row' = row /\ stalled' = stalled /\ proc' = [proc EXCEPT ![p] = new] /\ proc[p].pc = "claimed"
  BY DEF AskProvider, At
<1>2. new.pc = "asking" /\ new.session = s /\ new.seen = row[s].messages
  BY DEF DemoInd, DemoTypeOK, ProcRecords
<1> HIDE DEF new
<1>3. proc'[p] = new /\ \A q \in Procs \ {p} : proc'[q] = proc[q]
  BY <1>1, ProcMoves DEF DemoInd
<1>4. \A t \in Sessions : Worker(p, t)' => Worker(p, t) /\ proc'[p].seen = row[t].messages
  BY <1>1, <1>2, <1>3 DEF Worker, ChatSteps
<1>5. \A t \in Sessions : SameTurn(t)
  BY <1>1, RowSame
<1>6. QED
  BY <1>1, <1>3, <1>4, <1>5, KeepTurns

LEMMA ClaimTurns ==
    ASSUME DemoInd, TurnsInv, NEW p \in Procs, ClaimTurn(p)
    PROVE  TurnsInv' /\ \A s \in Sessions : row'[s].messages = row[s].messages
<1>1. PICK s \in Sessions : s = proc[p].session
  BY AtSession DEF ClaimTurn, At
<1> DEFINE new == [proc[p] EXCEPT !.pc = "claimed", !.turn = row[s].turns + 1]
<1>2. /\ stalled' = stalled /\ proc' = [proc EXCEPT ![p] = new] /\ proc[p].pc = "checked" /\ row[s].busy # "yes"
      /\ row' = [row EXCEPT ![s] = [row[s] EXCEPT !.busy = "yes", !.turns = @ + 1]]
  BY <1>1 DEF ClaimTurn, At, TurnFree
<1>3. new.pc = "claimed" /\ new.session = s
  BY <1>1 DEF DemoInd, DemoTypeOK, ProcRecords
<1>4. s \in Sessions
  OBVIOUS
<1>5. row'[s].busy = "yes" /\ \A t \in Sessions : SameTurn(t)
  <2> DEFINE r == [row[s] EXCEPT !.busy = "yes", !.turns = @ + 1]
  <2>1. r.messages = row[s].messages /\ r.busy = "yes"
    BY <1>4, RowParts
  <2>2. row' = [row EXCEPT ![s] = r]
    BY <1>2
  <2> HIDE DEF r
  <2>3. row'[s] = r
    BY <1>4, <2>2 DEF DemoInd, DemoTypeOK
  <2>4. QED
    BY <1>4, <2>1, <2>2, <2>3, RowEdits
<1> HIDE DEF new
<1>6. proc'[p] = new /\ \A q \in Procs \ {p} : proc'[q] = proc[q]
  BY <1>2, ProcMoves DEF DemoInd
<1>7. s \notin stalled => \A q \in Procs : ~Worker(q, s)
  BY <1>1, <1>2, <1>4 DEF TurnsInv
<1>8. TurnsInv'
  <2> SUFFICES ASSUME NEW t \in Sessions \ stalled', NEW q \in Procs, Worker(q, t)'
               PROVE  /\ row'[t].busy = "yes"
                      /\ \A o \in Procs : Worker(o, t)' => o = q
                      /\ proc'[q].pc \in Holding => proc'[q].seen = row'[t].messages
    BY DEF TurnsInv
  <2>1. CASE t = s
    <3>1. \A o \in Procs : Worker(o, s)' => o = p
      BY <1>2, <1>6, <1>7, <2>1 DEF Worker
    <3>2. q = p
      BY <2>1, <3>1
    <3>3. QED
      BY <1>3, <1>5, <1>6, <2>1, <3>1, <3>2 DEF Holding
  <2>2. CASE t # s
    <3>1. \A o \in Procs : Worker(o, t)' => o # p /\ Worker(o, t) /\ proc'[o] = proc[o]
      BY <1>3, <1>6, <2>2 DEF Worker
    <3>2. SameTurn(t)
      BY <1>5
    <3>3. QED
      BY <1>2, <3>1, <3>2 DEF TurnsInv, SameTurn
  <2>3. QED
    BY <2>1, <2>2
<1>9. QED
  BY <1>5, <1>8 DEF SameTurn

\* The finally block: nobody else works on the session.
LEMMA ClearTurns ==
    ASSUME DemoInd, TurnsInv, NEW p \in Procs, ClearBusy(p)
    PROVE  TurnsInv' /\ \A s \in Sessions : row'[s].messages = row[s].messages
<1>1. PICK s \in Sessions : s = proc[p].session
  BY AtSession DEF ClearBusy, At
<1> DEFINE r == [row[s] EXCEPT !.busy = "no"]
<1>2. /\ stalled' = stalled /\ proc' = [proc EXCEPT ![p] = Idle] /\ proc[p].pc = "clearing"
      /\ row' = [row EXCEPT ![s] = r]
  BY <1>1 DEF ClearBusy, At, Leave
<1>3. s \in Sessions /\ row[s] \in Rows
  BY <1>1, <1>2, AtSession
<1>4. r.messages = row[s].messages
  BY <1>3 DEF Rows
<1> HIDE DEF r
<1>5. row'[s] = r /\ \A t \in Sessions \ {s} : row'[t] = row[t]
  BY <1>2, <1>3 DEF DemoInd, DemoTypeOK
<1>6. proc'[p] = Idle /\ \A q \in Procs \ {p} : proc'[q] = proc[q]
  BY <1>2, ProcMoves DEF DemoInd
<1>7. Worker(p, s)
  BY <1>1, <1>2 DEF Worker, ChatSteps
<1>8. s \notin stalled => \A q \in Procs : ~Worker(q, s)'
  <2> SUFFICES ASSUME s \notin stalled, NEW q \in Procs, Worker(q, s)' PROVE FALSE
    OBVIOUS
  <2>1. q # p
    BY <1>6 DEF Worker, Idle, ChatSteps
  <2>2. Worker(q, s)
    BY <1>2, <1>6, <2>1 DEF Worker
  <2>3. QED
    BY <1>3, <1>7, <2>1, <2>2 DEF TurnsInv
<1>9. TurnsInv'
  <2> SUFFICES ASSUME NEW t \in Sessions \ stalled', NEW q \in Procs, Worker(q, t)'
               PROVE  /\ row'[t].busy = "yes"
                      /\ \A o \in Procs : Worker(o, t)' => o = q
                      /\ proc'[q].pc \in Holding => proc'[q].seen = row'[t].messages
    BY DEF TurnsInv
  <2>1. t # s
    BY <1>2, <1>8
  <2>2. \A o \in Procs : Worker(o, t)' => Worker(o, t) /\ proc'[o] = proc[o]
    BY <1>6 DEF Worker, Idle, ChatSteps
  <2>3. QED
    BY <1>2, <1>5, <2>1, <2>2 DEF TurnsInv
<1>10. QED
  BY <1>4, <1>5, <1>9

LEMMA SaveTurns ==
    ASSUME DemoInd, TurnsInv, NEW p \in Procs, SaveReply(p)
    PROVE  /\ TurnsInv'
           /\ \A s \in Sessions \ stalled :
                  \/ row'[s].messages = row[s].messages
                  \/ row'[s].messages = Append(row[s].messages, proc[p].turn)
<1>1. PICK s \in Sessions : s = proc[p].session
  BY AtSession DEF SaveReply, At
<1> DEFINE r == [row[s] EXCEPT !.messages = Append(proc[p].seen, proc[p].turn)]
           new == [proc[p] EXCEPT !.pc = "clearing"]
<1>2. /\ stalled' = stalled /\ proc' = [proc EXCEPT ![p] = new] /\ proc[p].pc = "saving"
      /\ row' = [row EXCEPT ![s] = r]
  BY <1>1 DEF SaveReply, At, Move
<1>3. s \in Sessions /\ row[s] \in Rows /\ proc[p] \in ProcRecords
  BY <1>1, <1>2, AtSession
<1>4. r.messages = Append(proc[p].seen, proc[p].turn) /\ r.busy = row[s].busy
  BY <1>3 DEF Rows
<1>5. new.pc = "clearing" /\ new.session = s
  BY <1>1, <1>3 DEF ProcRecords
<1> HIDE DEF r, new
<1>6. row'[s] = r /\ \A t \in Sessions \ {s} : row'[t] = row[t]
  BY <1>2, <1>3 DEF DemoInd, DemoTypeOK
<1>7. proc'[p] = new /\ \A q \in Procs \ {p} : proc'[q] = proc[q]
  BY <1>2, ProcMoves DEF DemoInd
<1>8. Worker(p, s)
  BY <1>1, <1>2 DEF Worker, ChatSteps
<1>9. TurnsInv'
  <2> SUFFICES ASSUME NEW t \in Sessions \ stalled', NEW q \in Procs, Worker(q, t)'
               PROVE  /\ row'[t].busy = "yes"
                      /\ \A o \in Procs : Worker(o, t)' => o = q
                      /\ proc'[q].pc \in Holding => proc'[q].seen = row'[t].messages
    BY DEF TurnsInv
  <2>1. \A o \in Procs : Worker(o, t)' => Worker(o, t)
    BY <1>5, <1>7, <1>8 DEF Worker
  <2>2. row[t].busy = "yes" /\ \A o \in Procs : Worker(o, t) => o = q
    BY <1>2, <2>1 DEF TurnsInv
  <2>3. CASE t = s
    <3>1. q = p
      BY <1>8, <2>2, <2>3
    <3>2. proc'[q].pc \notin Holding
      BY <1>5, <1>7, <3>1 DEF Holding
    <3>3. QED
      BY <1>4, <1>6, <2>1, <2>2, <2>3, <3>2
  <2>4. CASE t # s
    <3>1. q # p
      BY <1>5, <1>7, <2>4 DEF Worker
    <3>2. proc'[q] = proc[q] /\ row'[t] = row[t] /\ Worker(q, t)
      BY <1>6, <1>7, <2>1, <2>4, <3>1
    <3>3. proc[q].pc \in Holding => proc[q].seen = row[t].messages
      BY <1>2, <3>2 DEF TurnsInv
    <3>4. QED
      BY <2>1, <2>2, <3>2, <3>3
  <2>5. QED
    BY <2>3, <2>4
<1>10. s \notin stalled => proc[p].seen = row[s].messages
  BY <1>2, <1>3, <1>8 DEF TurnsInv, Holding
<1>11. ASSUME NEW t \in Sessions \ stalled
       PROVE  \/ row'[t].messages = row[t].messages
              \/ row'[t].messages = Append(row[t].messages, proc[p].turn)
  BY <1>4, <1>6, <1>10
<1>12. QED
  BY <1>9, <1>11

\* Thirty seconds pass: of a session whose marker ends nobody is at work, or
\* the one who is was too slow.
LEMMA MarkerTurns ==
    ASSUME DemoInd, TurnsInv, NEW s \in Sessions, MarkerEnds(s)
    PROVE  TurnsInv' /\ \A t \in Sessions : row'[t].messages = row[t].messages
<1> DEFINE r == [row[s] EXCEPT !.busy = "over"]
<1>1. row' = [row EXCEPT ![s] = r] /\ proc' = proc /\ stalled \subseteq stalled'
  BY DEF MarkerEnds
<1>2. r.messages = row[s].messages
  BY DEF DemoInd, DemoTypeOK, Rows
<1> HIDE DEF r
<1>3. row'[s] = r /\ \A t \in Sessions \ {s} : row'[t] = row[t]
  BY <1>1 DEF DemoInd, DemoTypeOK
<1>4. s \notin stalled' => \A p \in Procs : ~Worker(p, s)
  BY DEF MarkerEnds, Serving, Worker
<1>5. TurnsInv'
  <2> SUFFICES ASSUME NEW t \in Sessions \ stalled', NEW q \in Procs, Worker(q, t)'
               PROVE  /\ row'[t].busy = "yes"
                      /\ \A o \in Procs : Worker(o, t)' => o = q
                      /\ proc'[q].pc \in Holding => proc'[q].seen = row'[t].messages
    BY DEF TurnsInv
  <2>1. \A o \in Procs : Worker(o, t)' <=> Worker(o, t)
    BY <1>1 DEF Worker
  <2>2. t # s
    BY <1>4, <2>1
  <2>3. row'[t] = row[t] /\ t \notin stalled
    BY <1>1, <1>3, <2>2
  <2>4. QED
    BY <1>1, <2>1, <2>3 DEF TurnsInv
<1>6. QED
  BY <1>2, <1>3, <1>5

LEMMA PrefixOf ==
    ASSUME NEW S, NEW m \in Seq(S), NEW n, n = m \/ \E x \in S : n = Append(m, x)
    PROVE  IsPrefix(m, n)
BY DEF IsPrefix

LEMMA TurnsStep ==
    ASSUME DemoInd, TurnsInv, [DemoNext]_demoVars
    PROVE  /\ TurnsInv'
           /\ \A s \in Sessions \ stalled' : IsPrefix(row[s].messages, row'[s].messages)
<1> DEFINE Grows == \A s \in Sessions \ stalled' :
                        \/ row'[s].messages = row[s].messages
                        \/ \E p \in Procs : /\ row'[s].messages = Append(row[s].messages, proc[p].turn)
                                            /\ SaveReply(p)
<1>1. ASSUME NEW p \in Procs, SaveReply(p)
      PROVE  TurnsInv' /\ Grows
  <2>1. stalled' = stalled
    BY <1>1 DEF SaveReply
  <2>2. QED
    BY <1>1, <2>1, SaveTurns
<1>2. ASSUME NEW p \in Procs, Chat(p)
      PROVE  TurnsInv' /\ Grows
  BY <1>1, <1>2, QuietTurns, ClaimTurns, AskTurns, ChatMoves, ClearTurns DEF Chat
<1>3. ASSUME NEW p \in Procs, Voice(p)
      PROVE  TurnsInv' /\ Grows
  BY <1>3, QuietTurns, VoiceTurns, SetTurns DEF Voice
<1>4. ASSUME NEW p \in Procs, End(p)
      PROVE  TurnsInv' /\ Grows
  BY <1>4, QuietTurns, VoiceTurns, SetTurns DEF End
<1>5. ASSUME NEW p \in Procs, Throws(p) \/ DemoCrash(p)
      PROVE  TurnsInv' /\ Grows
  BY <1>5, ChatMoves, QuietTurns
<1>6. ASSUME NEW s \in Sessions, VoiceResponse(s) \/ Sweep(s) \/ Expires(s) \/ MarkerEnds(s)
      PROVE  TurnsInv' /\ Grows
  BY <1>6, TimeTurns, QuietTurns, MarkerTurns DEF Procs
<1>7. ASSUME NEW s \in Sessions, NEW channel \in {"chat", "voice"}, StartSession(s, channel)
      PROVE  TurnsInv' /\ Grows
  BY <1>7, TimeTurns
<1>8. ASSUME NEW value \in BOOLEAN, DemoChanges(value)
      PROVE  TurnsInv' /\ Grows
  BY <1>8, TimeTurns
<1>9. ASSUME UNCHANGED demoVars
      PROVE  TurnsInv' /\ Grows
  BY <1>9 DEF demoVars, TurnsInv, Worker
<1>10. TurnsInv' /\ Grows
  BY <1>2, <1>3, <1>4, <1>5, <1>6, <1>7, <1>8, <1>9 DEF DemoNext
<1>11. ASSUME NEW s \in Sessions \ stalled'
       PROVE  IsPrefix(row[s].messages, row'[s].messages)
  <2>1. row[s].messages \in Seq(1..MaxTurns)
    BY DEF DemoInd, DemoTypeOK, Rows
  <2>2. \A p \in Procs : SaveReply(p) => proc[p].turn \in 1..MaxTurns
    <3> SUFFICES ASSUME NEW p \in Procs, SaveReply(p) PROVE proc[p].turn \in 1..MaxTurns
      OBVIOUS
    <3>1. proc[p].pc = "saving"
      BY DEF SaveReply, At
    <3>2. proc[p].turn \in 0..MaxTurns /\ proc[p].turn > 0
      BY <3>1, AtSession DEF Fits, ProcRecords, ChatSteps
    <3>3. QED
      BY <3>2, DemoAssumption
  <2>3. QED
    BY <1>10, <2>1, <2>2, PrefixOf
<1>12. QED
  BY <1>10, <1>11

\* A reply never makes the transcript lose an earlier one, for any number of
\* requests and replicas, unless one of them outlived its marker.
THEOREM TranscriptsOnlyGrow == DemoSpec => TranscriptsGrow
<1>1. DemoInit => TurnsInv
  BY DEF DemoInit, TurnsInv, Worker, Idle, ChatSteps
<1>2. DemoInd /\ TurnsInv /\ [DemoNext]_demoVars => TurnsInv'
  BY TurnsStep
<1>3. DemoInd /\ TurnsInv /\ [DemoNext]_demoVars =>
          [\A s \in Sessions \ stalled' : IsPrefix(row[s].messages, row'[s].messages)]_demoVars
  BY TurnsStep
<1>4. QED
  BY <1>1, <1>2, <1>3, DemoInductive, PTL DEF DemoSpec, TranscriptsGrow

=============================================================================
