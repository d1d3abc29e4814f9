----------------------------- MODULE LeadOutreach -----------------------------
(***************************************************************************)
(* Approaching scored leads: qualified-lead delivery                       *)
(* (lead-intelligence/delivery), the prospecting call queue                *)
(* (lead-intelligence/call-queue, routes/admin-call-queue.ts), the lead    *)
(* page's decisions (routes/admin-lead-intelligence.ts).                   *)
(*                                                                         *)
(* A delivery campaign hands each qualified lead to its destination once;  *)
(* the DeliveryRecord, unique per campaign and lead, is created before the *)
(* destination is called.  A failed delivery is handed over again when an  *)
(* operator asks for it.  Only the call desk's writes and the queue entry  *)
(* of a delivery are transactions; the rest are single statements.  Any of *)
(* them may be done although its answer is lost.                           *)
(***************************************************************************)
EXTENDS Integers, FiniteSets

CONSTANTS
  OutreachLeads,  \* leads with a score
  Campaigns,      \* delivery campaigns
  Destination,    \* [Campaigns -> {"GHL", "ZAPIER_WEBHOOK", "CSV_EXPORT", "CALL_QUEUE"}]
  Desks,          \* processes that deliver, retry or record a permission
  PermissionRequests, \* what a request to record a permission may say
  MaxRetries,     \* a bound on the retries that are asked for
  MaxLost,        \* a bound on deliveries and writes that fail
  MaxCalls        \* a bound on recorded calls and decisions

\* What a request leaves unsaid is taken from the row.  A source may be blank.
AllRequests ==
  [consent : {"unsaid", "unknown", "granted", "opted_out"}, dnc : {"unsaid", "yes", "no"},
   suppressed : {"unsaid", "yes", "no"}, source : {"unsaid", "named", "blank"}]

ASSUME OutreachAssumption ==
  IsFiniteSet(Desks) /\ MaxRetries \in Nat /\ PermissionRequests \subseteq AllRequests

CallStatuses == {"no_answer", "interested", "demo_booked", "do_not_contact"}
TerminalCalls == {"demo_booked", "not_interested", "bad_fit", "do_not_contact"}

VARIABLES
  qualifying,  \* leads whose current score and contact data satisfy the criteria
  outreach,    \* LeadOutreachState: [disposition, contactable]
  permission,  \* LeadContactPermission: [consent, sourced, dnc, suppressed, eligible, candidate]
  suppression, \* leads with an OfferSuppression that is not lifted
  record,      \* DeliveryRecord per campaign and lead: [status, retries]
  accepted,    \* how often the destination took the lead over
  entry,       \* CallQueueEntry per campaign and lead: its status
  desk,        \* what each process is doing
  lost, calls,
  failures,    \* history: how often a delivery was recorded as failed
  crossed,     \* history: deliveries retried when they were no longer failed
  refused,     \* history: refusals, of "calls" or "texts", that nobody has lifted
  overtaken    \* history: refusals written over from a row read before them

outreachVars ==
  <<qualifying, outreach, permission, suppression, record, accepted, entry, desk, lost, calls,
    failures, crossed, refused, overtaken>>
refusals == <<refused, overtaken>>
leadRows == <<qualifying, outreach, permission, suppression, refusals>>
deliveryHistory == <<failures, crossed>>

Pairs == Campaigns \X OutreachLeads
NoPermission == [consent |-> "unknown", sourced |-> FALSE, dnc |-> FALSE, suppressed |-> FALSE,
                 eligible |-> FALSE, candidate |-> FALSE]
IdleDesk == [pc |-> "idle", at |-> <<>>, seen |-> NoPermission]

OutreachInit ==
  /\ qualifying = OutreachLeads
  /\ outreach = [l \in OutreachLeads |-> [disposition |-> "not_contacted", contactable |-> TRUE]]
  /\ permission = [l \in OutreachLeads |-> NoPermission]
  /\ suppression = {}
  /\ record = [x \in Pairs |-> [status |-> "none", retries |-> 0]]
  /\ accepted = [x \in Pairs |-> 0]
  /\ entry = [x \in Pairs |-> "none"]
  /\ desk = [d \in Desks |-> IdleDesk]
  /\ lost = 0 /\ calls = 0
  /\ failures = [x \in Pairs |-> 0] /\ crossed = {}
  /\ refused = {} /\ overtaken = {}

Doing(d, pc) == desk[d].pc = pc
Becomes(d, pc) == [desk EXCEPT ![d].pc = pc]
Done(d) == [desk EXCEPT ![d] = IdleDesk]
SetStatus(x, status) == [record EXCEPT ![x].status = status]

-----------------------------------------------------------------------------
(* Who may be approached, in the two places that decide it.                *)

Blocked == {"do_not_contact", "invalid", "converted"}

\* Delivery: one unlocked query over the client's leads, then the criteria.
Qualified(c, l) ==
  /\ l \in qualifying \ suppression
  /\ record[<<c, l>>].status = "none"
  /\ outreach[l].contactable /\ outreach[l].disposition \notin Blocked
  /\ ~permission[l].dnc /\ ~permission[l].suppressed

\* The call queue.
Callable(x) ==
  /\ entry[x] \notin {"none"} \union TerminalCalls
  /\ outreach[x[2]].contactable
  /\ ~permission[x[2]].dnc

-----------------------------------------------------------------------------
(* Delivery.                                                               *)

SelectLead(d, c, l) ==
  /\ Doing(d, "idle")
  /\ Qualified(c, l)
  /\ desk' = [desk EXCEPT ![d] = [IdleDesk EXCEPT !.pc = "claim", !.at = <<c, l>>]]
  /\ UNCHANGED <<leadRows, deliveryHistory, record, accepted, entry, lost, calls>>

\* Mutant: the claim is an upsert.
ClaimedAlways(x) == TRUE
\* The unique key on campaign and lead: a second claim is a duplicate.
Claimed(x) == record[x].status = "none"

Claim(d) ==
  LET x == desk[d].at IN
  /\ Doing(d, "claim")
  /\ IF Claimed(x)
       THEN /\ record' = SetStatus(x, "processing")
            /\ desk' = Becomes(d, "send")
       ELSE /\ UNCHANGED record
            /\ desk' = Done(d)
  /\ UNCHANGED <<leadRows, deliveryHistory, accepted, entry, lost, calls>>

\* The destination is called outside any transaction; an answer may be lost
\* after the lead was taken.
Send(d) ==
  LET x == desk[d].at IN
  /\ desk[d].pc \in {"send", "resend"}
  /\ \/ /\ accepted' = [accepted EXCEPT ![x] = @ + 1]
        /\ desk' = Becomes(d, IF Doing(d, "send") THEN "mark" ELSE "remark")
        /\ UNCHANGED lost
     \/ /\ lost < MaxLost
        /\ Destination[x[1]] \in {"GHL", "ZAPIER_WEBHOOK"}
        /\ \E taken \in 0..1 : accepted' = [accepted EXCEPT ![x] = @ + taken]
        /\ desk' = Becomes(d, "fail")
        /\ lost' = lost + 1
  /\ UNCHANGED <<leadRows, deliveryHistory, record, entry, calls>>

\* Losing the answer to a write counts as a failed delivery, done or not.
MarkDelivered(d) ==
  LET x == desk[d].at IN
  /\ desk[d].pc \in {"mark", "remark"}
  /\ \/ /\ record' = SetStatus(x, "delivered")
        /\ desk' = IF Doing(d, "mark") /\ Destination[x[1]] = "CALL_QUEUE"
                     THEN Becomes(d, "enqueue") ELSE Done(d)
        /\ UNCHANGED lost
     \/ /\ lost < MaxLost /\ lost' = lost + 1
        /\ record' \in {record, SetStatus(x, "delivered")}
        /\ desk' = Becomes(d, "fail")
  /\ UNCHANGED <<leadRows, deliveryHistory, accepted, entry, calls>>

\* A first delivery to the call queue makes the entry; a retry does not.
Enqueued(x) ==
  /\ permission' = [permission EXCEPT ![x[2]].candidate = TRUE]
  /\ entry' = [entry EXCEPT ![x] = IF @ = "none" THEN "not_called" ELSE @]

EnqueueCall(d) ==
  LET x == desk[d].at IN
  /\ Doing(d, "enqueue")
  /\ \/ Enqueued(x) /\ desk' = Done(d) /\ UNCHANGED lost
     \/ /\ lost < MaxLost /\ lost' = lost + 1
        /\ desk' = Becomes(d, "fail")
        /\ Enqueued(x) \/ UNCHANGED <<permission, entry>>
  /\ UNCHANGED <<qualifying, outreach, suppression, refusals, deliveryHistory, record, accepted, calls>>

MarkFailed(d) ==
  /\ Doing(d, "fail")
  /\ record' = SetStatus(desk[d].at, "failed")
  /\ failures' = [failures EXCEPT ![desk[d].at] = @ + 1]
  /\ desk' = Done(d)
  /\ UNCHANGED <<leadRows, crossed, accepted, entry, lost, calls>>

\* An operator asks for a failed delivery again: a read, then an update that
\* does not ask whether the record is still failed.
AskRetry(d, x) ==
  /\ Doing(d, "idle")
  /\ record[x].status = "failed"
  /\ desk' = [desk EXCEPT ![d] = [IdleDesk EXCEPT !.pc = "retry", !.at = x]]
  /\ UNCHANGED <<leadRows, deliveryHistory, record, accepted, entry, lost, calls>>

Retried(x) == [record EXCEPT ![x] = [status |-> "processing", retries |-> @.retries + 1]]

Retry(d) ==
  LET x == desk[d].at IN
  /\ Doing(d, "retry")
  /\ record[x].retries < MaxRetries
  /\ record' = Retried(x)
  /\ crossed' = IF record[x].status = "failed" THEN crossed ELSE crossed \union {x}
  /\ desk' = Becomes(d, "resend")
  /\ UNCHANGED <<leadRows, failures, accepted, entry, lost, calls>>

DeskDies(d) ==
  /\ ~Doing(d, "idle")
  /\ lost < MaxLost
  /\ lost' = lost + 1
  /\ desk' = Done(d)
  /\ UNCHANGED <<leadRows, deliveryHistory, record, accepted, entry, calls>>

-----------------------------------------------------------------------------
(* The call desk: attempt, entry, outreach state and permission in one     *)
(* transaction.  The form of an entry that has become terminal still works.*)

DispositionOf(status) ==
  CASE status = "demo_booked" -> "qualified"
    [] status = "interested" -> "replied"
    [] status = "do_not_contact" -> "do_not_contact"
    [] OTHER -> "contacted"

\* Mutant: a refusal on the phone does not reach the text permission.
RefusesCallsOnly(p) == [p EXCEPT !.dnc = TRUE]
RefusesContact(p) == [p EXCEPT !.dnc = TRUE, !.eligible = FALSE]

RecordCall(x, status) ==
  LET l == x[2] IN
  /\ calls < MaxCalls
  /\ entry[x] # "none"
  /\ calls' = calls + 1
  /\ entry' = [entry EXCEPT ![x] = status]
  /\ outreach' = [outreach EXCEPT ![l] =
       [disposition |-> DispositionOf(status), contactable |-> status # "do_not_contact"]]
  /\ IF status = "do_not_contact"
       THEN /\ permission' = [permission EXCEPT ![l] = RefusesContact(@)]
            /\ refused' = refused \union {<<l, "calls">>}
            /\ overtaken' = overtaken \ {<<l, "calls">>}
       ELSE UNCHANGED <<permission, refusals>>
  /\ UNCHANGED <<qualifying, suppression, record, accepted, desk, lost, deliveryHistory>>

(* The lead page: upserts of the outreach state alone.                     *)

Decisions ==
  {[disposition |-> "contacted", contactable |-> TRUE],
   [disposition |-> "invalid", contactable |-> FALSE],
   [disposition |-> "paused", contactable |-> FALSE]}

DecideLead(l, decision) ==
  /\ calls < MaxCalls
  /\ calls' = calls + 1
  /\ outreach' = [outreach EXCEPT ![l] = decision]
  /\ UNCHANGED <<qualifying, permission, suppression, refusals, deliveryHistory, record, accepted,
                 entry, desk, lost>>

\* An offer is suppressed once, and lifted; a new score or listing changes
\* who qualifies.
Suppress(l) ==
  /\ calls < MaxCalls
  /\ calls' = calls + 1
  /\ suppression' = IF l \in suppression THEN suppression \ {l} ELSE suppression \union {l}
  /\ UNCHANGED <<qualifying, outreach, permission, refusals, deliveryHistory, record, accepted,
                 entry, desk, lost>>

Rescored(l) ==
  /\ calls < MaxCalls
  /\ calls' = calls + 1
  /\ qualifying' = IF l \in qualifying THEN qualifying \ {l} ELSE qualifying \union {l}
  /\ UNCHANGED <<outreach, permission, suppression, refusals, deliveryHistory, record, accepted,
                 entry, desk, lost>>

(* Recording a permission: the row is read, and all of it written back.    *)

ReadPermission(d, l) ==
  /\ Doing(d, "idle")
  /\ calls < MaxCalls
  /\ calls' = calls + 1
  /\ desk' = [desk EXCEPT ![d] = [pc |-> "permit", at |-> l, seen |-> permission[l]]]
  /\ UNCHANGED <<leadRows, deliveryHistory, record, accepted, entry, lost>>

Said(word, kept) == word = "yes" \/ (word = "unsaid" /\ kept)

Permitted(seen, said) ==
  LET consent == IF said.consent = "unsaid" THEN seen.consent ELSE said.consent
      sourced == said.source = "named" \/ (said.source = "unsaid" /\ seen.sourced)
      dnc == Said(said.dnc, seen.dnc)
      suppressed == Said(said.suppressed, seen.suppressed)
  IN [consent |-> consent, sourced |-> sourced, dnc |-> dnc, suppressed |-> suppressed,
      eligible |-> consent = "granted" /\ ~dnc /\ ~suppressed /\ sourced,
      candidate |-> seen.candidate]

\* What a request says of calls and of texts.
Refuses(said, way) == IF way = "calls" THEN said.dnc = "yes" ELSE said.consent = "opted_out"
Silent(said, way) == IF way = "calls" THEN said.dnc = "unsaid" ELSE said.consent = "unsaid"
Bars(p, way) == IF way = "calls" THEN p.dnc ELSE p.consent = "opted_out"

\* A refusal of the row that the row read before does not have, and that the
\* request does not speak of, is written over.
Overtakes(l, seen, said) ==
  {<<l, way>> : way \in {w \in {"calls", "texts"} :
                           Silent(said, w) /\ Bars(permission[l], w) /\ ~Bars(seen, w)}}

RecordPermission(d, said) ==
  LET l == desk[d].at
      Spoken == {<<l, way>> : way \in {w \in {"calls", "texts"} : ~Silent(said, w)}}
      Refusing == {<<l, way>> : way \in {w \in {"calls", "texts"} : Refuses(said, w)}}
  IN
  /\ Doing(d, "permit")
  /\ permission' = [permission EXCEPT ![l] = Permitted(desk[d].seen, said)]
  /\ refused' = (refused \ Spoken) \union Refusing
  /\ overtaken' = (overtaken \ Spoken) \union Overtakes(l, desk[d].seen, said)
  /\ desk' = Done(d)
  /\ UNCHANGED <<qualifying, outreach, suppression, deliveryHistory, record, accepted, entry, lost, calls>>

OutreachNext ==
  \/ \E d \in Desks :
       \/ \E c \in Campaigns, l \in OutreachLeads : SelectLead(d, c, l)
       \/ Claim(d) \/ Send(d) \/ MarkDelivered(d) \/ EnqueueCall(d) \/ MarkFailed(d)
       \/ \E x \in Pairs : AskRetry(d, x)
       \/ Retry(d) \/ DeskDies(d)
       \/ \E l \in OutreachLeads : ReadPermission(d, l)
       \/ \E said \in PermissionRequests : RecordPermission(d, said)
  \/ \E x \in Pairs, status \in CallStatuses : RecordCall(x, status)
  \/ \E l \in OutreachLeads :
       Suppress(l) \/ Rescored(l) \/ \E decision \in Decisions : DecideLead(l, decision)

OutreachSpec == OutreachInit /\ [][OutreachNext]_outreachVars

-----------------------------------------------------------------------------
PermissionRows == [consent : {"unknown", "granted", "opted_out"}, sourced : BOOLEAN, dnc : BOOLEAN,
                   suppressed : BOOLEAN, eligible : BOOLEAN, candidate : BOOLEAN]
RecordRows == [status : {"none", "processing", "delivered", "failed"}, retries : 0..MaxRetries]
Handing == {"claim", "send", "mark", "enqueue", "fail", "retry", "resend", "remark"}
DeskRows == [pc : {"idle"}, at : {<<>>}, seen : {NoPermission}]
              \union [pc : Handing, at : Pairs, seen : {NoPermission}]
              \union [pc : {"permit"}, at : OutreachLeads, seen : PermissionRows]
OutreachTypeOK ==
  /\ qualifying \subseteq OutreachLeads /\ suppression \subseteq OutreachLeads
  /\ permission \in [OutreachLeads -> PermissionRows]
  /\ record \in [Pairs -> RecordRows] /\ accepted \in [Pairs -> Nat]
  /\ entry \in [Pairs -> {"none", "not_called"} \union CallStatuses]
  /\ desk \in [Desks -> DeskRows]
  /\ failures \in [Pairs -> Nat] /\ crossed \subseteq Pairs
  /\ refused \subseteq OutreachLeads \X {"calls", "texts"}
  /\ overtaken \subseteq OutreachLeads \X {"calls", "texts"}

(* A destination is handed a lead at most once per request for it: the     *)
(* campaign's own attempt and one for each retry an operator asked for,    *)
(* whatever runs of the campaign overlap, fail, lose an answer or die; and *)
(* each retry stands for a failure of its own, unless it was written when  *)
(* the delivery had stopped being failed (delivery/service.ts:350-359).    *)
(* Nobody is called who was not handed over.                               *)
DeliveriesAreAsked ==
  \A x \in Pairs :
    /\ accepted[x] <= 1 + record[x].retries
    /\ x \notin crossed => record[x].retries <= failures[x]
    /\ Callable(x) => accepted[x] >= 1

(* What "Only failed deliveries can be retried" (delivery/service.ts:352)  *)
(* says, without the reservation: two operators may both read the failure. *)
RetriesFollowFailures == \A x \in Pairs : record[x].retries <= failures[x]

(* A lead that refused, at the call desk or in a permission record, is not *)
(* approached that way until somebody lifts the refusal, whatever other    *)
(* calls, decisions, deliveries and permission records come after it: not  *)
(* delivered, not called and not open to texts after a refusal of calls,   *)
(* not open to texts after one of texts.  The reservation: a permission    *)
(* record made from a row read before the refusal writes over it.  And     *)
(* texts need a consent of known source (permissions.ts:17-49,             *)
(* call-queue/service.ts:253-267).                                         *)
Open(l) == permission[l].eligible
RefusalHeld(l, way) ==
  /\ ~Open(l)
  /\ way = "calls" => \A c \in Campaigns : ~Qualified(c, l) /\ ~Callable(<<c, l>>)
RefusalStands ==
  /\ \A l \in OutreachLeads : Open(l) =>
       LET p == permission[l] IN p.consent = "granted" /\ p.sourced /\ ~p.dnc /\ ~p.suppressed
  /\ \A l \in OutreachLeads, way \in {"calls", "texts"} :
       <<l, way>> \in refused \ overtaken => RefusalHeld(l, way)

(* What INTERNALSETUP.md:676 promises, without the reservation.            *)
RefusalsAreKept ==
  \A l \in OutreachLeads, way \in {"calls", "texts"} : <<l, way>> \in refused => RefusalHeld(l, way)
=============================================================================
