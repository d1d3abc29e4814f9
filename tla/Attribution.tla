----------------------------- MODULE Attribution -----------------------------
(***************************************************************************)
(* Credit for recovered work (recovery/attribution.ts, called from the     *)
(* event handler of recovery/events.ts and from the review screen).        *)
(*                                                                         *)
(* An outcome is an opportunity that was won or an appointment that was    *)
(* booked.  Its event is handled some time after the change, by then the   *)
(* record may have changed again, and an appointment may belong to another *)
(* opportunity or to none; what the case has seen until then gives the     *)
(* temporal status, and only a review makes it recovered work.             *)
(* Deliveries, replies and what employees do arrive as in Recovery.        *)
(***************************************************************************)
EXTENDS Integers, FiniteSets

CONSTANTS
  Journeys,     \* recovery cases of one contact
  Outcomes,     \* records that may become an outcome
  CaseOf,       \* the case of each opportunity, and of each appointment at first
  KindOf,       \* "opportunity" or "appointment"
  Forms,        \* reviews a member may send: [status, amount, payment, paidAt]
  Value,        \* the amount of an opportunity
  Window,       \* attributionDays
  MaxTime       \* a bound on the clock

ReviewStatuses == {"NOT_ATTRIBUTED", "UNCERTAIN", "AI_ASSISTED", "AI_RECOVERED"}

Detached == "none"

ASSUME AttributionAssumption ==
  /\ Detached \notin Journeys
  /\ Window \in Nat /\ MaxTime \in Nat
  /\ CaseOf \in [Outcomes -> Journeys]
  /\ KindOf \in [Outcomes -> {"opportunity", "appointment"}]
  /\ \A f \in Forms : f.status \in ReviewStatuses /\ f.amount \in Nat

VARIABLES
  clock,
  journey,    \* [delivered, engaged, employee, owned] of each enrolled case
  record,     \* the status of each opportunity or appointment
  belongs,       \* the case of the opportunity a record belongs to now, if any
  unhandled,  \* outcome events that are not handled yet, with their time
  credit,     \* RecoveryAttribution rows
  announced,  \* keys of the published recovery events
  moved       \* history: appointments taken to another opportunity since their credit

attributionVars == <<clock, journey, record, belongs, unhandled, credit, announced, moved>>

Never == -1
Times == 0 .. MaxTime
NotEnrolled == [delivered |-> Never, engaged |-> Never, employee |-> Never, owned |-> "none"]
NoReview == [status |-> "none", amount |-> 0, payment |-> "none", paidAt |-> Never]
NoCredit == [status |-> "none", amount |-> 0, at |-> Never, payment |-> "none",
             case |-> Detached, review |-> NoReview]

\* An open opportunity stands for a lost one.
OpportunityStatuses == {"open", "won"}
AppointmentStatuses == {"scheduled", "completed", "cancelled", "no_show"}
StatusesOf(o) == IF KindOf[o] = "opportunity" THEN OpportunityStatuses ELSE AppointmentStatuses

\* An appointment that was never booked counts as cancelled.
AttributionInit ==
  /\ clock = 0
  /\ journey = [c \in Journeys |-> NotEnrolled]
  /\ record = [o \in Outcomes |-> IF KindOf[o] = "opportunity" THEN "open" ELSE "cancelled"]
  /\ belongs = CaseOf
  /\ unhandled = {} /\ announced = {} /\ moved = {}
  /\ credit = [o \in Outcomes |-> NoCredit]

-----------------------------------------------------------------------------
(* What a case goes through.                                               *)

HasCase(c) == c # Detached /\ journey[c].owned # "none"

Tick ==
  /\ clock < MaxTime /\ clock' = clock + 1
  /\ UNCHANGED <<journey, record, belongs, unhandled, credit, announced, moved>>

EnrollCase(c) ==
  /\ ~HasCase(c)
  /\ \E o \in Outcomes : CaseOf[o] = c /\ KindOf[o] = "opportunity" /\ record[o] = "open"
  /\ journey' = [journey EXCEPT ![c].owned = "agent"]
  /\ UNCHANGED <<clock, record, belongs, unhandled, credit, announced, moved>>

\* The receipt of a message of the agent that was delivered at t.
AgentDelivers(c, t) ==
  /\ HasCase(c) /\ t <= clock /\ journey[c].delivered = Never
  /\ journey' = [journey EXCEPT ![c].delivered = t]
  /\ UNCHANGED <<clock, record, belongs, unhandled, credit, announced, moved>>

\* A reply counts for a case only if the contact has no other.
Engaged(c, t) ==
  /\ \A d \in Journeys : HasCase(d) => d = c
  /\ journey[c].owned = "agent"
  /\ journey[c].delivered # Never /\ t >= journey[c].delivered

\* The handler of a message the customer sent at t.
Replies(t) ==
  /\ t <= clock
  /\ journey' = [c \in Journeys |->
       IF HasCase(c) /\ Engaged(c, t) /\ journey[c].engaged = Never
         THEN [journey[c] EXCEPT !.engaged = t] ELSE journey[c]]
  /\ UNCHANGED <<clock, record, belongs, unhandled, credit, announced, moved>>

\* An employee writes to the customer, or takes the case over.
EmployeeActs(c, owned) ==
  /\ HasCase(c) /\ owned \in {journey[c].owned, "human"}
  /\ journey' = [journey EXCEPT ![c].employee = clock, ![c].owned = owned]
  /\ UNCHANGED <<clock, record, belongs, unhandled, credit, announced, moved>>

GiveBack(c) ==
  /\ journey[c].owned = "human"
  /\ journey' = [journey EXCEPT ![c].owned = "agent"]
  /\ UNCHANGED <<clock, record, belongs, unhandled, credit, announced, moved>>

\* What the CRM says of a record that changed: every update of an opportunity,
\* and an appointment that becomes booked or cancelled.  One that is completed,
\* missed or moved to another opportunity is no outcome event.
Announces(o, status) ==
  KindOf[o] = "opportunity" \/ (status # record[o] /\ status \in {"scheduled", "cancelled"})

\* One update may change both the status and the opportunity of an appointment.
RecordChanges(o, status, to) ==
  /\ status \in StatusesOf(o)
  /\ IF KindOf[o] = "opportunity" THEN to = belongs[o] ELSE <<status, to>> # <<record[o], belongs[o]>>
  /\ record' = [record EXCEPT ![o] = status] /\ belongs' = [belongs EXCEPT ![o] = to]
  /\ unhandled' = IF Announces(o, status) THEN unhandled \union {<<o, clock>>} ELSE unhandled
  /\ moved' = IF to # belongs[o] THEN moved \union {o} ELSE moved
  /\ UNCHANGED <<clock, journey, credit, announced>>

-----------------------------------------------------------------------------
(* recordOutcome.                                                          *)

Valid(o, c) ==
  belongs[o] = c /\ record[o] = IF KindOf[o] = "opportunity" THEN "won" ELSE "scheduled"

EvidenceStatus(c, at, valid) ==
  LET d == journey[c].delivered  e == journey[c].engaged IN
  IF ~valid \/ d = Never \/ at < d \/ at - d > Window THEN "NOT_ATTRIBUTED"
  ELSE IF e = Never \/ e < d \/ e > at THEN "UNCERTAIN"
  ELSE "AI_ASSISTED"

\* Mutant: recovered work is not looked at again.
KeptAnyway(o, c) == credit[o].status = "AI_RECOVERED"
Kept(o, c) == credit[o].status = "AI_RECOVERED" /\ Valid(o, c)

\* The case and the payment of an earlier review stay in the row; the payment
\* stays taken.
Attributed(row, c, status, at) ==
  [row EXCEPT !.case = IF row = NoCredit THEN c ELSE @,
              !.status = status, !.amount = 0, !.at = at, !.review = NoReview]

\* The case is that of the opportunity the record belongs to by now: without
\* one the event is done with, whatever credit there is.
HandleOutcome(o, at) ==
  LET c == belongs[o] IN
  /\ <<o, at>> \in unhandled
  /\ unhandled' = unhandled \ {<<o, at>>}
  /\ credit' =
       IF ~HasCase(c) \/ (credit[o] = NoCredit /\ ~Valid(o, c)) \/ Kept(o, c) THEN credit
       ELSE [credit EXCEPT ![o] = Attributed(@, c, EvidenceStatus(c, at, Valid(o, c)), at)]
  /\ UNCHANGED <<clock, journey, record, belongs, announced, moved>>

-----------------------------------------------------------------------------
(* RecoveryAttributionService.review.                                      *)

Money(f) == f.amount # 0 \/ f.payment # "none" \/ f.paidAt # Never

\* A review asks the case of the row.  The first delivery of the case is a
\* delivered message of the agent.
Supported(o) ==
  LET j == journey[credit[o].case] IN
  /\ Valid(o, credit[o].case)
  /\ j.delivered # Never /\ j.engaged # Never
  /\ j.delivered <= j.engaged /\ j.engaged <= credit[o].at
  /\ credit[o].at - j.delivered <= Window
  /\ j.employee = Never \/ j.employee >= j.engaged

Paid(o, f) ==
  IF KindOf[o] = "appointment" THEN ~Money(f)
  ELSE f.payment # "none" /\ f.paidAt # Never /\ f.paidAt >= credit[o].at /\ f.amount \in 1 .. Value

\* The reference of a payment is unique, whatever became of the credit.
Unused(o, f) == f.payment = "none" \/ \A p \in Outcomes \ {o} : credit[p].payment # f.payment

Acceptable(o, f) ==
  /\ f.paidAt = Never \/ f.paidAt <= clock
  /\ IF f.status = "AI_RECOVERED" THEN Supported(o) /\ Paid(o, f) ELSE ~Money(f)
  /\ Unused(o, f)

\* An event that was published before with this key has another time: the
\* publication is refused, and with it the review.
Announced(o, f) == f.status = "AI_RECOVERED" /\ <<o, f>> \in announced

Reviewed(row, f) ==
  [row EXCEPT !.status = f.status, !.amount = f.amount, !.payment = f.payment, !.review = f]

Review(o, f) ==
  /\ credit[o] # NoCredit /\ credit[o].review # f
  /\ Acceptable(o, f) /\ ~Announced(o, f)
  /\ credit' = [credit EXCEPT ![o] = Reviewed(@, f)]
  /\ announced' = IF f.status = "AI_RECOVERED" THEN announced \union {<<o, f>>} ELSE announced
  /\ moved' = IF f.status = "AI_RECOVERED" THEN moved \ {o} ELSE moved
  /\ UNCHANGED <<clock, journey, record, belongs, unhandled>>

-----------------------------------------------------------------------------
AttributionNext ==
  \/ Tick
  \/ \E c \in Journeys : EnrollCase(c) \/ GiveBack(c)
  \/ \E c \in Journeys, t \in Times : AgentDelivers(c, t)
  \/ \E c \in Journeys, owned \in {"agent", "human"} : EmployeeActs(c, owned)
  \/ \E t \in Times : Replies(t)
  \/ \E o \in Outcomes, t \in Times : HandleOutcome(o, t)
  \/ \E o \in Outcomes, to \in Journeys \union {Detached} :
       \E status \in StatusesOf(o) : RecordChanges(o, status, to)
  \/ \E o \in Outcomes, f \in Forms : Review(o, f)

AttributionSpec == AttributionInit /\ [][AttributionNext]_attributionVars

-----------------------------------------------------------------------------
Moments == Times \union {Never}
JourneyRows ==
  [delivered : Moments, engaged : Moments, employee : Moments, owned : {"none", "agent", "human"}]
CreditRows ==
  [status : ReviewStatuses \union {"none"}, amount : Nat, at : Moments,
   payment : {"none"} \union {f.payment : f \in Forms}, case : Journeys \union {Detached},
   review : Forms \union {NoReview}]
AttributionTypeOK ==
  /\ clock \in Times
  /\ journey \in [Journeys -> JourneyRows]
  /\ record \in [Outcomes -> OpportunityStatuses \union AppointmentStatuses]
  /\ belongs \in [Outcomes -> Journeys \union {Detached}]
  /\ \A o \in Outcomes : record[o] \in StatusesOf(o)
  /\ unhandled \subseteq Outcomes \X Times
  /\ credit \in [Outcomes -> CreditRows]
  /\ announced \subseteq Outcomes \X Forms
  /\ moved \subseteq Outcomes

\* Whatever order deliveries, replies, changes, events and reviews come in:
\* recovered work is an outcome within the window of a delivered message of its
\* case, with the reply between the two; once it is lost or cancelled its event
\* waits to revoke it, unless the appointment was taken to another opportunity
\* since the review; money is only on recovered work and no payment counts twice
\* (attribution.ts:77-113 and 151-188, events.ts:163-207).
LostOutcome(o) == record[o] \in {"open", "cancelled"}
RevocationWaits(o) == \E t \in Times : <<o, t>> \in unhandled
CreditIsEvidenced ==
  /\ \A o \in Outcomes : credit[o].status = "AI_RECOVERED" =>
       LET j == journey[credit[o].case] IN
       /\ credit[o].case # Detached /\ j.delivered # Never
       /\ j.engaged \in j.delivered .. credit[o].at /\ credit[o].at <= j.delivered + Window
       /\ LostOutcome(o) /\ o \notin moved => RevocationWaits(o)
  /\ \A o \in Outcomes : credit[o].amount > 0 =>
       /\ credit[o].status = "AI_RECOVERED"
       /\ \A p \in Outcomes \ {o} : credit[p].amount > 0 => credit[p].payment # credit[o].payment

\* What the documentation promises (docs/REVENUE_RECOVERY.md:169), without the
\* reservation: an appointment that was detached from its opportunity and then
\* cancelled keeps its credit, because its event finds no case.
LostCreditIsRevoked ==
  \A o \in Outcomes : credit[o].status = "AI_RECOVERED" /\ LostOutcome(o) => RevocationWaits(o)
=============================================================================
