----------------------------- MODULE Sales_proofs -----------------------------
(***************************************************************************)
(* What holds of a sales team's records, of the credit for recovered work  *)
(* and of the first agents' handoffs, for every number of records,         *)
(* outcomes, cases, forms, agents and events.                              *)
(*                                                                         *)
(* Credit: a reply and a delivery are written once, so what supported a    *)
(* review keeps supporting it; a change that takes an outcome back leaves  *)
(* the event that will revoke it, which finds the credit only if the       *)
(* appointment still belongs to the case of its row.  Records: each rule that a write checks  *)
(* is kept by the later writes to the other records it speaks of, and each *)
(* needs what the others say.  Handoffs: each turn of an agent keeps the   *)
(* budget and proposes deals nobody proposed, so there is no first turn    *)
(* that does not.                                                          *)
(***************************************************************************)
EXTENDS Attribution, SalesRecords, Workforce, FiniteSetTheorems, WellFoundedInduction, TLAPS

-----------------------------------------------------------------------------
(* Credit: types.                                                          *)

LEMMA NeverIsNoTime == Never \notin Times /\ Never \in Int /\ Times \subseteq Nat /\ 0 \in Times
BY AttributionAssumption DEF Never, Times

LEMMA MomentsAreNumbers == Moments \subseteq Int
<1>1. ASSUME NEW t \in Moments PROVE t \in Int
  <2>1. t \in Times \/ t = Never
    BY DEF Moments
  <2>2. t \in Times => t \in Nat
    BY NeverIsNoTime
  <2>3. t \in Nat => t \in Int
    OBVIOUS
  <2>4. QED
    BY <2>1, <2>2, <2>3, NeverIsNoTime
<1>2. QED
  BY <1>1

LEMMA CreditTypeInit == AttributionInit => AttributionTypeOK
<1> SUFFICES ASSUME AttributionInit
             PROVE  AttributionTypeOK
  OBVIOUS
<1>1. NotEnrolled \in JourneyRows
  BY DEF NotEnrolled, JourneyRows, Moments
<1>2. NoCredit \in CreditRows
  BY DEF NoCredit, CreditRows, Moments, Detached
<1>3. \A o \in Outcomes : KindOf[o] \in {"opportunity", "appointment"}
  BY AttributionAssumption
<1>4. record \in [Outcomes -> OpportunityStatuses \union AppointmentStatuses]
  BY DEF AttributionInit, OpportunityStatuses, AppointmentStatuses
<1>5. \A o \in Outcomes : record[o] \in StatusesOf(o)
  BY <1>3 DEF AttributionInit, StatusesOf, OpportunityStatuses, AppointmentStatuses
<1>6. belongs \in [Outcomes -> Journeys \union {Detached}]
  BY AttributionAssumption DEF AttributionInit
<1>7. QED
  BY <1>1, <1>2, <1>4, <1>5, <1>6, NeverIsNoTime DEF AttributionInit, AttributionTypeOK

\* What happens to the cases: a delivery and a reply are written once, the reply
\* not before the delivery.
JourneyGrows ==
  /\ journey' \in [Journeys -> JourneyRows]
  /\ \A c \in Journeys :
       /\ journey[c].delivered # Never => journey'[c].delivered = journey[c].delivered
       /\ journey[c].engaged # Never => journey'[c].engaged = journey[c].engaged
       /\ HasCase(c) => HasCase(c)'
       /\ journey'[c].delivered # Never => HasCase(c)'

DeliveredToACase == \A c \in Journeys : journey[c].delivered # Never => HasCase(c)

LEMMA JourneySteps ==
  ASSUME AttributionTypeOK, DeliveredToACase,
         \/ \E c \in Journeys : EnrollCase(c) \/ GiveBack(c)
         \/ \E c \in Journeys, t \in Times : AgentDelivers(c, t)
         \/ \E c \in Journeys, owned \in {"agent", "human"} : EmployeeActs(c, owned)
         \/ \E t \in Times : Replies(t)
  PROVE  JourneyGrows /\ UNCHANGED <<clock, record, belongs, unhandled, credit, announced, moved>>
<1> DEFINE Goal == JourneyGrows /\ UNCHANGED <<clock, record, belongs, unhandled, credit, announced, moved>>
<1>0. \A c \in Journeys : journey[c] \in JourneyRows
  BY DEF AttributionTypeOK
<1>n. Detached \notin Journeys
  BY AttributionAssumption
<1>1. ASSUME NEW c \in Journeys, EnrollCase(c) \/ GiveBack(c) PROVE Goal
  <2>1. journey' = [journey EXCEPT ![c].owned = "agent"] /\ UNCHANGED <<clock, record, belongs, unhandled, credit, announced, moved>>
    BY <1>1 DEF EnrollCase, GiveBack
  <2>2. QED
    BY <1>0, <1>n, <2>1 DEF JourneyGrows, JourneyRows, HasCase, AttributionTypeOK, DeliveredToACase
<1>2. ASSUME NEW c \in Journeys, NEW t \in Times, AgentDelivers(c, t) PROVE Goal
  <2>1. t \in Moments
    BY DEF Moments
  <2>2. /\ journey' = [journey EXCEPT ![c].delivered = t] /\ HasCase(c) /\ journey[c].delivered = Never
        /\ UNCHANGED <<clock, record, belongs, unhandled, credit, announced, moved>>
    BY <1>2 DEF AgentDelivers
  <2>3. QED
    BY <1>0, <1>n, <2>1, <2>2 DEF JourneyGrows, JourneyRows, HasCase, AttributionTypeOK, DeliveredToACase
<1>3. ASSUME NEW c \in Journeys, NEW owned \in {"agent", "human"}, EmployeeActs(c, owned) PROVE Goal
  <2>1. clock \in Moments
    BY DEF AttributionTypeOK, Moments
  <2>2. QED
    BY <1>0, <1>n, <1>3, <2>1 DEF EmployeeActs, JourneyGrows, JourneyRows, HasCase, AttributionTypeOK, DeliveredToACase
<1>4. ASSUME NEW t \in Times, Replies(t) PROVE Goal
  <2>1. \A c \in Journeys : \/ journey'[c] = journey[c]
                            \/ HasCase(c) /\ journey[c].engaged = Never /\ journey'[c] = [journey[c] EXCEPT !.engaged = t]
    BY <1>4 DEF Replies
  <2>2. \A c \in Journeys : [journey[c] EXCEPT !.engaged = t] \in JourneyRows
    BY <1>0 DEF JourneyRows, Moments
  <2>3. journey' \in [Journeys -> JourneyRows]
    BY <1>0, <1>4, <2>2 DEF Replies
  <2>4. QED
    BY <1>0, <1>4, <2>1, <2>3 DEF Replies, JourneyGrows, JourneyRows, HasCase, DeliveredToACase
<1> HIDE DEF Goal
<1>5. Goal
  BY <1>1, <1>2, <1>3, <1>4
<1>6. QED
  BY <1>5 DEF Goal

\* The row an outcome event leaves, and the one a review leaves.
LEMMA OutcomeRow ==
  ASSUME AttributionTypeOK, NEW o \in Outcomes, NEW at \in Times, NEW status \in ReviewStatuses,
         NEW c \in Journeys
  PROVE  /\ Attributed(credit[o], c, status, at) \in CreditRows
         /\ Attributed(credit[o], c, status, at).status = status
         /\ Attributed(credit[o], c, status, at).amount = 0
         /\ Attributed(credit[o], c, status, at).case = IF credit[o] = NoCredit THEN c ELSE credit[o].case
BY DEF Attributed, AttributionTypeOK, CreditRows, Moments

LEMMA ReviewRow ==
  ASSUME AttributionTypeOK, NEW o \in Outcomes, NEW f \in Forms
  PROVE  /\ Reviewed(credit[o], f) \in CreditRows /\ Reviewed(credit[o], f).status = f.status
         /\ Reviewed(credit[o], f).amount = f.amount /\ Reviewed(credit[o], f).payment = f.payment
         /\ Reviewed(credit[o], f).at = credit[o].at /\ Reviewed(credit[o], f).case = credit[o].case
<1>1. credit[o] \in CreditRows /\ f.status \in ReviewStatuses /\ f.amount \in Nat
  BY AttributionAssumption DEF AttributionTypeOK
<1>2. f.payment \in {"none"} \union {g.payment : g \in Forms} /\ f \in Forms \union {NoReview}
  OBVIOUS
<1>3. QED
  BY <1>1, <1>2 DEF Reviewed, CreditRows

LEMMA CreditTypeStep ==
  ASSUME AttributionTypeOK, DeliveredToACase, [AttributionNext]_attributionVars
  PROVE  AttributionTypeOK' /\ DeliveredToACase'
<1> DEFINE Goal == AttributionTypeOK' /\ DeliveredToACase'
<1>1. ASSUME Tick PROVE Goal
  BY <1>1, AttributionAssumption DEF Tick, Times, AttributionTypeOK, DeliveredToACase, HasCase, StatusesOf
<1>2. ASSUME JourneyGrows, UNCHANGED <<clock, record, belongs, unhandled, credit, announced, moved>> PROVE Goal
  BY <1>2 DEF JourneyGrows, AttributionTypeOK, DeliveredToACase, StatusesOf
<1>3. ASSUME NEW o \in Outcomes, NEW at \in Times, HandleOutcome(o, at) PROVE Goal
  <2> DEFINE c == belongs[o]
             status == EvidenceStatus(c, at, Valid(o, c))
             row == Attributed(credit[o], c, status, at)
  <2>1. status \in ReviewStatuses /\ c \in Journeys \union {Detached}
    BY DEF EvidenceStatus, ReviewStatuses, AttributionTypeOK
  <2>2. HasCase(c) => row \in CreditRows
    BY <2>1, OutcomeRow DEF HasCase
  <2>3. credit' = credit \/ (HasCase(c) /\ credit' = [credit EXCEPT ![o] = row])
    BY <1>3 DEF HandleOutcome
  <2> HIDE DEF row
  <2>4. credit' \in [Outcomes -> CreditRows]
    BY <2>2, <2>3 DEF AttributionTypeOK
  <2>5. QED
    BY <1>3, <2>4 DEF HandleOutcome, AttributionTypeOK, DeliveredToACase, HasCase, StatusesOf
<1>4. ASSUME NEW o \in Outcomes, NEW to \in Journeys \union {Detached}, NEW status \in StatusesOf(o),
             RecordChanges(o, status, to)
      PROVE  Goal
  <2>1. status \in OpportunityStatuses \union AppointmentStatuses
    BY DEF StatusesOf
  <2>2. record' \in [Outcomes -> OpportunityStatuses \union AppointmentStatuses]
    BY <1>4, <2>1 DEF RecordChanges, AttributionTypeOK
  <2>3. \A p \in Outcomes : record'[p] \in StatusesOf(p)
    BY <1>4 DEF RecordChanges, AttributionTypeOK
  <2>4. unhandled' \subseteq Outcomes \X Times
    BY <1>4 DEF RecordChanges, AttributionTypeOK
  <2>5. belongs' \in [Outcomes -> Journeys \union {Detached}] /\ moved' \subseteq Outcomes
    BY <1>4 DEF RecordChanges, AttributionTypeOK
  <2>6. QED
    BY <1>4, <2>2, <2>3, <2>4, <2>5 DEF RecordChanges, AttributionTypeOK, DeliveredToACase, HasCase, StatusesOf
<1>5. ASSUME NEW o \in Outcomes, NEW f \in Forms, Review(o, f) PROVE Goal
  <2> DEFINE row == Reviewed(credit[o], f)
  <2>1. row \in CreditRows
    BY ReviewRow
  <2>2. credit' = [credit EXCEPT ![o] = row]
    BY <1>5 DEF Review
  <2> HIDE DEF row
  <2>3. credit' \in [Outcomes -> CreditRows]
    BY <2>1, <2>2 DEF AttributionTypeOK
  <2>4. announced' \subseteq Outcomes \X Forms
    BY <1>5 DEF Review, AttributionTypeOK
  <2>5. QED
    BY <1>5, <2>3, <2>4 DEF Review, AttributionTypeOK, DeliveredToACase, HasCase, StatusesOf
<1>6. ASSUME UNCHANGED attributionVars PROVE Goal
  BY <1>6 DEF attributionVars, AttributionTypeOK, DeliveredToACase, HasCase, StatusesOf
<1> HIDE DEF Goal
<1>7. ASSUME \/ \E c \in Journeys : EnrollCase(c) \/ GiveBack(c)
             \/ \E c \in Journeys, t \in Times : AgentDelivers(c, t)
             \/ \E c \in Journeys, owned \in {"agent", "human"} : EmployeeActs(c, owned)
             \/ \E t \in Times : Replies(t)
      PROVE  Goal
  BY <1>2, <1>7, JourneySteps
<1>8. ASSUME AttributionNext PROVE Goal
  BY <1>1, <1>3, <1>4, <1>5, <1>7, <1>8 DEF AttributionNext
<1>9. Goal
  BY <1>6, <1>8
<1>10. QED
  BY <1>9 DEF Goal

-----------------------------------------------------------------------------
(* Credit: the evidence.                                                   *)

\* What CreditIsEvidenced says of one outcome, in two parts.
RecoveredHasEvidence(o) ==
  credit[o].status = "AI_RECOVERED" =>
    LET j == journey[credit[o].case] IN
    /\ credit[o].case # Detached /\ j.delivered # Never
    /\ j.engaged \in j.delivered .. credit[o].at /\ credit[o].at <= j.delivered + Window
    /\ LostOutcome(o) /\ o \notin moved => RevocationWaits(o)
MoneyIsRecovered(o) ==
  credit[o].amount > 0 =>
    /\ credit[o].status = "AI_RECOVERED"
    /\ \A p \in Outcomes \ {o} : credit[p].amount > 0 => credit[p].payment # credit[o].payment

LEMMA EvidenceParts ==
  CreditIsEvidenced <=> \A o \in Outcomes : RecoveredHasEvidence(o) /\ MoneyIsRecovered(o)
BY DEF CreditIsEvidenced, RecoveredHasEvidence, MoneyIsRecovered

\* A row knows its case, and an appointment that was not moved since it was
\* recovered still belongs to that case: only so does its event find the credit.
RowsAndHomes ==
  \A o \in Outcomes :
    /\ credit[o] # NoCredit => credit[o].case # Detached
    /\ credit[o].status = "AI_RECOVERED" /\ o \notin moved => belongs[o] = credit[o].case

CreditInv == AttributionTypeOK /\ DeliveredToACase /\ RowsAndHomes /\ CreditIsEvidenced

LEMMA CreditInvInit == AttributionInit => CreditInv
<1> SUFFICES ASSUME AttributionInit
             PROVE  CreditInv
  OBVIOUS
<1>1. \A o \in Outcomes : credit[o] = NoCredit /\ credit[o].status = "none" /\ credit[o].amount = 0
  BY DEF AttributionInit, NoCredit
<1>2. \A c \in Journeys : journey[c].delivered = Never
  BY DEF AttributionInit, NotEnrolled
<1>3. QED
  BY <1>1, <1>2, CreditTypeInit DEF CreditInv, CreditIsEvidenced, DeliveredToACase, RowsAndHomes

\* An outcome that is valid is not lost.
LEMMA ValidIsNotLost ==
  ASSUME NEW o \in Outcomes, NEW c, Valid(o, c)
  PROVE  ~LostOutcome(o)
BY DEF Valid, LostOutcome

\* Nothing happened to rows and records, and no event was taken.
LEMMA EvidenceStays ==
  ASSUME CreditInv, JourneyGrows, UNCHANGED <<credit, record, moved>>, unhandled \subseteq unhandled'
  PROVE  CreditIsEvidenced'
<1> SUFFICES ASSUME NEW o \in Outcomes
             PROVE  RecoveredHasEvidence(o)' /\ MoneyIsRecovered(o)'
  BY DEF CreditIsEvidenced, RecoveredHasEvidence, MoneyIsRecovered
<1> DEFINE c == credit[o].case
<1>1. /\ RecoveredHasEvidence(o) /\ MoneyIsRecovered(o)
      /\ credit[o].status = "AI_RECOVERED" => c \in Journeys
  BY EvidenceParts DEF CreditInv, RecoveredHasEvidence, AttributionTypeOK, CreditRows
<1>2. MoneyIsRecovered(o)'
  BY <1>1 DEF MoneyIsRecovered
<1>3. ASSUME credit[o].status = "AI_RECOVERED"
      PROVE  /\ journey[c].delivered # Never /\ journey[c].engaged # Never
             /\ journey'[c].delivered = journey[c].delivered
             /\ journey'[c].engaged = journey[c].engaged
  <2> DEFINE d == journey[c].delivered
             e == journey[c].engaged
  <2>1. d # Never /\ d \in Moments /\ e \in Moments /\ e \in d .. credit[o].at
    BY <1>1, <1>3 DEF RecoveredHasEvidence, CreditInv, AttributionTypeOK, JourneyRows
  <2> HIDE DEF d, e
  <2>2. e # Never
    <3>1. d \in Nat /\ e \in Int /\ e >= d
      BY <2>1, NeverIsNoTime DEF Moments
    <3>2. QED
      BY <3>1 DEF Never
  <2> USE DEF d, e
  <2>3. QED
    BY <1>1, <1>3, <2>1, <2>2 DEF JourneyGrows
<1>4. /\ LostOutcome(o)' = LostOutcome(o) /\ (RevocationWaits(o) => RevocationWaits(o)')
      /\ credit'[o] = credit[o] /\ moved' = moved
  BY DEF LostOutcome, RevocationWaits
<1>5. RecoveredHasEvidence(o)'
  BY <1>1, <1>3, <1>4 DEF RecoveredHasEvidence
<1>6. QED
  BY <1>2, <1>5

\* Only the row of one outcome and its events changed.
LEMMA OthersKeepEvidence ==
  ASSUME CreditInv, NEW o \in Outcomes, NEW q \in Outcomes \ {o}, UNCHANGED journey,
         credit'[q] = credit[q], record'[q] = record[q], q \in moved => q \in moved',
         \A t \in Times : <<q, t>> \in unhandled => <<q, t>> \in unhandled'
  PROVE  RecoveredHasEvidence(q)'
<1>1. RecoveredHasEvidence(q)
  BY EvidenceParts DEF CreditInv
<1>2. QED
  BY <1>1 DEF RecoveredHasEvidence, LostOutcome, RevocationWaits

\* Rows keep their case, and only a move takes an appointment away from it.
LEMMA HomesStay ==
  ASSUME CreditInv, [AttributionNext]_attributionVars
  PROVE  RowsAndHomes'
<1> SUFFICES ASSUME NEW p \in Outcomes
             PROVE  /\ credit'[p] # NoCredit => credit'[p].case # Detached
                    /\ credit'[p].status = "AI_RECOVERED" /\ p \notin moved' => belongs'[p] = credit'[p].case
  BY DEF RowsAndHomes
<1> DEFINE Goal == /\ credit'[p] # NoCredit => credit'[p].case # Detached
                   /\ credit'[p].status = "AI_RECOVERED" /\ p \notin moved' => belongs'[p] = credit'[p].case
<1>0. /\ credit[p] # NoCredit => credit[p].case # Detached
      /\ credit[p].status = "AI_RECOVERED" /\ p \notin moved => belongs[p] = credit[p].case
  BY DEF CreditInv, RowsAndHomes
<1>1. ASSUME UNCHANGED <<credit, belongs, moved>> PROVE Goal
  BY <1>0, <1>1
<1>2. ASSUME NEW o \in Outcomes, NEW at \in Times, HandleOutcome(o, at) PROVE Goal
  <2> DEFINE c == belongs[o]
             status == EvidenceStatus(c, at, Valid(o, c))
             row == Attributed(credit[o], c, status, at)
  <2>1. status \in ReviewStatuses /\ status # "AI_RECOVERED" /\ c \in Journeys \union {Detached}
    BY DEF EvidenceStatus, ReviewStatuses, CreditInv, AttributionTypeOK
  <2>2. HasCase(c) => /\ row.status = status /\ c # Detached
                      /\ row.case = IF credit[o] = NoCredit THEN c ELSE credit[o].case
    BY <2>1, OutcomeRow DEF HasCase, CreditInv
  <2>3. /\ UNCHANGED <<belongs, moved>>
        /\ credit' = credit \/ (HasCase(c) /\ credit' = [credit EXCEPT ![o] = row])
    BY <1>2 DEF HandleOutcome
  <2> HIDE DEF row, status
  <2>4. credit'[p] = credit[p] \/ (HasCase(c) /\ p = o /\ credit'[p] = row)
    BY <2>3 DEF CreditInv, AttributionTypeOK
  <2>5. QED
    BY <1>0, <2>1, <2>2, <2>3, <2>4
<1>3. ASSUME NEW o \in Outcomes, NEW to \in Journeys \union {Detached}, NEW status \in StatusesOf(o),
             RecordChanges(o, status, to)
      PROVE  Goal
  <2>1. credit' = credit /\ (belongs'[p] = belongs[p] \/ p \in moved') /\ moved \subseteq moved'
    BY <1>3 DEF RecordChanges, CreditInv, AttributionTypeOK
  <2>2. QED
    BY <1>0, <2>1
<1>4. ASSUME NEW o \in Outcomes, NEW f \in Forms, Review(o, f) PROVE Goal
  <2> DEFINE row == Reviewed(credit[o], f)
  <2>1. row.status = f.status /\ row.case = credit[o].case
    BY ReviewRow DEF CreditInv
  <2>2. /\ credit' = [credit EXCEPT ![o] = row] /\ UNCHANGED belongs /\ credit[o] # NoCredit
        /\ f.status = "AI_RECOVERED" => belongs[o] = credit[o].case
        /\ \A q \in Outcomes \ {o} : q \in moved => q \in moved'
    BY <1>4 DEF Review, Acceptable, Supported, Valid
  <2> HIDE DEF row
  <2>3. credit'[p] = IF p = o THEN row ELSE credit[p]
    BY <2>2 DEF CreditInv, AttributionTypeOK
  <2>4. QED
    BY <1>0, <2>1, <2>2, <2>3
<1> HIDE DEF Goal
<1>5. ASSUME \/ \E c \in Journeys : EnrollCase(c) \/ GiveBack(c)
             \/ \E c \in Journeys, t \in Times : AgentDelivers(c, t)
             \/ \E c \in Journeys, owned \in {"agent", "human"} : EmployeeActs(c, owned)
             \/ \E t \in Times : Replies(t)
      PROVE  Goal
  BY <1>1, <1>5, JourneySteps DEF CreditInv
<1>6. ASSUME Tick \/ UNCHANGED attributionVars PROVE Goal
  BY <1>1, <1>6 DEF Tick, attributionVars
<1>7. ASSUME AttributionNext PROVE Goal
  BY <1>2, <1>3, <1>4, <1>5, <1>6, <1>7 DEF AttributionNext
<1>8. QED
  BY <1>6, <1>7 DEF Goal

LEMMA OutcomeKeepsEvidence ==
  ASSUME CreditInv, NEW o \in Outcomes, NEW at \in Times, HandleOutcome(o, at)
  PROVE  CreditIsEvidenced'
<1> DEFINE c == belongs[o]
           status == EvidenceStatus(c, at, Valid(o, c))
           row == Attributed(credit[o], c, status, at)
<1>1. status \in ReviewStatuses /\ status # "AI_RECOVERED" /\ c \in Journeys \union {Detached}
  BY DEF EvidenceStatus, ReviewStatuses, CreditInv, AttributionTypeOK
<1>2. HasCase(c) => row.status = status /\ row.amount = 0
  BY <1>1, OutcomeRow DEF CreditInv, HasCase
<1>3. UNCHANGED <<journey, record, moved>> /\ unhandled' = unhandled \ {<<o, at>>}
  BY DEF HandleOutcome
<1>4. \/ HasCase(c) /\ credit' = [credit EXCEPT ![o] = row]
      \/ credit' = credit /\ (~HasCase(c) \/ credit[o] = NoCredit \/ Valid(o, c))
  BY DEF HandleOutcome, Kept
<1> HIDE DEF row, status
<1>5. \A q \in Outcomes \ {o} : credit'[q] = credit[q]
  BY <1>4 DEF CreditInv, AttributionTypeOK
<1>6. (HasCase(c) /\ credit'[o] = row) \/ credit'[o] = credit[o]
  BY <1>4 DEF CreditInv, AttributionTypeOK
<1>7. RecoveredHasEvidence(o)'
  <2>1. CASE HasCase(c) /\ credit' = [credit EXCEPT ![o] = row]
    <3>1. credit'[o].status # "AI_RECOVERED"
      BY <1>1, <1>2, <2>1 DEF CreditInv, AttributionTypeOK
    <3>2. QED
      BY <3>1 DEF RecoveredHasEvidence
  <2>2. CASE credit' = credit /\ (~HasCase(c) \/ credit[o] = NoCredit \/ Valid(o, c))
    <3>1. RecoveredHasEvidence(o)
      BY EvidenceParts DEF CreditInv
    <3>2. ASSUME credit[o].status = "AI_RECOVERED", o \notin moved PROVE ~LostOutcome(o)
      <4>1. c = credit[o].case /\ c \in Journeys
        BY <1>1, <3>1, <3>2 DEF RecoveredHasEvidence, CreditInv, RowsAndHomes
      <4>2. HasCase(c)
        BY <3>1, <3>2, <4>1 DEF RecoveredHasEvidence, CreditInv, DeliveredToACase
      <4>3. Valid(o, c)
        BY <2>2, <3>2, <4>2 DEF NoCredit
      <4>4. QED
        BY <4>3, ValidIsNotLost
    <3>3. ~LostOutcome(o) => ~LostOutcome(o)'
      BY <1>3 DEF LostOutcome
    <3>4. QED
      BY <1>3, <2>2, <3>1, <3>2, <3>3 DEF RecoveredHasEvidence
  <2>3. QED
    BY <1>4, <2>1, <2>2
<1>8. \A q \in Outcomes \ {o} : RecoveredHasEvidence(q)'
  BY <1>3, <1>5, OthersKeepEvidence
<1>9. \A q \in Outcomes : MoneyIsRecovered(q)'
  <2>1. \A q \in Outcomes : credit'[q].amount > 0 => credit'[q] = credit[q]
    BY <1>2, <1>5, <1>6
  <2>2. \A q \in Outcomes : MoneyIsRecovered(q)
    BY EvidenceParts DEF CreditInv
  <2>3. QED
    BY <2>1, <2>2 DEF MoneyIsRecovered
<1>10. QED
  BY <1>7, <1>8, <1>9 DEF CreditIsEvidenced, RecoveredHasEvidence, MoneyIsRecovered

LEMMA ChangeKeepsEvidence ==
  ASSUME CreditInv, NEW o \in Outcomes, NEW to \in Journeys \union {Detached}, NEW status \in StatusesOf(o),
         RecordChanges(o, status, to)
  PROVE  CreditIsEvidenced'
<1>1. /\ UNCHANGED <<journey, credit>> /\ record' = [record EXCEPT ![o] = status] /\ moved \subseteq moved'
      /\ unhandled \subseteq unhandled' /\ (Announces(o, status) => <<o, clock>> \in unhandled')
  BY DEF RecordChanges
<1>2. clock \in Times /\ KindOf[o] \in {"opportunity", "appointment"} /\ record'[o] = status
  BY <1>1, AttributionAssumption DEF CreditInv, AttributionTypeOK
<1>3. LostOutcome(o)' => Announces(o, status) \/ LostOutcome(o)
  <2>1. LostOutcome(o)' <=> status \in {"open", "cancelled"}
    BY <1>2 DEF LostOutcome
  <2>2. KindOf[o] = "appointment" => status \in AppointmentStatuses
    BY DEF StatusesOf
  <2>3. QED
    BY <1>2, <2>1, <2>2 DEF LostOutcome, Announces, AppointmentStatuses
<1>4. RecoveredHasEvidence(o)'
  <2>1. RecoveredHasEvidence(o)
    BY EvidenceParts DEF CreditInv
  <2>2. QED
    BY <1>1, <1>2, <1>3, <2>1 DEF RecoveredHasEvidence, RevocationWaits
<1>5. \A q \in Outcomes \ {o} : RecoveredHasEvidence(q)'
  <2>1. \A q \in Outcomes \ {o} : record'[q] = record[q]
    BY <1>1 DEF CreditInv, AttributionTypeOK
  <2>2. QED
    BY <1>1, <2>1, OthersKeepEvidence
<1>6. \A q \in Outcomes : MoneyIsRecovered(q)'
  BY <1>1, EvidenceParts DEF CreditInv, MoneyIsRecovered
<1>7. QED
  BY <1>4, <1>5, <1>6 DEF CreditIsEvidenced, RecoveredHasEvidence, MoneyIsRecovered

\* A review finds the evidence in the rows as they are.
LEMMA ReviewKeepsEvidence ==
  ASSUME CreditInv, NEW o \in Outcomes, NEW f \in Forms, Review(o, f)
  PROVE  CreditIsEvidenced'
<1> DEFINE row == Reviewed(credit[o], f)
           c == credit[o].case
<1>1. /\ row \in CreditRows /\ row.status = f.status /\ row.amount = f.amount
      /\ row.payment = f.payment /\ row.at = credit[o].at /\ row.case = c
  BY ReviewRow DEF CreditInv
<1>2. /\ credit' = [credit EXCEPT ![o] = row] /\ UNCHANGED <<journey, record, unhandled>>
      /\ Acceptable(o, f) /\ \A q \in Outcomes \ {o} : q \in moved => q \in moved'
  BY DEF Review
<1> HIDE DEF row
<1>3. credit'[o] = row /\ \A q \in Outcomes \ {o} : credit'[q] = credit[q]
  BY <1>2 DEF CreditInv, AttributionTypeOK
<1>4. c \in Journeys /\ journey[c] \in JourneyRows /\ credit[o].at \in Moments
  BY DEF Review, CreditInv, RowsAndHomes, AttributionTypeOK, CreditRows
<1>5. RecoveredHasEvidence(o)'
  <2> SUFFICES ASSUME credit'[o].status = "AI_RECOVERED"
               PROVE  /\ c # Detached /\ journey[c].delivered # Never
                      /\ journey[c].engaged \in journey[c].delivered .. credit[o].at
                      /\ credit[o].at <= journey[c].delivered + Window /\ ~LostOutcome(o)'
    BY <1>1, <1>2, <1>3 DEF RecoveredHasEvidence
  <2>1. Supported(o)
    BY <1>1, <1>2, <1>3 DEF Acceptable
  <2>2. /\ journey[c].delivered \in Int /\ journey[c].engaged \in Int /\ credit[o].at \in Int /\ Window \in Int
    <3>1. journey[c].delivered \in Moments /\ journey[c].engaged \in Moments
      BY <1>4 DEF JourneyRows
    <3>2. Window \in Int
      BY AttributionAssumption
    <3>3. QED
      BY <1>4, <3>1, <3>2, MomentsAreNumbers
  <2>3. /\ journey[c].delivered # Never /\ journey[c].engaged \in journey[c].delivered .. credit[o].at
        /\ credit[o].at <= journey[c].delivered + Window
    BY <2>1, <2>2 DEF Supported
  <2>4. ~LostOutcome(o)'
    BY <1>2, <2>1, ValidIsNotLost DEF Supported, LostOutcome
  <2>5. QED
    BY <1>4, <2>3, <2>4, AttributionAssumption
<1>6. \A q \in Outcomes \ {o} : RecoveredHasEvidence(q)'
  BY <1>2, <1>3, OthersKeepEvidence
<1>7. f.amount > 0 =>
        /\ f.status = "AI_RECOVERED"
        /\ \A p \in Outcomes \ {o} : credit[p].payment # f.payment
  <2>1. f.amount \in Nat
    BY AttributionAssumption
  <2>2. CASE f.status = "AI_RECOVERED"
    <3>1. Paid(o, f) /\ Unused(o, f)
      BY <1>2, <2>2 DEF Acceptable
    <3>2. QED
      BY <2>1, <2>2, <3>1 DEF Paid, Unused, Money
  <2>3. CASE f.status # "AI_RECOVERED"
    <3>1. f.amount = 0
      BY <1>2, <2>3 DEF Acceptable, Money
    <3>2. QED
      BY <3>1
  <2>4. QED
    BY <2>2, <2>3
<1>8. \A q \in Outcomes : MoneyIsRecovered(q)
  BY EvidenceParts DEF CreditInv
<1>9. \A q \in Outcomes : MoneyIsRecovered(q)'
  BY <1>1, <1>3, <1>7, <1>8 DEF MoneyIsRecovered
<1>10. QED
  BY <1>5, <1>6, <1>9 DEF CreditIsEvidenced, RecoveredHasEvidence, MoneyIsRecovered

LEMMA CreditInvStep == CreditInv /\ [AttributionNext]_attributionVars => CreditInv'
<1> SUFFICES ASSUME CreditInv, [AttributionNext]_attributionVars
             PROVE  CreditInv'
  OBVIOUS
<1> DEFINE Goal == CreditIsEvidenced'
<1>1. AttributionTypeOK' /\ DeliveredToACase' /\ RowsAndHomes'
  BY CreditTypeStep, HomesStay DEF CreditInv
<1>2. ASSUME UNCHANGED journey PROVE JourneyGrows
  BY <1>2 DEF JourneyGrows, HasCase, CreditInv, AttributionTypeOK, DeliveredToACase
<1>3. ASSUME Tick \/ UNCHANGED attributionVars PROVE Goal
  <2>1. UNCHANGED <<journey, credit, record, unhandled, moved>>
    BY <1>3 DEF Tick, attributionVars
  <2>2. QED
    BY <1>2, <2>1, EvidenceStays
<1>4. ASSUME \/ \E c \in Journeys : EnrollCase(c) \/ GiveBack(c)
             \/ \E c \in Journeys, t \in Times : AgentDelivers(c, t)
             \/ \E c \in Journeys, owned \in {"agent", "human"} : EmployeeActs(c, owned)
             \/ \E t \in Times : Replies(t)
      PROVE  Goal
  <2>1. JourneyGrows /\ UNCHANGED <<clock, record, belongs, unhandled, credit, announced, moved>>
    BY <1>4, JourneySteps DEF CreditInv
  <2>2. QED
    BY <2>1, EvidenceStays
<1> HIDE DEF Goal
<1>5. ASSUME AttributionNext PROVE Goal
  BY <1>3, <1>4, <1>5, OutcomeKeepsEvidence, ChangeKeepsEvidence, ReviewKeepsEvidence DEF AttributionNext, Goal
<1>6. Goal
  BY <1>3, <1>5
<1>7. QED
  BY <1>1, <1>6 DEF Goal, CreditInv

\* Deliveries, replies, changes of records, late events and reviews in any
\* order: rows stay well formed, only a case that was enrolled has a delivery,
\* a recovered appointment that was not moved belongs to the case of its credit,
\* and credit is evidenced (attribution.ts:45-254 and events.ts:35-207).
THEOREM CreditInductive == AttributionSpec => []CreditInv
<1>1. QED
  BY CreditInvInit, CreditInvStep, PTL DEF AttributionSpec

\* Recovered work lies within the window of a delivered message of the case the
\* credit names, with the reply between the two, however appointments are moved
\* between opportunities; a lost outcome has an event waiting that will revoke it
\* unless it was moved since the review, and no payment is counted for two
\* outcomes (attribution.ts:77-113 and 151-188).
THEOREM CreditHasEvidence == AttributionSpec => []CreditIsEvidenced
<1>1. CreditInv => CreditIsEvidenced
  BY DEF CreditInv
<1>2. QED
  BY <1>1, CreditInductive, PTL

-----------------------------------------------------------------------------
(* Records: what a form may say.                                           *)

\* References that bind what is active (ParentsActive).
Binding == Links \ {"conversation", "related"}

LEMMA FormTypes ==
  ASSUME NEW kind, NEW row \in FormRows(kind)
  PROVE  /\ row.state = "active" /\ row.to \in FormLinks(kind) /\ row.status \in RecordStatuses(kind)
         /\ row.currency \in Currencies \union {"none"} /\ row.position \in Nat
         /\ row.dated \in BOOLEAN /\ row.filled \in BOOLEAN /\ row.owes \in BOOLEAN
<1>1. /\ row.state = "active" /\ row.to \in FormLinks(kind) /\ row.status \in RecordStatuses(kind)
      /\ row.owes \in BOOLEAN
  BY DEF FormRows
<1>2. row.currency \in Currencies \union {"none"}
  BY DEF FormRows
<1>3. row.position \in Nat
  <2>1. row.position \in IF kind = "stages" THEN Positions ELSE {0}
    BY DEF FormRows
  <2>2. CASE kind = "stages"
    BY <2>1, <2>2, SalesAssumption
  <2>3. CASE kind # "stages"
    BY <2>1, <2>3
  <2>4. QED
    BY <2>2, <2>3
<1>4. row.dated \in BOOLEAN
  BY DEF FormRows
<1>5. row.filled \in BOOLEAN
  BY DEF FormRows
<1>6. QED
  BY <1>1, <1>2, <1>3, <1>4, <1>5

LEMMA StatusesAreNamed ==
  ASSUME NEW kind
  PROVE  RecordStatuses(kind) \subseteq RowStatuses
<1>1. CASE kind = "stages"
  BY <1>1 DEF RecordStatuses, RowStatuses
<1>2. CASE kind = "estimates"
  BY <1>2 DEF RecordStatuses, RowStatuses
<1>3. CASE kind = "tasks"
  BY <1>3 DEF RecordStatuses, RowStatuses
<1>4. CASE kind = "messages"
  BY <1>4 DEF RecordStatuses, RowStatuses
<1>5. CASE kind \notin {"stages", "estimates", "tasks", "messages"}
  BY <1>5 DEF RecordStatuses, RowStatuses
<1>6. QED
  BY <1>1, <1>2, <1>3, <1>4, <1>5

LEMMA LinkTypes ==
  ASSUME NEW kind, NEW t \in FormLinks(kind)
  PROVE  /\ t \in [Links -> workbook \union {NoLink}]
         /\ \A k \in Links : t[k] \in Offered(kind, k)
<1>1. \A k \in Links : t[k] \in Offered(kind, k)
  BY DEF FormLinks, Links
<1>2. \A k \in Links : Offered(kind, k) \subseteq workbook \union {NoLink}
  BY DEF Offered
<1>3. DOMAIN t = Links
  BY DEF FormLinks, Links
<1>4. t = [k \in Links |-> t[k]]
  BY <1>3 DEF FormLinks
<1>5. QED
  BY <1>1, <1>2, <1>4

\* What may be offered for a reference.
LEMMA OfferTypes ==
  ASSUME workbook \in Workbooks, NEW kind, NEW k \in Links, NEW t \in Offered(kind, k)
  PROVE  /\ t # NoLink => t \in workbook /\ Leads(k, t) /\ k \in MustLink(kind) \union MayLink(kind)
         /\ k \in MustLink(kind) => t # NoLink
BY SalesAssumption DEF Offered

\* A binding reference leads to a record of another resource.
LEMMA KindsDiffer ==
  ASSUME NEW r, NEW t, NEW k \in Binding, Leads(k, t),
         k \in MustLink(RecordKind[r]) \union MayLink(RecordKind[r])
  PROVE  t # r
<1>1. CASE k = "company"
  BY <1>1 DEF Leads, OfKind, MustLink, MayLink
<1>2. CASE k = "contact"
  BY <1>2 DEF Leads, OfKind, MustLink, MayLink
<1>3. CASE k = "pipeline"
  BY <1>3 DEF Leads, OfKind, MustLink, MayLink
<1>4. CASE k = "stage"
  BY <1>4 DEF Leads, OfKind, MustLink, MayLink
<1>5. CASE k = "opportunity"
  BY <1>5 DEF Leads, OfKind, MustLink, MayLink
<1>6. QED
  BY <1>1, <1>2, <1>3, <1>4, <1>5 DEF Binding, Links

\* The row a form leaves.
LEMMA WrittenTypes ==
  ASSUME SalesTypeOK, NEW r \in workbook, NEW row \in FormRows(RecordKind[r]), NEW owes \in BOOLEAN
  PROVE  LET w == Written(r, row, owes) IN
         /\ w \in CrmRows
         /\ w.state = "active" /\ w.to = row.to /\ w.currency = row.currency
         /\ w.position = row.position /\ w.owes = owes /\ w.filled = row.filled
         /\ w.status = IF OfKind(r, "opportunities") THEN crm[row.to["stage"]].status ELSE row.status
         /\ OfKind(r, "estimates") => (w.dated <=> (row.dated \/ row.status = "accepted"))
<1> DEFINE s == IF OfKind(r, "opportunities") THEN crm[row.to["stage"]].status ELSE row.status
           d == \/ row.dated
                \/ OfKind(r, "estimates") /\ row.status = "accepted"
                \/ OfKind(r, "tasks") /\ row.status = "completed"
           w == [row EXCEPT !.status = s, !.dated = d, !.owes = owes]
<1>1. s \in RowStatuses
  <2>1. row.status \in RowStatuses
    BY FormTypes, StatusesAreNamed
  <2>2. CASE OfKind(r, "opportunities")
    <3>1. row.to["stage"] \in Offered(RecordKind[r], "stage") /\ "stage" \in Links
      BY FormTypes, LinkTypes DEF Links
    <3>2. "stage" \in MustLink(RecordKind[r])
      BY <2>2 DEF OfKind, MustLink
    <3>3. row.to["stage"] \in workbook
      BY <3>1, <3>2, OfferTypes DEF SalesTypeOK
    <3>4. QED
      BY <2>2, <3>3 DEF SalesTypeOK, CrmRows
  <2>3. QED
    BY <2>1, <2>2
<1>2. d \in BOOLEAN /\ (OfKind(r, "estimates") => (d <=> (row.dated \/ row.status = "accepted")))
  BY DEF OfKind
<1>3. row.to \in [Links -> workbook \union {NoLink}]
  BY FormTypes, LinkTypes
<1>4. Written(r, row, owes) = w
  BY DEF Written, Derived
<1> HIDE DEF s, d
<1>5. /\ w \in CrmRows
      /\ w.state = "active" /\ w.to = row.to /\ w.currency = row.currency
      /\ w.position = row.position /\ w.owes = owes /\ w.filled = row.filled
      /\ w.status = s /\ w.dated = d
  <2>1. row \in [state : {"active"}, to : [Links -> workbook \union {NoLink}], status : RowStatuses,
                 currency : Currencies \union {"none"}, position : Nat, dated : BOOLEAN,
                 filled : BOOLEAN, owes : BOOLEAN]
    BY <1>3, FormTypes, StatusesAreNamed DEF FormRows
  <2>2. QED
    BY <1>1, <1>2, <2>1 DEF CrmRows
<1> HIDE DEF w
<1>6. QED
  BY <1>2, <1>4, <1>5 DEF s

-----------------------------------------------------------------------------
(* Records: the inductive invariant.                                       *)

\* References lead from and to records that are stored, of the resource they
\* are for.
LinksLead ==
  \A r \in workbook, k \in Links : crm[r].to[k] # NoLink =>
    /\ Stored(r) /\ Stored(crm[r].to[k]) /\ Leads(k, crm[r].to[k])
    /\ k \in MustLink(RecordKind[r]) \union MayLink(RecordKind[r])

\* The references that the rules below go through are there.
Given(r, row) ==
  /\ OfKind(r, "stages") => row.to["pipeline"] # NoLink
  /\ OfKind(r, "opportunities") => row.to["contact"] # NoLink
  /\ OfKind(r, "estimates") => row.to["opportunity"] # NoLink
LinksGiven == \A r \in workbook : Stored(r) => Given(r, crm[r])

StagesMean == \A s \in workbook : OfKind(s, "stages") /\ Stored(s) => crm[s].status \in {"open", "won", "lost"}

SalesInv == SalesTypeOK /\ LinksLead /\ LinksGiven /\ StagesMean /\ RecordsAgree

LEMMA SalesInvInit == SalesInit => SalesInv
<1> SUFFICES ASSUME SalesInit
             PROVE  SalesInv
  OBVIOUS
<1>1. NoRecord \in CrmRows
  BY DEF NoRecord, NoLinks, CrmRows, RowStatuses
<1>2. SalesTypeOK
  BY <1>1 DEF SalesInit, SalesTypeOK
<1>3. \A r \in workbook : /\ crm[r].state = "none" /\ crm[r].owes = FALSE
                          /\ \A k \in Links : crm[r].to[k] = NoLink
  BY DEF SalesInit, NoRecord, NoLinks
<1>4. LinksLead /\ LinksGiven /\ StagesMean
  BY <1>3 DEF LinksLead, LinksGiven, StagesMean, Stored
<1>5. ParentsActive /\ DealsMatchStages /\ MoneyAgrees /\ VisitsAgree /\ PositionsDiffer /\ RequiredGiven
  BY <1>3 DEF ParentsActive, DealsMatchStages, MoneyAgrees, VisitsAgree, PositionsDiffer, RequiredGiven, InUse, Stored
<1>6. QED
  BY <1>2, <1>4, <1>5 DEF SalesInv, RecordsAgree

\* A row that may take the place of r: what it refers to is there, and what
\* others say of r stays true.
StageFits(r, w) ==
  /\ w.status \in {"open", "won", "lost"} /\ PositionFree(r, w)
  /\ Stored(r) =>
       /\ w.to["pipeline"] = crm[r].to["pipeline"]
       /\ w.status = crm[r].status \/ \A o \in workbook : Stored(o) => crm[o].to["stage"] # r
DealFits(r, w) ==
  /\ (w.to["pipeline"] = NoLink) <=> (w.to["stage"] = NoLink)
  /\ w.to["stage"] # NoLink =>
       StageOfPipeline(w) /\ crm[w.to["stage"]].status = OutcomeOf(w.status)
  /\ Stored(r) => w.to["contact"] = crm[r].to["contact"] /\ w.currency = crm[r].currency
EstimateFits(w) ==
  /\ w.currency = crm[w.to["opportunity"]].currency
  /\ w.dated <=> (w.status = "accepted")
FitsIn(r, w) ==
  /\ w.state \in {"active", "archived"}
  /\ \A k \in Links : w.to[k] # NoLink =>
       /\ Stored(w.to[k]) /\ Leads(k, w.to[k])
       /\ k \in MustLink(RecordKind[r]) \union MayLink(RecordKind[r])
  /\ w.state = "active" => \A k \in Binding : w.to[k] # NoLink => InUse(w.to[k])
  /\ w.state = "archived" => \A q \in workbook, k \in Binding : InUse(q) => crm[q].to[k] # r
  /\ Given(r, w)
  /\ OfKind(r, "stages") => StageFits(r, w)
  /\ OfKind(r, "opportunities") => DealFits(r, w)
  /\ OfKind(r, "estimates") => EstimateFits(w)
  /\ OfKind(r, "appointments") => AppointmentAgrees(w)
  /\ w.owes => w.filled

\* A record is written: the rules hold of it and of all that refer to it.
LEMMA WrittenRecord ==
  ASSUME SalesInv, NEW r \in workbook, NEW w \in CrmRows, FitsIn(r, w),
         crm' = [crm EXCEPT ![r] = w], workbook' = workbook, field' \in {"none", "active", "archived"}
  PROVE  SalesInv'
<1>1. SalesTypeOK'
  BY DEF SalesInv, SalesTypeOK, CrmRows
<1>2. crm'[r] = w /\ \A q \in workbook \ {r} : crm'[q] = crm[q]
  BY DEF SalesInv, SalesTypeOK
<1>3. /\ Stored(r)' /\ \A q \in workbook \ {r} : Stored(q)' = Stored(q) /\ InUse(q)' = InUse(q)
      /\ \A q \in workbook : Stored(q) => Stored(q)'
  BY <1>2 DEF Stored, InUse, FitsIn
<1>4. \A q, k : OfKind(q, k)' = OfKind(q, k) /\ Leads(k, q)' = Leads(k, q)
  <2>1. \A q, k : OfKind(q, k)' = OfKind(q, k)
    BY DEF OfKind
  <2>2. \A q, k : Leads(k, q)' = Leads(k, q)
    BY <2>1 DEF Leads, OfKind
  <2>3. QED
    BY <2>1, <2>2
<1>4a. \A q : \A k \in Links : Leads(k, q) => q \in workbook
  BY DEF Leads, OfKind, Links
<1>5. LinksLead'
  <2> SUFFICES ASSUME NEW q \in workbook, NEW k \in Links, NEW t, t = crm'[q].to[k], t # NoLink
               PROVE  /\ Stored(q)' /\ crm'[t].state # "none" /\ Leads(k, t)'
                      /\ k \in MustLink(RecordKind[q]) \union MayLink(RecordKind[q])
    BY <1>4 DEF LinksLead, Stored
  <2>1. Stored(q) \/ q = r
    BY <1>2 DEF SalesInv, LinksLead
  <2>2. Stored(t) /\ Leads(k, t) /\ k \in MustLink(RecordKind[q]) \union MayLink(RecordKind[q])
    BY <1>2 DEF SalesInv, LinksLead, FitsIn
  <2>3. t \in workbook /\ Stored(t)'
    BY <1>3, <1>4a, <2>2
  <2>4. Stored(q)' /\ Leads(k, t)'
    BY <1>3, <1>4, <2>1, <2>2
  <2>5. QED
    BY <2>2, <2>3, <2>4 DEF Stored
<1>6. LinksGiven'
  <2>1. \A q : Given(q, w)' = Given(q, w)
    BY <1>4 DEF Given
  <2>2. \A q \in workbook \ {r} : Given(q, crm[q])' = Given(q, crm[q])
    BY <1>2, <1>4 DEF Given
  <2>3. Given(r, crm[r])'
    BY <1>2, <1>4 DEF Given, FitsIn
  <2>4. QED
    BY <1>3, <2>2, <2>3 DEF SalesInv, LinksGiven
<1>7. StagesMean'
  BY <1>2, <1>3, <1>4 DEF SalesInv, StagesMean, FitsIn, StageFits
<1>8. \A q \in workbook, k \in Binding : crm'[q].to[k] # NoLink => crm'[q].to[k] \in workbook \ {q}
  <2> SUFFICES ASSUME NEW q \in workbook, NEW k \in Binding, crm'[q].to[k] # NoLink
               PROVE  crm'[q].to[k] \in workbook \ {q}
    OBVIOUS
  <2> DEFINE t == crm'[q].to[k]
  <2>1. Leads(k, t) /\ k \in MustLink(RecordKind[q]) \union MayLink(RecordKind[q]) /\ k \in Links
    BY <1>2 DEF SalesInv, LinksLead, FitsIn, Binding
  <2> HIDE DEF t
  <2>2. t \in workbook /\ t # q
    BY <1>4a, <2>1, KindsDiffer
  <2>3. QED
    BY <2>2 DEF t
<1>9. ParentsActive'
  <2> SUFFICES ASSUME NEW q \in workbook, NEW k \in Binding, InUse(q)', crm'[q].to[k] # NoLink
               PROVE  crm'[q].to[k] \in workbook /\ crm'[crm'[q].to[k]].state = "active"
    BY DEF ParentsActive, Binding, InUse
  <2> DEFINE t == crm'[q].to[k]
  <2>1. t \in workbook \ {q}
    BY <1>8
  <2>2. CASE q = r
    <3>1. w.state = "active" /\ InUse(t)
      BY <1>2, <2>2 DEF InUse, FitsIn
    <3>2. QED
      BY <1>2, <2>1, <2>2, <3>1 DEF InUse
  <2>3. CASE q # r
    <3>1. InUse(q) /\ crm[q].to[k] = t
      BY <1>2, <1>3, <2>3
    <3>2. InUse(t)
      BY <3>1 DEF SalesInv, RecordsAgree, ParentsActive, Binding
    <3>3. CASE t = r
      <4>1. w.state = "active"
        BY <3>1, <3>3 DEF FitsIn
      <4>2. QED
        BY <1>2, <3>3, <4>1
    <3>4. CASE t # r
      BY <1>2, <2>1, <3>2, <3>4 DEF InUse
    <3>5. QED
      BY <3>3, <3>4
  <2>4. QED
    BY <2>2, <2>3
<1>10. DealsMatchStages'
  <2> SUFFICES ASSUME NEW o \in workbook, OfKind(o, "opportunities"), Stored(o)'
               PROVE  /\ (crm'[o].to["pipeline"] = NoLink) <=> (crm'[o].to["stage"] = NoLink)
                      /\ crm'[o].to["stage"] # NoLink =>
                           /\ crm'[crm'[o].to["stage"]].to["pipeline"] = crm'[o].to["pipeline"]
                           /\ crm'[crm'[o].to["stage"]].status = OutcomeOf(crm'[o].status)
    BY <1>4 DEF DealsMatchStages, StageOfPipeline
  <2> DEFINE s == crm'[o].to["stage"]
  <2>1. s # NoLink => s \in workbook \ {o}
    BY <1>8 DEF Binding, Links
  <2>2. CASE o = r
    BY <1>2, <2>1, <2>2 DEF FitsIn, DealFits, StageOfPipeline
  <2>3. CASE o # r
    <3>1. Stored(o) /\ crm'[o] = crm[o]
      BY <1>2, <1>3, <2>3
    <3>2. /\ (crm[o].to["pipeline"] = NoLink) <=> (crm[o].to["stage"] = NoLink)
          /\ s # NoLink => crm[s].to["pipeline"] = crm[o].to["pipeline"] /\ crm[s].status = OutcomeOf(crm[o].status)
      BY <3>1 DEF SalesInv, RecordsAgree, DealsMatchStages, StageOfPipeline
    <3>3. s = r => crm'[r].to["pipeline"] = crm[r].to["pipeline"] /\ crm'[r].status = crm[r].status
      <4> SUFFICES ASSUME s = r
                   PROVE  crm'[r].to["pipeline"] = crm[r].to["pipeline"] /\ crm'[r].status = crm[r].status
        OBVIOUS
      <4>1. r # NoLink /\ "stage" \in Links
        BY SalesAssumption DEF SalesInv, SalesTypeOK, Links
      <4>2. Stored(r) /\ Leads("stage", r)
        BY <3>1, <4>1 DEF SalesInv, LinksLead
      <4>3. OfKind(r, "stages")
        BY <4>2 DEF Leads
      <4>4. StageFits(r, w) /\ crm[o].to["stage"] = r
        BY <3>1, <4>3 DEF FitsIn
      <4>5. QED
        BY <1>2, <3>1, <4>2, <4>4 DEF StageFits
    <3>4. QED
      BY <1>2, <2>1, <3>1, <3>2, <3>3
  <2>4. QED
    BY <2>2, <2>3
<1>11. MoneyAgrees'
  <2> SUFFICES ASSUME NEW e \in workbook, OfKind(e, "estimates"), Stored(e)'
               PROVE  /\ crm'[e].currency = crm'[crm'[e].to["opportunity"]].currency
                      /\ crm'[e].dated <=> (crm'[e].status = "accepted")
    BY <1>4 DEF MoneyAgrees
  <2> DEFINE d == crm'[e].to["opportunity"]
  <2>1. d \in workbook \ {e}
    BY <1>4, <1>6, <1>8 DEF LinksGiven, Given, Binding, Links
  <2>2. CASE e = r
    BY <1>2, <2>1, <2>2 DEF FitsIn, EstimateFits
  <2>3. CASE e # r
    <3>1. Stored(e) /\ crm'[e] = crm[e]
      BY <1>2, <1>3, <2>3
    <3>2. crm[e].currency = crm[d].currency /\ (crm[e].dated <=> (crm[e].status = "accepted"))
      BY <3>1 DEF SalesInv, RecordsAgree, MoneyAgrees
    <3>3. d = r => crm'[r].currency = crm[r].currency
      <4> SUFFICES ASSUME d = r
                   PROVE  crm'[r].currency = crm[r].currency
        OBVIOUS
      <4>1. r # NoLink /\ "opportunity" \in Links
        BY SalesAssumption DEF SalesInv, SalesTypeOK, Links
      <4>2. Stored(r) /\ Leads("opportunity", r)
        BY <3>1, <4>1 DEF SalesInv, LinksLead
      <4>3. OfKind(r, "opportunities")
        BY <4>2 DEF Leads
      <4>4. QED
        BY <1>2, <4>2, <4>3 DEF FitsIn, DealFits
    <3>4. QED
      BY <1>2, <2>1, <3>1, <3>2, <3>3
  <2>4. QED
    BY <2>2, <2>3
<1>12. VisitsAgree'
  <2> SUFFICES ASSUME NEW a \in workbook, OfKind(a, "appointments"), Stored(a)', crm'[a].to["opportunity"] # NoLink
               PROVE  crm'[crm'[a].to["opportunity"]].to["contact"] = crm'[a].to["contact"]
    BY <1>4 DEF VisitsAgree, AppointmentAgrees
  <2> DEFINE d == crm'[a].to["opportunity"]
  <2>1. d \in workbook \ {a}
    BY <1>8 DEF Binding, Links
  <2>2. CASE a = r
    BY <1>2, <2>1, <2>2 DEF FitsIn, AppointmentAgrees
  <2>3. CASE a # r
    <3>1. Stored(a) /\ crm'[a] = crm[a]
      BY <1>2, <1>3, <2>3
    <3>2. crm[d].to["contact"] = crm[a].to["contact"]
      BY <3>1 DEF SalesInv, RecordsAgree, VisitsAgree, AppointmentAgrees
    <3>3. d = r => crm'[r].to["contact"] = crm[r].to["contact"]
      <4> SUFFICES ASSUME d = r
                   PROVE  crm'[r].to["contact"] = crm[r].to["contact"]
        OBVIOUS
      <4>1. Stored(r) /\ Leads("opportunity", r)
        BY <3>1 DEF SalesInv, LinksLead, Links
      <4>2. OfKind(r, "opportunities")
        BY <4>1 DEF Leads
      <4>3. QED
        BY <1>2, <4>1, <4>2 DEF FitsIn, DealFits
    <3>4. QED
      BY <1>2, <2>1, <3>1, <3>2, <3>3
  <2>4. QED
    BY <2>2, <2>3
<1>13. PositionsDiffer'
  <2> SUFFICES ASSUME NEW s \in workbook, NEW t \in workbook \ {s}, OfKind(s, "stages"), OfKind(t, "stages"),
                      Stored(s)', Stored(t)', crm'[t].to["pipeline"] = crm'[s].to["pipeline"]
               PROVE  crm'[t].position # crm'[s].position
    BY <1>4 DEF PositionsDiffer, PositionFree
  <2>1. CASE s = r
    BY <1>2, <1>3, <2>1 DEF FitsIn, StageFits, PositionFree
  <2>2. CASE t = r
    BY <1>2, <1>3, <2>2 DEF FitsIn, StageFits, PositionFree
  <2>3. CASE s # r /\ t # r
    BY <1>2, <1>3, <2>3 DEF SalesInv, RecordsAgree, PositionsDiffer, PositionFree
  <2>4. QED
    BY <2>1, <2>2, <2>3
<1>14. RequiredGiven'
  BY <1>2 DEF SalesInv, RecordsAgree, RequiredGiven, FitsIn
<1>15. QED
  BY <1>1, <1>5, <1>6, <1>7, <1>9, <1>10, <1>11, <1>12, <1>13, <1>14 DEF SalesInv, RecordsAgree

-----------------------------------------------------------------------------
(* Records: the writes.                                                    *)

\* What validateRelations accepts fits in, for a new record and for one that may
\* be updated this way.
LEMMA FormFits ==
  ASSUME SalesInv, NEW r \in workbook, NEW row \in FormRows(RecordKind[r]), Related(r, row),
         NEW owes \in BOOLEAN, owes => row.filled, Stored(r) => Updatable(r, row)
  PROVE  Written(r, row, owes) \in CrmRows /\ FitsIn(r, Written(r, row, owes))
<1> DEFINE w == Written(r, row, owes)
           kind == RecordKind[r]
<1>1. /\ w \in CrmRows
      /\ w.state = "active" /\ w.to = row.to /\ w.currency = row.currency
      /\ w.position = row.position /\ w.owes = owes /\ w.filled = row.filled
      /\ w.status = IF OfKind(r, "opportunities") THEN crm[row.to["stage"]].status ELSE row.status
      /\ OfKind(r, "estimates") => (w.dated <=> (row.dated \/ row.status = "accepted"))
  BY WrittenTypes DEF SalesInv
<1> HIDE DEF w
<1>2. \A k \in Links : row.to[k] \in Offered(kind, k)
  BY FormTypes, LinkTypes
<1>3. \A k \in Links :
        /\ row.to[k] # NoLink =>
             row.to[k] \in workbook /\ Leads(k, row.to[k]) /\ k \in MustLink(kind) \union MayLink(kind)
        /\ k \in MustLink(kind) => row.to[k] # NoLink
  BY <1>2, OfferTypes DEF SalesInv, SalesTypeOK
<1>4. \A k \in Links : row.to[k] # NoLink => InUse(row.to[k]) /\ Stored(row.to[k])
  BY DEF Related, RefersToActive, InUse, Stored
<1>5. Given(r, w)
  BY <1>1, <1>3 DEF Given, OfKind, MustLink, Links
<1>6. OfKind(r, "stages") => StageFits(r, w)
  <2> SUFFICES ASSUME OfKind(r, "stages")
               PROVE  StageFits(r, w)
    OBVIOUS
  <2>1. ~OfKind(r, "opportunities") /\ kind = "stages"
    BY DEF OfKind
  <2>2. w.status \in {"open", "won", "lost"}
    BY <1>1, <2>1, FormTypes DEF RecordStatuses
  <2>3. PositionFree(r, w)
    BY <1>1 DEF Related, PositionFree
  <2>4. ASSUME Stored(r)
        PROVE  /\ w.to["pipeline"] = crm[r].to["pipeline"]
               /\ w.status = crm[r].status \/ \A o \in workbook : Stored(o) => crm[o].to["stage"] # r
    <3>1. "pipeline" \in Fixed(kind)
      BY <2>1 DEF Fixed, MustLink
    <3>2. crm[r].to["pipeline"] # NoLink
      BY <2>4 DEF SalesInv, LinksGiven, Given
    <3>3. w.to["pipeline"] = crm[r].to["pipeline"]
      BY <1>1, <2>4, <3>1, <3>2 DEF Updatable
    <3>4. OutcomeChanges(r, row)
      BY <2>4 DEF Updatable
    <3>5. QED
      BY <1>1, <2>1, <3>3, <3>4 DEF OutcomeChanges
  <2>5. QED
    BY <2>2, <2>3, <2>4 DEF StageFits
<1>7. OfKind(r, "opportunities") => DealFits(r, w)
  <2> SUFFICES ASSUME OfKind(r, "opportunities")
               PROVE  DealFits(r, w)
    OBVIOUS
  <2>1. kind = "opportunities"
    BY DEF OfKind
  <2>2. w.to["pipeline"] # NoLink /\ w.to["stage"] # NoLink
    BY <1>1, <1>3, <2>1 DEF MustLink, Links
  <2>3. StageOfPipeline(w)
    BY <1>1 DEF Related, StageOfPipeline
  <2>4. w.status \in {"open", "won", "lost"} /\ w.status = crm[w.to["stage"]].status
    <3>1. OfKind(row.to["stage"], "stages") /\ Stored(row.to["stage"]) /\ row.to["stage"] \in workbook
      BY <1>1, <1>3, <1>4, <2>2 DEF Leads, Links
    <3>2. QED
      BY <1>1, <3>1 DEF SalesInv, StagesMean
  <2>5. ASSUME Stored(r)
        PROVE  w.to["contact"] = crm[r].to["contact"] /\ w.currency = crm[r].currency
    <3>1. "contact" \in Fixed(kind)
      BY <2>1 DEF Fixed
    <3>2. crm[r].to["contact"] # NoLink
      BY <2>5 DEF SalesInv, LinksGiven, Given
    <3>3. QED
      BY <1>1, <2>5, <3>1, <3>2 DEF Updatable
  <2>6. QED
    BY <2>2, <2>3, <2>4, <2>5 DEF DealFits, OutcomeOf
<1>8. OfKind(r, "estimates") => EstimateFits(w)
  <2> SUFFICES ASSUME OfKind(r, "estimates")
               PROVE  EstimateFits(w)
    OBVIOUS
  <2>1. ~OfKind(r, "opportunities") /\ EstimateAgrees(row)
    BY DEF OfKind, Related
  <2>2. QED
    BY <1>1, <2>1 DEF EstimateFits, EstimateAgrees
<1>9. OfKind(r, "appointments") => AppointmentAgrees(w)
  BY <1>1 DEF Related, AppointmentAgrees
<1>10. \A k \in Links : w.to[k] # NoLink =>
         /\ Stored(w.to[k]) /\ Leads(k, w.to[k]) /\ InUse(w.to[k])
         /\ k \in MustLink(kind) \union MayLink(kind)
  BY <1>1, <1>3, <1>4
<1>11. FitsIn(r, w)
  BY <1>1, <1>5, <1>6, <1>7, <1>8, <1>9, <1>10 DEF FitsIn, Binding
<1>12. QED
  BY <1>1, <1>11 DEF w

LEMMA CreateKeeps ==
  ASSUME SalesInv, NEW r \in workbook, NEW row \in FormRows(RecordKind[r]), CreateRecord(r, row)
  PROVE  SalesInv'
<1>1. Requires(r) \in BOOLEAN /\ (Requires(r) => row.filled)
  BY DEF CreateRecord, Requires
<1>2. /\ ~Stored(r) /\ Related(r, row) /\ crm' = [crm EXCEPT ![r] = Written(r, row, Requires(r))]
      /\ UNCHANGED <<workbook, field>>
  BY DEF CreateRecord
<1>3. Written(r, row, Requires(r)) \in CrmRows /\ FitsIn(r, Written(r, row, Requires(r)))
  BY <1>1, <1>2, FormFits
<1>4. field' \in {"none", "active", "archived"}
  BY <1>2 DEF SalesInv, SalesTypeOK
<1>5. QED
  BY <1>2, <1>3, <1>4, WrittenRecord

LEMMA UpdateKeeps ==
  ASSUME SalesInv, NEW r \in workbook, NEW row \in FormRows(RecordKind[r]), UpdateRecord(r, row)
  PROVE  SalesInv'
<1>1. crm[r].owes \in BOOLEAN /\ (crm[r].owes => row.filled)
  BY DEF UpdateRecord, SalesInv, SalesTypeOK, CrmRows, RecordsAgree, RequiredGiven
<1>2. /\ Updatable(r, row) /\ Related(r, row) /\ crm' = [crm EXCEPT ![r] = Written(r, row, crm[r].owes)]
      /\ UNCHANGED <<workbook, field>>
  BY DEF UpdateRecord
<1>3. Written(r, row, crm[r].owes) \in CrmRows /\ FitsIn(r, Written(r, row, crm[r].owes))
  BY <1>1, <1>2, FormFits
<1>4. field' \in {"none", "active", "archived"}
  BY <1>2 DEF SalesInv, SalesTypeOK
<1>5. QED
  BY <1>2, <1>3, <1>4, WrittenRecord

\* Nothing that is active refers to what has no dependents: a deal in a pipeline
\* is in a stage of it, which depends on the pipeline.
LEMMA ArchiveIsFree ==
  ASSUME SalesInv, NEW r \in workbook, InUse(r), Dependents(r) = {},
         NEW q \in workbook, NEW k \in Binding, InUse(q)
  PROVE  crm[q].to[k] # r
<1> SUFFICES ASSUME crm[q].to[k] = r
             PROVE  FALSE
  OBVIOUS
<1>1. /\ r # NoLink /\ Stored(q) /\ Leads(k, r) /\ k \in Links
      /\ k \in MustLink(RecordKind[q]) \union MayLink(RecordKind[q])
  BY SalesAssumption DEF SalesInv, SalesTypeOK, LinksLead, Binding
<1>2. \A d \in workbook : InUse(d) =>
        /\ ~(OfKind(r, "pipelines") /\ OfKind(d, "stages") /\ crm[d].to["pipeline"] = r)
        /\ ~(OfKind(r, "stages") /\ OfKind(d, "opportunities") /\ crm[d].to["stage"] = r)
        /\ ~(OfKind(r, "contacts") /\ RecordKind[d] \in {"opportunities", "appointments", "conversations"}
               /\ crm[d].to["contact"] = r)
        /\ ~(OfKind(r, "companies") /\ crm[d].to["company"] = r)
        /\ ~(OfKind(r, "opportunities") /\ RecordKind[d] \in {"estimates", "appointments"}
               /\ crm[d].to["opportunity"] = r)
  BY DEF Dependents
<1>3. CASE k = "company"
  BY <1>1, <1>2, <1>3 DEF Leads
<1>4. CASE k = "contact"
  <2>1. RecordKind[q] \in {"opportunities", "appointments", "conversations"}
    BY <1>1, <1>4 DEF MustLink, MayLink
  <2>2. QED
    BY <1>1, <1>2, <1>4, <2>1 DEF Leads
<1>5. CASE k = "opportunity"
  <2>1. RecordKind[q] \in {"estimates", "appointments"}
    BY <1>1, <1>5 DEF MustLink, MayLink
  <2>2. QED
    BY <1>1, <1>2, <1>5, <2>1 DEF Leads
<1>6. CASE k = "stage"
  <2>1. OfKind(q, "opportunities")
    BY <1>1, <1>6 DEF MustLink, MayLink, OfKind
  <2>2. QED
    BY <1>1, <1>2, <1>6, <2>1 DEF Leads
<1>7. CASE k = "pipeline"
  <2>1. OfKind(q, "stages") \/ OfKind(q, "opportunities")
    BY <1>1, <1>7 DEF MustLink, MayLink, OfKind
  <2>2. ~OfKind(q, "stages")
    BY <1>1, <1>2, <1>7 DEF Leads
  <2> DEFINE s == crm[q].to["stage"]
  <2>3. s # NoLink /\ crm[s].to["pipeline"] = r
    BY <1>1, <1>7, <2>1, <2>2 DEF SalesInv, RecordsAgree, DealsMatchStages, StageOfPipeline
  <2>4. InUse(s) /\ s \in workbook /\ OfKind(s, "stages")
    BY <2>3 DEF SalesInv, RecordsAgree, ParentsActive, LinksLead, Links, InUse, Leads
  <2>5. QED
    BY <1>1, <1>2, <1>7, <2>3, <2>4 DEF Leads
<1>8. QED
  BY <1>3, <1>4, <1>5, <1>6, <1>7 DEF Binding, Links

\* A row that is stored fits in its own place as long as it is active.
LEMMA StoredFits ==
  ASSUME SalesInv, NEW r \in workbook, Stored(r), NEW w \in CrmRows,
         w.to = crm[r].to, w.status = crm[r].status, w.currency = crm[r].currency,
         w.position = crm[r].position, w.dated = crm[r].dated, w.filled = crm[r].filled,
         w.owes = crm[r].owes,
         \/ w.state = "active" /\ InUse(r)
         \/ w.state = "archived" /\ \A q \in workbook, k \in Binding : InUse(q) => crm[q].to[k] # r
  PROVE  FitsIn(r, w)
<1>1. \A k \in Links : w.to[k] # NoLink =>
        /\ Stored(w.to[k]) /\ Leads(k, w.to[k])
        /\ k \in MustLink(RecordKind[r]) \union MayLink(RecordKind[r])
  BY DEF SalesInv, LinksLead
<1>2. w.state = "active" => \A k \in Binding : w.to[k] # NoLink => InUse(w.to[k])
  BY DEF SalesInv, RecordsAgree, ParentsActive, Binding
<1>3. Given(r, w)
  BY DEF SalesInv, LinksGiven, Given
<1>4. OfKind(r, "stages") => StageFits(r, w)
  BY DEF SalesInv, StagesMean, RecordsAgree, PositionsDiffer, PositionFree, StageFits
<1>5. OfKind(r, "opportunities") => DealFits(r, w)
  BY DEF SalesInv, RecordsAgree, DealsMatchStages, StageOfPipeline, DealFits
<1>6. OfKind(r, "estimates") => EstimateFits(w)
  BY DEF SalesInv, RecordsAgree, MoneyAgrees, EstimateFits
<1>7. OfKind(r, "appointments") => AppointmentAgrees(w)
  BY DEF SalesInv, RecordsAgree, VisitsAgree, AppointmentAgrees
<1>8. w.owes => w.filled
  BY DEF SalesInv, RecordsAgree, RequiredGiven
<1>9. QED
  BY <1>1, <1>2, <1>3, <1>4, <1>5, <1>6, <1>7, <1>8 DEF FitsIn

LEMMA ArchiveKeeps ==
  ASSUME SalesInv, NEW r \in workbook, ArchiveRecord(r)
  PROVE  SalesInv'
<1> DEFINE w == [crm[r] EXCEPT !.state = "archived"]
<1>1. /\ InUse(r) /\ Stored(r) /\ Dependents(r) = {} /\ crm' = [crm EXCEPT ![r] = w]
      /\ UNCHANGED <<workbook, field>>
  BY DEF ArchiveRecord, InUse, Stored
<1>2. /\ w \in CrmRows /\ w.state = "archived" /\ w.to = crm[r].to /\ w.status = crm[r].status
      /\ w.currency = crm[r].currency /\ w.position = crm[r].position /\ w.dated = crm[r].dated
      /\ w.filled = crm[r].filled /\ w.owes = crm[r].owes
  BY DEF SalesInv, SalesTypeOK, CrmRows
<1>3. \A q \in workbook, k \in Binding : InUse(q) => crm[q].to[k] # r
  BY <1>1, ArchiveIsFree
<1> HIDE DEF w
<1>4. FitsIn(r, w)
  BY <1>1, <1>2, <1>3, StoredFits
<1>5. field' \in {"none", "active", "archived"}
  BY <1>1 DEF SalesInv, SalesTypeOK
<1>6. QED
  BY <1>1, <1>2, <1>4, <1>5, WrittenRecord

-----------------------------------------------------------------------------
(* Records: version 1 imports.                                             *)

LEMMA LeastNatural ==
  ASSUME NEW S \in SUBSET Nat, S # {}
  PROVE  \E n \in S : \A m \in S : n <= m
<1> DEFINE R == {pair \in Nat \X Nat : pair[1] < pair[2]}
<1>1. IsWellFoundedOn(R, Nat)
  BY NatLessThanWellFounded DEF OpToRel
<1> HIDE DEF R
<1>2. \E n \in S : \A m \in S : ~ (<<m, n>> \in R)
  BY <1>1, WFMin
<1>3. \A m, n \in Nat : m < n => <<m, n>> \in R
  BY DEF R
<1>4. PICK n \in S : \A m \in S : ~ (<<m, n>> \in R)
  BY <1>2
<1>5. ASSUME NEW m \in S PROVE n <= m
  <2>1. m \in Nat /\ n \in Nat /\ ~(m < n)
    BY <1>3, <1>4
  <2>2. QED
    BY <2>1
<1>6. QED
  BY <1>5

\* The stage an import chooses is one that fits.
LEMMA ChosenStage ==
  ASSUME SalesTypeOK, NEW r, NEW status, StagesFor(r, status) # {}
  PROVE  ImportedStage(r, status) \in StagesFor(r, status)
<1> DEFINE fit == StagesFor(r, status)
           places == {crm[s].position : s \in fit}
<1>1. fit \subseteq workbook
  BY DEF StagesFor
<1>2. places \in SUBSET Nat /\ places # {}
  BY <1>1 DEF SalesTypeOK, CrmRows
<1>3. PICK n \in places : \A m \in places : n <= m
  BY <1>2, LeastNatural
<1> HIDE DEF fit
<1>4. PICK s \in fit : crm[s].position = n
  BY <1>3
<1>5. \A t \in fit : crm[s].position <= crm[t].position
  BY <1>3, <1>4
<1>6. (CHOOSE x \in fit : \A t \in fit : crm[x].position <= crm[t].position) \in fit
  BY <1>4, <1>5
<1> HIDE DEF places
<1>7. QED
  BY <1>6 DEF ImportedStage, fit

ImportedStatuses == {"open", "estimate_sent", "won", "lost"}

LEMMA ImportFits ==
  ASSUME SalesInv, NEW r \in workbook, NEW contact \in workbook, NEW status \in ImportedStatuses,
         NEW currency \in Currencies, ImportDeal(r, status, contact, currency)
  PROVE  \E w \in CrmRows : FitsIn(r, w) /\ crm' = [crm EXCEPT ![r] = w]
<1>1. OfKind(r, "opportunities") /\ OfKind(contact, "contacts") /\ InUse(contact) /\ Stored(contact)
  BY DEF ImportDeal, InUse, Stored
<1>2. ~OfKind(r, "stages") /\ ~OfKind(r, "estimates") /\ ~OfKind(r, "appointments")
  BY <1>1 DEF OfKind
<1>3. CASE ~Stored(r)
  <2> DEFINE w == NewDeal(status, contact, currency)
  <2>1. /\ w \in CrmRows /\ w.state = "active" /\ w.status = status /\ w.currency = currency
        /\ w.owes = FALSE /\ w.to["contact"] = contact
        /\ \A k \in Links \ {"contact"} : w.to[k] = NoLink
    BY DEF NewDeal, NoRecord, NoLinks, CrmRows, RowStatuses, ImportedStatuses, Links
  <2>2. crm' = [crm EXCEPT ![r] = w]
    BY <1>3 DEF ImportDeal, InUse, Stored
  <2> HIDE DEF w
  <2>3. contact # NoLink
    BY SalesAssumption DEF SalesInv, SalesTypeOK
  <2>4. \A k \in Links : w.to[k] # NoLink =>
          /\ Stored(w.to[k]) /\ Leads(k, w.to[k]) /\ InUse(w.to[k])
          /\ k \in MustLink(RecordKind[r]) \union MayLink(RecordKind[r])
    BY <1>1, <2>1 DEF Leads, OfKind, MustLink
  <2>5. Given(r, w)
    BY <1>2, <2>1, <2>3 DEF Given
  <2>6. DealFits(r, w)
    BY <1>3, <2>1 DEF DealFits, Links
  <2>7. FitsIn(r, w)
    BY <1>2, <2>1, <2>4, <2>5, <2>6 DEF FitsIn, Binding
  <2>8. QED
    BY <2>1, <2>2, <2>7
<1>4. CASE InUse(r)
  <2>1. /\ Stored(r) /\ crm[r] \in CrmRows /\ FitsIn(r, crm[r])
    <3>1. Stored(r) /\ crm[r] \in CrmRows /\ crm[r].state = "active"
      BY <1>4 DEF InUse, Stored, SalesInv, SalesTypeOK
    <3>2. QED
      BY <1>4, <3>1, StoredFits
  <2>2. crm[r].owes => crm[r].filled
    BY <2>1 DEF FitsIn
  <2>3. CASE crm[r].to["pipeline"] = NoLink
    <3> DEFINE w == [crm[r] EXCEPT !.status = status]
    <3>1. /\ w \in CrmRows /\ w.to = crm[r].to /\ w.state = crm[r].state /\ w.currency = crm[r].currency
          /\ w.owes = crm[r].owes /\ w.filled = crm[r].filled
      BY <2>1 DEF CrmRows, RowStatuses, ImportedStatuses
    <3>2. crm' = [crm EXCEPT ![r] = w]
      BY <1>4, <2>1, <2>3 DEF ImportDeal
    <3> HIDE DEF w
    <3>3. DealFits(r, w)
      BY <1>1, <2>1, <2>3, <3>1 DEF FitsIn, DealFits
    <3>4. FitsIn(r, w)
      BY <1>2, <2>1, <2>2, <3>1, <3>3 DEF FitsIn, Given
    <3>5. QED
      BY <3>1, <3>2, <3>4
  <2>4. CASE crm[r].to["pipeline"] # NoLink
    <3> DEFINE s == ImportedStage(r, status)
               w == MovedDeal(crm[r], status, s)
    <3>1. StagesFor(r, status) # {} /\ crm' = [crm EXCEPT ![r] = w]
      BY <1>4, <2>1, <2>4 DEF ImportDeal
    <3>2. s \in StagesFor(r, status)
      BY <3>1, ChosenStage DEF SalesInv
    <3> HIDE DEF s
    <3>3. /\ s \in workbook /\ s # NoLink /\ OfKind(s, "stages") /\ InUse(s) /\ Stored(s)
          /\ crm[s].to["pipeline"] = crm[r].to["pipeline"] /\ crm[s].status = OutcomeOf(status)
      BY <3>2, SalesAssumption DEF StagesFor, InUse, Stored, SalesInv, SalesTypeOK
    <3>4. /\ w \in CrmRows /\ w.state = crm[r].state /\ w.currency = crm[r].currency /\ w.status = status
          /\ w.owes = crm[r].owes /\ w.filled = crm[r].filled /\ w.to["stage"] = s
          /\ \A k \in Links \ {"stage"} : w.to[k] = crm[r].to[k]
      BY <2>1, <3>3 DEF MovedDeal, CrmRows, RowStatuses, ImportedStatuses, Links
    <3> HIDE DEF w
    <3>5. DealFits(r, w)
      BY <1>1, <2>1, <2>4, <3>3, <3>4 DEF FitsIn, DealFits, StageOfPipeline, Links
    <3>6. \A k \in Links : w.to[k] # NoLink =>
            /\ Stored(w.to[k]) /\ Leads(k, w.to[k])
            /\ k \in MustLink(RecordKind[r]) \union MayLink(RecordKind[r])
      <4>1. Leads("stage", s) /\ "stage" \in MustLink(RecordKind[r])
        BY <1>1, <3>3 DEF Leads, OfKind, MustLink
      <4>2. QED
        BY <2>1, <3>3, <3>4, <4>1 DEF FitsIn
    <3>7. w.state = "active" /\ \A k \in Binding : w.to[k] # NoLink => InUse(w.to[k])
      BY <1>4, <2>1, <3>3, <3>4 DEF FitsIn, Binding, InUse
    <3>8. Given(r, w)
      BY <1>2, <2>1, <3>4 DEF FitsIn, Given, Links
    <3>9. FitsIn(r, w)
      BY <1>2, <2>2, <3>4, <3>5, <3>6, <3>7, <3>8 DEF FitsIn
    <3>10. QED
      BY <3>1, <3>4, <3>9
  <2>5. QED
    BY <2>3, <2>4
<1>5. QED
  BY <1>3, <1>4 DEF ImportDeal

LEMMA ImportKeeps ==
  ASSUME SalesInv, NEW r \in workbook, NEW contact \in workbook, NEW status \in ImportedStatuses,
         NEW currency \in Currencies, ImportDeal(r, status, contact, currency)
  PROVE  SalesInv'
<1>1. PICK w \in CrmRows : FitsIn(r, w) /\ crm' = [crm EXCEPT ![r] = w]
  BY ImportFits
<1>2. workbook' = workbook /\ field' \in {"none", "active", "archived"}
  BY DEF ImportDeal, SalesInv, SalesTypeOK
<1>3. QED
  BY <1>1, <1>2, WrittenRecord

-----------------------------------------------------------------------------
(* Records: the order of stages.                                           *)

\* Only positions changed.
LEMMA OnlyPositions ==
  ASSUME SalesInv, UNCHANGED <<workbook, field>>, crm' \in [workbook -> CrmRows],
         \A s \in workbook :
           /\ crm'[s].state = crm[s].state /\ crm'[s].to = crm[s].to /\ crm'[s].status = crm[s].status
           /\ crm'[s].currency = crm[s].currency /\ crm'[s].dated = crm[s].dated
           /\ crm'[s].filled = crm[s].filled /\ crm'[s].owes = crm[s].owes,
         PositionsDiffer'
  PROVE  SalesInv'
<1>1. SalesTypeOK'
  BY DEF SalesInv, SalesTypeOK, CrmRows
<1>2. /\ \A q, k : OfKind(q, k)' = OfKind(q, k)
      /\ \A q \in workbook : Stored(q)' = Stored(q) /\ InUse(q)' = InUse(q)
  BY DEF OfKind, Stored, InUse
<1>3. \A q, k : Leads(k, q)' = Leads(k, q)
  BY <1>2 DEF Leads, OfKind
<1>4. \A q \in workbook, k \in Links : crm[q].to[k] # NoLink => crm[q].to[k] \in workbook
  BY DEF SalesInv, SalesTypeOK, CrmRows
<1>5. LinksLead'
  <2> SUFFICES ASSUME NEW q \in workbook, NEW k \in Links, NEW t, t = crm'[q].to[k], t # NoLink
               PROVE  /\ Stored(q)' /\ crm'[t].state # "none" /\ Leads(k, t)'
                      /\ k \in MustLink(RecordKind[q]) \union MayLink(RecordKind[q])
    BY <1>3 DEF LinksLead, Stored
  <2>1. t = crm[q].to[k] /\ t \in workbook
    BY <1>4
  <2>2. /\ Stored(q) /\ Stored(t) /\ Leads(k, t)
        /\ k \in MustLink(RecordKind[q]) \union MayLink(RecordKind[q])
    BY <2>1 DEF SalesInv, LinksLead
  <2>3. QED
    BY <1>2, <1>3, <2>1, <2>2 DEF Stored
<1>6. LinksGiven' /\ StagesMean'
  BY <1>2 DEF SalesInv, LinksGiven, Given, StagesMean
<1>7. ParentsActive'
  <2> SUFFICES ASSUME NEW q \in workbook, NEW k \in Binding, InUse(q)', crm'[q].to[k] # NoLink
               PROVE  crm'[q].to[k] \in workbook /\ crm'[crm'[q].to[k]].state = "active"
    BY DEF ParentsActive, Binding, InUse
  <2>1. InUse(q) /\ crm[q].to[k] # NoLink /\ crm[q].to[k] \in workbook
    BY <1>2, <1>4 DEF Binding
  <2>2. InUse(crm[q].to[k])
    BY <2>1 DEF SalesInv, RecordsAgree, ParentsActive, Binding
  <2>3. QED
    BY <2>1, <2>2 DEF InUse
<1>8. DealsMatchStages'
  <2> SUFFICES ASSUME NEW o \in workbook, OfKind(o, "opportunities"), Stored(o)
               PROVE  /\ (crm'[o].to["pipeline"] = NoLink) <=> (crm'[o].to["stage"] = NoLink)
                      /\ crm'[o].to["stage"] # NoLink =>
                           /\ crm'[crm'[o].to["stage"]].to["pipeline"] = crm'[o].to["pipeline"]
                           /\ crm'[crm'[o].to["stage"]].status = OutcomeOf(crm'[o].status)
    BY <1>2 DEF DealsMatchStages, StageOfPipeline
  <2>1. crm[o].to["stage"] # NoLink => crm[o].to["stage"] \in workbook
    BY <1>4 DEF Links
  <2>2. QED
    BY <2>1 DEF SalesInv, RecordsAgree, DealsMatchStages, StageOfPipeline
<1>9. MoneyAgrees'
  <2> SUFFICES ASSUME NEW e \in workbook, OfKind(e, "estimates"), Stored(e)
               PROVE  /\ crm'[e].currency = crm'[crm'[e].to["opportunity"]].currency
                      /\ crm'[e].dated <=> (crm'[e].status = "accepted")
    BY <1>2 DEF MoneyAgrees
  <2>1. crm[e].to["opportunity"] \in workbook
    BY <1>4 DEF SalesInv, LinksGiven, Given, Links
  <2>2. QED
    BY <2>1 DEF SalesInv, RecordsAgree, MoneyAgrees
<1>10. VisitsAgree'
  <2> SUFFICES ASSUME NEW a \in workbook, OfKind(a, "appointments"), Stored(a), crm'[a].to["opportunity"] # NoLink
               PROVE  crm'[crm'[a].to["opportunity"]].to["contact"] = crm'[a].to["contact"]
    BY <1>2 DEF VisitsAgree, AppointmentAgrees
  <2>1. crm[a].to["opportunity"] \in workbook
    BY <1>4 DEF Links
  <2>2. QED
    BY <2>1 DEF SalesInv, RecordsAgree, VisitsAgree, AppointmentAgrees
<1>11. RequiredGiven'
  BY DEF SalesInv, RecordsAgree, RequiredGiven
<1>12. QED
  BY <1>1, <1>5, <1>6, <1>7, <1>8, <1>9, <1>10, <1>11 DEF SalesInv, RecordsAgree

\* Archived stages keep the order they had, after the active ones.
LEMMA ReorderKeeps ==
  ASSUME SalesInv, NEW p \in workbook, ReorderStages(p)
  PROVE  SalesInv'
<1> DEFINE stages == {s \in workbook : OfKind(s, "stages") /\ Stored(s) /\ crm[s].to["pipeline"] = p}
           kept == {s \in stages : InUse(s)}
           after(s) == {t \in stages \ kept : crm[t].position < crm[s].position}
           n == Cardinality(kept)
<1>1. PICK order \in [kept -> 0 .. n - 1] :
        /\ \A s, t \in kept : order[s] = order[t] => s = t
        /\ crm' = [s \in workbook |->
             IF s \in kept THEN [crm[s] EXCEPT !.position = order[s]]
             ELSE IF s \in stages THEN [crm[s] EXCEPT !.position = n + Cardinality(after(s))]
             ELSE crm[s]]
  BY DEF ReorderStages
<1>2. UNCHANGED <<workbook, field>>
  BY DEF ReorderStages
<1>3. IsFiniteSet(workbook)
  BY SalesAssumption DEF SalesInv, SalesTypeOK
<1>4. IsFiniteSet(kept) /\ n \in Nat
  <2>1. kept \subseteq workbook
    OBVIOUS
  <2>2. QED
    BY <1>3, <2>1, FS_Subset, FS_CardinalityType
<1>5. \A s \in workbook : IsFiniteSet(after(s)) /\ Cardinality(after(s)) \in Nat
  <2> SUFFICES ASSUME NEW s \in workbook
               PROVE  IsFiniteSet(after(s)) /\ Cardinality(after(s)) \in Nat
    OBVIOUS
  <2>1. after(s) \subseteq workbook
    OBVIOUS
  <2> HIDE DEF after
  <2>2. QED
    BY <1>3, <2>1, FS_Subset, FS_CardinalityType
<1> DEFINE place(s) == IF s \in kept THEN order[s]
                       ELSE IF s \in stages THEN n + Cardinality(after(s)) ELSE crm[s].position
<1>6. \A s \in workbook : crm[s] \in CrmRows /\ crm[s].position \in Nat
  BY DEF SalesInv, SalesTypeOK, CrmRows
<1>7. ASSUME NEW s \in stages, NEW t \in stages, s # t
      PROVE  /\ s \in workbook /\ t \in workbook
             /\ crm[s].position # crm[t].position
  BY <1>7 DEF SalesInv, RecordsAgree, PositionsDiffer, PositionFree
<1>8. ASSUME NEW s \in stages \ kept, NEW t \in stages \ kept, crm[s].position < crm[t].position
      PROVE  Cardinality(after(s)) < Cardinality(after(t))
  <2>1. s \in workbook /\ t \in workbook /\ \A x \in stages : crm[x].position \in Nat
    BY <1>6
  <2>2. after(s) \subseteq after(t)
    BY <1>8, <2>1
  <2>3. s \in after(t) /\ s \notin after(s)
    BY <1>8, <2>1
  <2> HIDE DEF after
  <2>4. QED
    BY <1>5, <2>1, <2>2, <2>3, FS_Subset
<1> HIDE DEF after
<1>9. \A s \in workbook : place(s) \in Nat
  BY <1>1, <1>4, <1>5, <1>6
<1>10. ASSUME NEW s \in stages, NEW t \in stages, s # t
       PROVE  place(s) # place(t)
  <2>0. s \in workbook /\ t \in workbook
    OBVIOUS
  <2>1. CASE s \in kept /\ t \in kept
    BY <1>1, <1>10, <2>1
  <2>2. CASE s \in kept /\ t \notin kept
    <3>1. order[s] \in 0 .. n - 1 /\ Cardinality(after(t)) \in Nat
      BY <1>1, <1>5, <2>0, <2>2
    <3>2. place(s) = order[s] /\ place(t) = n + Cardinality(after(t))
      BY <2>2
    <3>3. QED
      BY <1>4, <3>1, <3>2
  <2>3. CASE s \notin kept /\ t \in kept
    <3>1. order[t] \in 0 .. n - 1 /\ Cardinality(after(s)) \in Nat
      BY <1>1, <1>5, <2>0, <2>3
    <3>2. place(t) = order[t] /\ place(s) = n + Cardinality(after(s))
      BY <2>3
    <3>3. QED
      BY <1>4, <3>1, <3>2
  <2>4. CASE s \notin kept /\ t \notin kept
    <3>1. Cardinality(after(s)) # Cardinality(after(t))
      <4>1. crm[s].position < crm[t].position \/ crm[t].position < crm[s].position
        BY <1>6, <1>7, <1>10, <2>0
      <4>2. Cardinality(after(s)) \in Nat /\ Cardinality(after(t)) \in Nat
        BY <1>5, <2>0
      <4>3. QED
        BY <1>8, <2>4, <4>1, <4>2
    <3>2. place(s) = n + Cardinality(after(s)) /\ place(t) = n + Cardinality(after(t))
      BY <2>4
    <3>3. Cardinality(after(s)) \in Nat /\ Cardinality(after(t)) \in Nat
      BY <1>5, <2>0
    <3>4. QED
      BY <1>4, <3>1, <3>2, <3>3
  <2>5. QED
    BY <2>1, <2>2, <2>3, <2>4
<1>11. \A s \in workbook : crm'[s] = [crm[s] EXCEPT !.position = place(s)]
  <2> SUFFICES ASSUME NEW s \in workbook
               PROVE  crm'[s] = [crm[s] EXCEPT !.position = place(s)]
    OBVIOUS
  <2>1. CASE s \in kept
    BY <1>1, <2>1
  <2>2. CASE s \notin kept /\ s \in stages
    BY <1>1, <2>2
  <2>3. CASE s \notin stages
    <3>1. crm'[s] = crm[s] /\ place(s) = crm[s].position
      BY <1>1, <2>3
    <3>2. [crm[s] EXCEPT !.position = crm[s].position] = crm[s]
      BY <1>6 DEF CrmRows
    <3>3. QED
      BY <3>1, <3>2
  <2>4. QED
    BY <2>1, <2>2, <2>3
<1>12. crm' = [s \in workbook |-> crm'[s]]
  BY <1>1
<1>13. \A s \in workbook : s \notin stages => place(s) = crm[s].position
  OBVIOUS
<1> HIDE DEF place
<1>14. \A s \in workbook :
         /\ crm'[s] \in CrmRows /\ crm'[s].position = place(s)
         /\ crm'[s].state = crm[s].state /\ crm'[s].to = crm[s].to /\ crm'[s].status = crm[s].status
         /\ crm'[s].currency = crm[s].currency /\ crm'[s].dated = crm[s].dated
         /\ crm'[s].filled = crm[s].filled /\ crm'[s].owes = crm[s].owes
  <2> TAKE s \in workbook
  <2> DEFINE x == place(s)
  <2>1. x \in Nat /\ crm[s] \in CrmRows /\ crm'[s] = [crm[s] EXCEPT !.position = x]
    BY <1>6, <1>9, <1>11
  <2> HIDE DEF x
  <2>2. /\ crm'[s] \in CrmRows /\ crm'[s].position = x
        /\ crm'[s].state = crm[s].state /\ crm'[s].to = crm[s].to /\ crm'[s].status = crm[s].status
        /\ crm'[s].currency = crm[s].currency /\ crm'[s].dated = crm[s].dated
        /\ crm'[s].filled = crm[s].filled /\ crm'[s].owes = crm[s].owes
    BY <2>1 DEF CrmRows
  <2>3. QED
    BY <2>2 DEF x
<1>15. PositionsDiffer'
  <2> SUFFICES ASSUME NEW s \in workbook, NEW t \in workbook \ {s}, OfKind(s, "stages"), OfKind(t, "stages"),
                      crm'[s].state # "none", crm'[t].state # "none",
                      crm'[t].to["pipeline"] = crm'[s].to["pipeline"]
               PROVE  crm'[t].position # crm'[s].position
    BY <1>2 DEF PositionsDiffer, PositionFree, OfKind, Stored
  <2>1. Stored(s) /\ Stored(t) /\ crm[t].to["pipeline"] = crm[s].to["pipeline"]
    BY <1>14 DEF Stored
  <2>2. CASE crm[s].to["pipeline"] = p
    <3>1. s \in stages /\ t \in stages
      BY <2>1, <2>2
    <3>2. QED
      BY <1>10, <1>14, <3>1
  <2>3. CASE crm[s].to["pipeline"] # p
    <3>1. place(s) = crm[s].position /\ place(t) = crm[t].position
      BY <1>13, <2>1, <2>3
    <3>2. QED
      BY <1>14, <2>1, <3>1 DEF SalesInv, RecordsAgree, PositionsDiffer, PositionFree
  <2>4. QED
    BY <2>2, <2>3
<1>16. crm' \in [workbook -> CrmRows]
  BY <1>12, <1>14
<1>17. QED
  BY <1>2, <1>14, <1>15, <1>16, OnlyPositions

-----------------------------------------------------------------------------
LEMMA SalesInvStep == SalesInv /\ [SalesNext]_salesVars => SalesInv'
<1> SUFFICES ASSUME SalesInv, [SalesNext]_salesVars
             PROVE  SalesInv'
  OBVIOUS
<1> DEFINE Goal == SalesInv'
<1>1. ASSUME UNCHANGED <<crm, workbook>>, field' \in {"none", "active", "archived"}
      PROVE  Goal
  <2>1. crm' \in [workbook -> CrmRows] /\ SalesTypeOK'
    BY <1>1 DEF SalesInv, SalesTypeOK, CrmRows
  <2>2. LinksLead' /\ LinksGiven' /\ StagesMean'
    <3>0. \A q, k : Leads(k, q)' = Leads(k, q)
      BY <1>1 DEF Leads, OfKind
    <3>1. LinksLead'
      <4> SUFFICES ASSUME NEW q \in workbook, NEW k \in Links, NEW t, t = crm[q].to[k], t # NoLink
                   PROVE  /\ Stored(q)' /\ crm'[t].state # "none" /\ Leads(k, t)'
                          /\ k \in MustLink(RecordKind[q]) \union MayLink(RecordKind[q])
        BY <1>1, <3>0 DEF LinksLead, Stored
      <4>1. /\ Stored(q) /\ Stored(t) /\ Leads(k, t)
            /\ k \in MustLink(RecordKind[q]) \union MayLink(RecordKind[q])
        BY DEF SalesInv, LinksLead
      <4>2. QED
        BY <1>1, <3>0, <4>1 DEF Stored
    <3>2. LinksGiven' /\ StagesMean'
      BY <1>1 DEF SalesInv, LinksGiven, StagesMean, Given, OfKind, Stored
    <3>3. QED
      BY <3>1, <3>2
  <2>3. ParentsActive' /\ DealsMatchStages' /\ MoneyAgrees' /\ VisitsAgree' /\ PositionsDiffer' /\ RequiredGiven'
    BY <1>1 DEF SalesInv, RecordsAgree, ParentsActive, DealsMatchStages, MoneyAgrees, VisitsAgree, PositionsDiffer,
                RequiredGiven, InUse, Stored, OfKind, StageOfPipeline, AppointmentAgrees, PositionFree
  <2>4. QED
    BY <2>1, <2>2, <2>3 DEF SalesInv, RecordsAgree
<1>2. ASSUME DefineField \/ ShelveField \/ UNCHANGED salesVars PROVE Goal
  <2>1. UNCHANGED <<crm, workbook>> /\ field' \in {"none", "active", "archived"}
    BY <1>2 DEF DefineField, ShelveField, salesVars, SalesInv, SalesTypeOK
  <2>2. QED
    BY <1>1, <2>1
<1>3. ASSUME NEW r \in workbook, NEW row \in FormRows(RecordKind[r]), CreateRecord(r, row) \/ UpdateRecord(r, row)
      PROVE  Goal
  BY <1>3, CreateKeeps, UpdateKeeps
<1>4. ASSUME NEW r \in workbook, ArchiveRecord(r) \/ ReorderStages(r) PROVE Goal
  BY <1>4, ArchiveKeeps, ReorderKeeps
<1>5. ASSUME NEW r \in workbook, NEW contact \in workbook, NEW status \in ImportedStatuses,
             NEW currency \in Currencies, ImportDeal(r, status, contact, currency)
      PROVE  Goal
  BY <1>5, ImportKeeps
<1> HIDE DEF Goal
<1>6. ASSUME SalesNext PROVE Goal
  BY <1>2, <1>3, <1>4, <1>5, <1>6 DEF SalesNext, ImportedStatuses
<1>7. Goal
  BY <1>2, <1>6
<1>8. QED
  BY <1>7 DEF Goal

\* Members, agents and imports write records of eleven kinds one at a time: the
\* rows stay well formed, references lead to stored records of their resource,
\* and the rules between records hold (crm/service.ts:118-465, projector.ts:103-168).
THEOREM SalesInductive == SalesSpec => []SalesInv
<1>1. QED
  BY SalesInvInit, SalesInvStep, PTL DEF SalesSpec

\* Parents stay active, deals match their stages, estimates and appointments
\* their deal, no two stages share a place and required values stay, although
\* each rule is checked only when one of the two records is written
\* (crm/service.ts:277-372).
THEOREM RecordsStayTogether == SalesSpec => []RecordsAgree
<1>1. SalesInv => RecordsAgree
  BY DEF SalesInv
<1>2. QED
  BY <1>1, SalesInductive, PTL

-----------------------------------------------------------------------------
(* The first agents: the turns of the agents in one event.                 *)

\* What the agents see before the first of them looks.
Start == [handoffs |-> handoffs, runs |-> runs, budget |-> JobBudget]

\* The turns up to the i-th, each made from the one before.
TurnsOf(e, t, n) ==
  /\ t[0] = Start
  /\ \A i \in 1 .. n : t[i] = Looks(e, t[i - 1], Helpers[i])

\* There are such turns: extend those of the agents before the last.
LEMMA TurnsExist ==
  ASSUME NEW e, NEW n \in Nat
  PROVE  \E t : t = [i \in 0 .. n |-> IF i = 0 THEN Start ELSE Looks(e, t[i - 1], Helpers[i])]
<1> DEFINE Def(t, m) == [i \in 0 .. m |-> IF i = 0 THEN Start ELSE Looks(e, t[i - 1], Helpers[i])]
           Bad == {m \in Nat : ~ \E t : t = Def(t, m)}
<1>1. SUFFICES ASSUME Bad # {} PROVE FALSE
  OBVIOUS
<1>2. PICK m \in Bad : \A k \in Bad : m <= k
  BY <1>1, LeastNatural
<1>3. m # 0
  <2>1. [i \in 0 .. 0 |-> Start] = Def([i \in 0 .. 0 |-> Start], 0)
    OBVIOUS
  <2>2. QED
    BY <1>2, <2>1
<1>4. m - 1 \in Nat /\ m - 1 \notin Bad
  BY SMTT(20), <1>2, <1>3
<1>5. PICK t : t = Def(t, m - 1)
  BY <1>4
<1> DEFINE u == [i \in 0 .. m |-> IF i = m THEN Looks(e, t[m - 1], Helpers[m]) ELSE t[i]]
<1>6. ASSUME NEW i \in 0 .. m
      PROVE  u[i] = IF i = 0 THEN Start ELSE Looks(e, u[i - 1], Helpers[i])
  <2>1. CASE i = 0
    <3>1. u[0] = t[0] /\ t[0] = Start
      BY <1>3, <1>5, <2>1
    <3>2. QED
      BY <2>1, <3>1
  <2>2. CASE i = m
    <3>1. i - 1 \in 0 .. m /\ i - 1 # m /\ i # 0
      BY <1>3, <2>2
    <3>2. u[i - 1] = t[i - 1] /\ u[i] = Looks(e, t[m - 1], Helpers[m])
      BY <2>2, <3>1
    <3>3. QED
      BY <2>2, <3>1, <3>2
  <2>3. CASE i # 0 /\ i # m
    <3>1. i \in 0 .. (m - 1) /\ i - 1 \in 0 .. m /\ i - 1 # m
      BY <2>3
    <3>2. t[i] = Looks(e, t[i - 1], Helpers[i])
      BY <1>5, <2>3, <3>1
    <3>3. u[i - 1] = t[i - 1] /\ u[i] = t[i]
      BY <2>3, <3>1
    <3>4. QED
      BY <2>3, <3>2, <3>3
  <2>4. QED
    BY <2>1, <2>2, <2>3
<1>7. u = Def(u, m)
  BY <1>6
<1>8. QED
  BY <1>2, <1>7

LEMMA TurnsMade ==
  ASSUME NEW e
  PROVE  \E t : TurnsOf(e, t, Len(Helpers)) /\ AllLook(e) = t[Len(Helpers)]
<1> DEFINE n == Len(Helpers)
           looked == CHOOSE t : t = [i \in 0 .. n |-> IF i = 0 THEN Start ELSE Looks(e, t[i - 1], Helpers[i])]
<1>1. n \in Nat
  BY WorkforceAssumption
<1>2. looked = [i \in 0 .. n |-> IF i = 0 THEN Start ELSE Looks(e, looked[i - 1], Helpers[i])]
  BY <1>1, TurnsExist
<1>3. AllLook(e) = looked[n]
  BY DEF AllLook, Start
<1> HIDE DEF looked
<1>4. TurnsOf(e, looked, n)
  BY <1>1, <1>2 DEF TurnsOf
<1>5. QED
  BY <1>3, <1>4

-----------------------------------------------------------------------------
(* The handoffs.                                                           *)

HandoffRows ==
  [helper : AllHelpers, event : Happenings, deal : Deals, version : Nat, at : Nat,
   status : {"pending_approval", "completed", "blocked", "rejected"},
   approval : {"none", "pending", "approved", "rejected", "expired"}, doneAt : Int, disturbed : BOOLEAN]

WorkTypes ==
  /\ day \in Nat /\ evaluated \subseteq Happenings /\ runs \subseteq AllHelpers \X evaluated
  /\ helper \in [AllHelpers -> [enabled : BOOLEAN, version : Nat]]
  /\ deal \in [Deals -> [status : {"open", "won", "lost"}, activity : Int, updated : Nat, archived : BOOLEAN]]
  /\ client \in [doNotContact : BOOLEAN, updated : Nat, archived : BOOLEAN]
  /\ handoffs \in SUBSET HandoffRows /\ IsFiniteSet(handoffs)
  /\ revenue \in [Payments -> [deal : Int, paidAt : Int]]

WrittenBefore ==
  client.updated <= day /\ \A d \in Deals : deal[d].updated <= day

\* What a proposal rests on changed: each of these stays so for good.
Moved(a) ==
  \/ helper[a.helper].version > a.version
  \/ deal[a.deal].updated > a.at \/ client.updated > a.at
  \/ deal[a.deal].archived \/ client.archived

ProposalSound(a) ==
  /\ a.at <= day /\ a.version <= helper[a.helper].version
  /\ a.approval = "pending" /\ a.disturbed => Moved(a)
  /\ a.status = "completed" => a.approval # "pending" /\ ~a.disturbed

WorkInv ==
  /\ WorkTypes /\ WrittenBefore
  /\ \A a \in handoffs : ProposalSound(a) /\ a.event \in evaluated
  /\ OneFollowUp /\ WithinBudget /\ PaidAfterwards

LEMMA WorkInvMeans == WorkInv => HandoffsStand
BY DEF WorkInv, HandoffsStand, NothingMoved, ProposalSound

LEMMA WorkInit == WorkforceInit => WorkInv
<1> SUFFICES ASSUME WorkforceInit PROVE WorkInv
  OBVIOUS
<1>1. -StaleAfter \in Int /\ 0 \in Nat /\ JobBudget \in Nat
  BY WorkforceAssumption
<1>2. WorkTypes
  BY <1>1, FS_EmptySet DEF WorkforceInit, WorkTypes, NoRevenue
<1>3. WrittenBefore
  BY DEF WorkforceInit, WrittenBefore
<1>4. handoffs = {} /\ \A p \in Payments : revenue[p] = NoRevenue
  BY DEF WorkforceInit
<1>5. \A e \in Happenings : {a \in handoffs : a.event = e} = {}
  BY <1>4
<1>6. WithinBudget
  BY SMTT(20), <1>1, <1>5, FS_EmptySet DEF WithinBudget
<1>7. QED
  BY <1>2, <1>3, <1>4, <1>6 DEF WorkInv, OneFollowUp, PaidAfterwards

LEMMA ImageBound ==
  ASSUME NEW S, IsFiniteSet(S), NEW f
  PROVE  IsFiniteSet({f[x] : x \in S}) /\ Cardinality({f[x] : x \in S}) <= Cardinality(S)
<1> DEFINE g == [x \in S |-> f[x]]
           T == {f[x] : x \in S}
<1>1. g \in Surjection(S, T)
  BY DEF Surjection
<1>2. QED
  BY <1>1, FS_Surjection

\* Rows that are replaced one by one keep the deals apart and the budget.
LEMMA ImageKeeps ==
  ASSUME WorkInv, NEW f, handoffs' = {f[a] : a \in handoffs},
         \A a \in handoffs : f[a] \in HandoffRows /\ f[a].event = a.event /\ f[a].deal = a.deal
  PROVE  handoffs' \in SUBSET HandoffRows /\ IsFiniteSet(handoffs') /\ OneFollowUp' /\ WithinBudget'
<1>1. IsFiniteSet(handoffs') /\ handoffs' \in SUBSET HandoffRows
  BY ImageBound DEF WorkInv, WorkTypes
<1>2. OneFollowUp'
  BY DEF WorkInv, OneFollowUp
<1>3. ASSUME NEW e \in Happenings
      PROVE  Cardinality({b \in handoffs' : b.event = e}) <= JobBudget
  <2> DEFINE S == {a \in handoffs : a.event = e}
  <2>1. {b \in handoffs' : b.event = e} = {f[a] : a \in S}
    OBVIOUS
  <2>2. IsFiniteSet(S) /\ Cardinality(S) <= JobBudget
    BY FS_Subset DEF WorkInv, WorkTypes, WithinBudget
  <2> HIDE DEF S
  <2>3. /\ IsFiniteSet({f[a] : a \in S}) /\ Cardinality({f[a] : a \in S}) <= Cardinality(S)
    BY <2>2, ImageBound
  <2>4. Cardinality({f[a] : a \in S}) \in Nat /\ Cardinality(S) \in Nat /\ JobBudget \in Nat
    BY <2>2, <2>3, FS_CardinalityType, WorkforceAssumption
  <2> DEFINE T == {f[a] : a \in S}
  <2> HIDE DEF T
  <2>5. Cardinality(T) <= JobBudget
    BY <2>2, <2>3, <2>4 DEF T
  <2>6. QED
    BY <2>1, <2>5 DEF T
<1>4. WithinBudget'
  BY <1>3 DEF WithinBudget
<1>5. QED
  BY <1>1, <1>2, <1>4

\* The clock, the versions and the archive only go on.
GoesOn ==
  /\ day' \in Nat /\ day <= day'
  /\ \A h \in AllHelpers : helper[h].version <= helper'[h].version
  /\ \A d \in Deals : deal[d].updated <= deal'[d].updated /\ (deal[d].archived => deal'[d].archived)
  /\ client.updated <= client'.updated /\ (client.archived => client'.archived)

\* Of the handoffs only the mark changes.
Marked(mark) ==
  handoffs' = {[a EXCEPT !.disturbed = mark[a]] : a \in handoffs}

LEMMA MarkedRows ==
  ASSUME WorkInv, NEW mark \in [handoffs -> BOOLEAN], Marked(mark),
         \A a \in handoffs : a.approval # "pending" => mark[a] = a.disturbed
  PROVE  /\ handoffs' \in SUBSET HandoffRows /\ IsFiniteSet(handoffs')
         /\ \A b \in handoffs' : \E a \in handoffs :
              /\ b.helper = a.helper /\ b.event = a.event /\ b.deal = a.deal /\ b.version = a.version
              /\ b.at = a.at /\ b.status = a.status /\ b.approval = a.approval /\ b.doneAt = a.doneAt
              /\ b.disturbed = mark[a]
         /\ \A a \in handoffs : a.approval # "pending" => a \in handoffs'
         /\ OneFollowUp' /\ WithinBudget'
<1> DEFINE f == [a \in handoffs |-> [a EXCEPT !.disturbed = mark[a]]]
<1>1. handoffs' = {f[a] : a \in handoffs}
  BY DEF Marked
<1>2. ASSUME NEW a \in handoffs
      PROVE  /\ f[a] \in HandoffRows
             /\ f[a].helper = a.helper /\ f[a].event = a.event /\ f[a].deal = a.deal /\ f[a].version = a.version
             /\ f[a].at = a.at /\ f[a].status = a.status /\ f[a].approval = a.approval /\ f[a].doneAt = a.doneAt
             /\ f[a].disturbed = mark[a]
  <2>1. a \in HandoffRows /\ mark[a] \in BOOLEAN
    BY DEF WorkInv, WorkTypes
  <2>2. QED
    BY <2>1 DEF HandoffRows
<1>3. ASSUME NEW a \in handoffs, a.approval # "pending" PROVE f[a] = a
  <2>1. a \in HandoffRows /\ mark[a] = a.disturbed
    BY <1>3 DEF WorkInv, WorkTypes
  <2>2. QED
    BY <2>1 DEF HandoffRows
<1> HIDE DEF f
<1>4. \A a \in handoffs : a.approval # "pending" => a \in handoffs'
  BY <1>1, <1>3
<1>5. handoffs' \in SUBSET HandoffRows /\ IsFiniteSet(handoffs') /\ OneFollowUp' /\ WithinBudget'
  BY SMTT(20), <1>1, <1>2, ImageKeeps
<1>6. ASSUME NEW b \in handoffs'
      PROVE  \E a \in handoffs :
              /\ b.helper = a.helper /\ b.event = a.event /\ b.deal = a.deal /\ b.version = a.version
              /\ b.at = a.at /\ b.status = a.status /\ b.approval = a.approval /\ b.doneAt = a.doneAt
              /\ b.disturbed = mark[a]
  <2>1. PICK a \in handoffs : b = f[a]
    BY <1>1
  <2>2. QED
    BY <1>2, <2>1
<1>7. QED
  BY <1>4, <1>5, <1>6

\* Whatever moves leaves its mark on what waits for it, and only there.
LEMMA SurroundingsKeep ==
  ASSUME WorkInv, GoesOn, NEW mark \in [handoffs -> BOOLEAN], Marked(mark),
         \A a \in handoffs : a.approval # "pending" => mark[a] = a.disturbed,
         \A a \in handoffs : mark[a] => a.disturbed \/ Moved(a)',
         UNCHANGED <<evaluated, runs, revenue>>, WrittenBefore',
         helper' \in [AllHelpers -> [enabled : BOOLEAN, version : Nat]],
         deal' \in [Deals -> [status : {"open", "won", "lost"}, activity : Int, updated : Nat, archived : BOOLEAN]],
         client' \in [doNotContact : BOOLEAN, updated : Nat, archived : BOOLEAN]
  PROVE  WorkInv'
<1>1. WorkTypes'
  BY MarkedRows DEF WorkInv, WorkTypes, GoesOn
<1>2. ASSUME NEW a \in handoffs, Moved(a) PROVE Moved(a)'
  <2>1. a.helper \in AllHelpers /\ a.deal \in Deals /\ a.at \in Nat /\ a.version \in Nat
    BY DEF WorkInv, WorkTypes, HandoffRows
  <2>2. /\ helper[a.helper].version \in Nat /\ helper'[a.helper].version \in Nat
        /\ deal[a.deal].updated \in Nat /\ deal'[a.deal].updated \in Nat
        /\ client.updated \in Nat /\ client'.updated \in Nat
    BY <1>1, <2>1 DEF WorkInv, WorkTypes
  <2>3. QED
    BY <1>2, <2>1, <2>2 DEF Moved, GoesOn
<1>3. ASSUME NEW b \in handoffs'
      PROVE  ProposalSound(b)' /\ b.event \in evaluated'
  <2>1. PICK a \in handoffs :
          /\ b.helper = a.helper /\ b.event = a.event /\ b.deal = a.deal /\ b.version = a.version
          /\ b.at = a.at /\ b.status = a.status /\ b.approval = a.approval /\ b.doneAt = a.doneAt
          /\ b.disturbed = mark[a]
    BY MarkedRows
  <2>2. a.helper \in AllHelpers /\ a.at \in Nat /\ a.version \in Nat
    BY DEF WorkInv, WorkTypes, HandoffRows
  <2>3. helper[a.helper].version \in Nat /\ helper'[a.helper].version \in Nat /\ day \in Nat /\ day' \in Nat
    BY <1>1, <2>2 DEF WorkInv, WorkTypes
  <2>4. ProposalSound(a) /\ a.event \in evaluated
    BY DEF WorkInv
  <2>5. b.at <= day' /\ b.version <= helper'[b.helper].version
    BY <2>1, <2>2, <2>3, <2>4 DEF ProposalSound, GoesOn
  <2>6. b.approval = "pending" /\ b.disturbed => Moved(a)'
    BY <1>2, <2>1, <2>4 DEF ProposalSound
  <2>7. Moved(a)' => Moved(b)'
    BY <2>1 DEF Moved
  <2>8. b.status = "completed" => b.approval # "pending" /\ ~b.disturbed
    BY <2>1, <2>4 DEF ProposalSound
  <2>9. QED
    BY <2>1, <2>4, <2>5, <2>6, <2>7, <2>8 DEF ProposalSound
<1>4. PaidAfterwards'
  <2> SUFFICES ASSUME NEW p \in Payments, revenue[p] # NoRevenue
               PROVE  \E a \in handoffs' : /\ a.deal = revenue[p].deal /\ a.status = "completed"
                                           /\ a.doneAt <= revenue[p].paidAt
    BY DEF PaidAfterwards
  <2>1. PICK a \in handoffs : /\ a.deal = revenue[p].deal /\ a.status = "completed"
                              /\ a.doneAt <= revenue[p].paidAt
    BY DEF WorkInv, PaidAfterwards
  <2>2. a \in handoffs'
    BY <2>1, MarkedRows DEF WorkInv, ProposalSound
  <2>3. QED
    BY <2>1, <2>2
<1>5. QED
  BY <1>1, <1>3, <1>4, MarkedRows DEF WorkInv

LEMMA DisturbsMarks ==
  ASSUME WorkInv, NEW changed, NEW later \in BOOLEAN, Disturbs(changed, later),
         \A a \in handoffs : changed[a] \in BOOLEAN
  PROVE  \E mark \in [handoffs -> BOOLEAN] :
           /\ Marked(mark)
           /\ \A a \in handoffs : a.approval # "pending" => mark[a] = a.disturbed
           /\ \A a \in handoffs : mark[a] => a.disturbed \/ (changed[a] /\ (later => day > a.at))
<1> DEFINE mark == [a \in handoffs |-> a.disturbed \/ (a.approval = "pending" /\ changed[a] /\ (later => day > a.at))]
<1>1. \A a \in handoffs : a.disturbed \in BOOLEAN
  BY DEF WorkInv, WorkTypes, HandoffRows
<1>2. mark \in [handoffs -> BOOLEAN]
  OBVIOUS
<1>3. Marked(mark)
  BY DEF Disturbs, Marked
<1>4. \A a \in handoffs : a.approval # "pending" => mark[a] = a.disturbed
  BY <1>1
<1>5. \A a \in handoffs : mark[a] => a.disturbed \/ (changed[a] /\ (later => day > a.at))
  OBVIOUS
<1>6. QED
  BY <1>2, <1>3, <1>4, <1>5

LEMMA ConfigureStep ==
  ASSUME WorkInv, NEW h \in AllHelpers, NEW enabled \in BOOLEAN, ConfigureHelper(h, enabled)
  PROVE  WorkInv'
<1> DEFINE changed == [a \in handoffs |-> a.helper = h]
<1>1. \A a \in handoffs : changed[a] \in BOOLEAN /\ (changed[a] => a.helper = h)
  OBVIOUS
<1>2. PICK later \in BOOLEAN : Disturbs(changed, later) /\ ~later
  BY DEF ConfigureHelper
<1> HIDE DEF changed
<1>3. PICK mark \in [handoffs -> BOOLEAN] :
        /\ Marked(mark)
        /\ \A a \in handoffs : a.approval # "pending" => mark[a] = a.disturbed
        /\ \A a \in handoffs : mark[a] => a.disturbed \/ (changed[a] /\ (later => day > a.at))
  BY <1>1, <1>2, DisturbsMarks
<1>4. helper[h].version \in Nat
  BY DEF WorkInv, WorkTypes
<1>5. /\ helper' \in [AllHelpers -> [enabled : BOOLEAN, version : Nat]]
      /\ helper'[h].version = helper[h].version + 1
      /\ \A g \in AllHelpers : g # h => helper'[g] = helper[g]
  BY <1>4 DEF ConfigureHelper, WorkInv, WorkTypes
<1>6. \A g \in AllHelpers : helper[g].version \in Nat
  BY DEF WorkInv, WorkTypes
<1>7. GoesOn
  <2>1. \A g \in AllHelpers : helper[g].version <= helper'[g].version
    BY <1>5, <1>6
  <2>2. day \in Nat /\ client.updated \in Nat /\ \A d \in Deals : deal[d].updated \in Nat
    BY DEF WorkInv, WorkTypes
  <2>3. QED
    BY <2>1, <2>2 DEF GoesOn, ConfigureHelper
<1>8. ASSUME NEW a \in handoffs, changed[a] PROVE Moved(a)'
  <2>1. a.helper = h /\ a.version \in Nat /\ a.version <= helper[h].version
    BY <1>1, <1>8 DEF WorkInv, WorkTypes, HandoffRows, ProposalSound
  <2>2. QED
    BY <1>4, <1>5, <2>1 DEF Moved
<1>9. QED
  BY <1>3, <1>5, <1>7, <1>8, SurroundingsKeep DEF ConfigureHelper, WorkInv, WorkTypes, WrittenBefore

LEMMA DealStep ==
  ASSUME WorkInv, NEW d \in Deals,
         \/ ArchiveDeal(d)
         \/ \E status \in {"open", "won", "lost"}, activity \in Days : DealChanges(d, status, activity)
  PROVE  WorkInv'
<1> DEFINE changed == [a \in handoffs |-> a.deal = d]
<1>1. \A a \in handoffs : changed[a] \in BOOLEAN /\ (changed[a] => a.deal = d)
  OBVIOUS
<1>2. PICK later \in BOOLEAN : Disturbs(changed, later) /\ (later \/ ArchiveDeal(d))
  BY DEF ArchiveDeal, DealChanges
<1> HIDE DEF changed
<1>3. PICK mark \in [handoffs -> BOOLEAN] :
        /\ Marked(mark)
        /\ \A a \in handoffs : a.approval # "pending" => mark[a] = a.disturbed
        /\ \A a \in handoffs : mark[a] => a.disturbed \/ (changed[a] /\ (later => day > a.at))
  BY <1>1, <1>2, DisturbsMarks
<1>4. day \in Nat /\ client.updated \in Nat /\ client.updated <= day
      /\ \A x \in Deals : deal[x].updated \in Nat /\ deal[x].updated <= day
  BY DEF WorkInv, WorkTypes, WrittenBefore
<1>5. ASSUME NEW activity \in Days PROVE activity \in Int
  BY <1>5 DEF Days
<1>6. /\ deal' \in [Deals -> [status : {"open", "won", "lost"}, activity : Int, updated : Nat, archived : BOOLEAN]]
      /\ \A x \in Deals : x # d => deal'[x] = deal[x]
      /\ \/ ArchiveDeal(d) /\ deal'[d].archived /\ deal'[d].updated = deal[d].updated
         \/ ~deal[d].archived /\ deal'[d].updated = day
  <2>1. deal \in [Deals -> [status : {"open", "won", "lost"}, activity : Int, updated : Nat, archived : BOOLEAN]]
    BY DEF WorkInv, WorkTypes
  <2>2. CASE ArchiveDeal(d)
    BY <2>1, <2>2 DEF ArchiveDeal
  <2>3. ASSUME NEW status \in {"open", "won", "lost"}, NEW activity \in Days, DealChanges(d, status, activity)
        PROVE  /\ deal' \in [Deals -> [status : {"open", "won", "lost"}, activity : Int, updated : Nat,
                                 archived : BOOLEAN]]
               /\ \A x \in Deals : x # d => deal'[x] = deal[x]
               /\ ~deal[d].archived /\ deal'[d].updated = day
    <3> DEFINE new == [status |-> status, activity |-> activity, updated |-> day, archived |-> FALSE]
    <3>1. new \in [status : {"open", "won", "lost"}, activity : Int, updated : Nat, archived : BOOLEAN]
      BY <1>4, <1>5
    <3>2. deal' = [deal EXCEPT ![d] = new] /\ ~deal[d].archived /\ new.updated = day
      BY <2>3 DEF DealChanges
    <3> HIDE DEF new
    <3>3. QED
      BY <2>1, <3>1, <3>2
  <2>4. QED
    BY <2>2, <2>3
<1>7. GoesOn /\ WrittenBefore'
  <2>1. UNCHANGED <<day, helper, client>>
    BY DEF ArchiveDeal, DealChanges
  <2>2. \A h \in AllHelpers : helper[h].version \in Nat
    BY DEF WorkInv, WorkTypes
  <2>3. QED
    BY <1>4, <1>6, <2>1, <2>2 DEF GoesOn, WrittenBefore
<1>8. ASSUME NEW a \in handoffs, changed[a], later => day > a.at PROVE Moved(a)'
  <2>1. a.deal = d /\ a.at \in Nat
    BY <1>1, <1>8 DEF WorkInv, WorkTypes, HandoffRows
  <2>2. CASE ArchiveDeal(d)
    <3>1. deal'[d].archived
      BY <2>2 DEF ArchiveDeal, WorkInv, WorkTypes
    <3>2. QED
      BY <2>1, <3>1 DEF Moved
  <2>3. CASE ~ArchiveDeal(d)
    BY <1>2, <1>6, <1>8, <2>1, <2>3 DEF Moved
  <2>4. QED
    BY <2>2, <2>3
<1>9. UNCHANGED <<evaluated, runs, revenue, helper, client>>
  BY DEF ArchiveDeal, DealChanges
<1>10. QED
  BY <1>3, <1>6, <1>7, <1>8, <1>9, SurroundingsKeep DEF WorkInv, WorkTypes

LEMMA ClientStep ==
  ASSUME WorkInv, ArchiveClient \/ \E doNotContact \in BOOLEAN : ClientChanges(doNotContact)
  PROVE  WorkInv'
<1> DEFINE changed == [a \in handoffs |-> TRUE]
<1>1. \A a \in handoffs : changed[a] \in BOOLEAN
  OBVIOUS
<1>2. PICK later \in BOOLEAN : Disturbs(changed, later) /\ (later \/ ArchiveClient)
  BY DEF ArchiveClient, ClientChanges
<1> HIDE DEF changed
<1>3. PICK mark \in [handoffs -> BOOLEAN] :
        /\ Marked(mark)
        /\ \A a \in handoffs : a.approval # "pending" => mark[a] = a.disturbed
        /\ \A a \in handoffs : mark[a] => a.disturbed \/ (changed[a] /\ (later => day > a.at))
  BY <1>1, <1>2, DisturbsMarks
<1>4. day \in Nat /\ client.updated \in Nat /\ client.updated <= day
      /\ \A x \in Deals : deal[x].updated \in Nat /\ deal[x].updated <= day
  BY DEF WorkInv, WorkTypes, WrittenBefore
<1>5. /\ client' \in [doNotContact : BOOLEAN, updated : Nat, archived : BOOLEAN]
      /\ \/ ArchiveClient /\ client'.archived /\ client'.updated = client.updated
         \/ ~client.archived /\ client'.updated = day
  BY <1>4 DEF ArchiveClient, ClientChanges, WorkInv, WorkTypes
<1>6. UNCHANGED <<day, helper, deal, evaluated, runs, revenue>>
  BY DEF ArchiveClient, ClientChanges
<1>7. GoesOn /\ WrittenBefore'
  <2>1. \A h \in AllHelpers : helper[h].version \in Nat
    BY DEF WorkInv, WorkTypes
  <2>2. QED
    BY <1>4, <1>5, <1>6, <2>1 DEF GoesOn, WrittenBefore
<1>8. ASSUME NEW a \in handoffs, later => day > a.at PROVE Moved(a)'
  <2>1. a.at \in Nat
    BY DEF WorkInv, WorkTypes, HandoffRows
  <2>2. CASE ArchiveClient
    <3>1. client'.archived
      BY <2>2 DEF ArchiveClient, WorkInv, WorkTypes
    <3>2. QED
      BY <3>1 DEF Moved
  <2>3. CASE ~ArchiveClient
    BY <1>2, <1>5, <1>8, <2>1, <2>3 DEF Moved
  <2>4. QED
    BY <2>2, <2>3
<1>9. QED
  BY <1>3, <1>5, <1>6, <1>7, <1>8, SurroundingsKeep DEF WorkInv, WorkTypes

\* What leaves the handoffs alone.
LEMMA QuietStep ==
  ASSUME WorkInv, GoesOn, UNCHANGED <<handoffs, evaluated, runs, revenue, deal, client>>,
         helper' \in [AllHelpers -> [enabled : BOOLEAN, version : Nat]]
  PROVE  WorkInv'
<1> DEFINE mark == [a \in handoffs |-> a.disturbed]
<1>1. \A a \in handoffs : a.disturbed \in BOOLEAN /\ [a EXCEPT !.disturbed = a.disturbed] = a
  BY DEF WorkInv, WorkTypes, HandoffRows
<1>2. mark \in [handoffs -> BOOLEAN] /\ \A a \in handoffs : mark[a] = a.disturbed
  BY <1>1
<1> HIDE DEF mark
<1>3. \A a \in handoffs : [a EXCEPT !.disturbed = mark[a]] = a
  BY <1>1, <1>2
<1>4. Marked(mark)
  BY <1>3 DEF Marked
<1>5. WrittenBefore'
  BY DEF WorkInv, WorkTypes, WrittenBefore, GoesOn
<1>6. QED
  BY <1>2, <1>4, <1>5, SurroundingsKeep DEF WorkInv, WorkTypes

LEMMA SurroundingsStep ==
  ASSUME WorkInv, Surroundings
  PROVE  WorkInv'
<1>1. /\ day \in Nat /\ client.updated \in Nat /\ \A d \in Deals : deal[d].updated \in Nat
      /\ \A h \in AllHelpers : helper[h].version \in Nat
  BY DEF WorkInv, WorkTypes
<1>2. CASE DayBegins
  <2>1. GoesOn
    BY <1>1, <1>2 DEF GoesOn, DayBegins
  <2>2. QED
    BY <1>2, <2>1, QuietStep DEF DayBegins, WorkInv, WorkTypes
<1>3. ASSUME NEW h \in AllHelpers, CreateHelper(h) PROVE WorkInv'
  <2>1. /\ helper' \in [AllHelpers -> [enabled : BOOLEAN, version : Nat]]
        /\ helper[h].version = 0 /\ helper'[h].version = 1
        /\ \A g \in AllHelpers : g # h => helper'[g] = helper[g]
    BY <1>3 DEF CreateHelper, WorkInv, WorkTypes
  <2>2. GoesOn
    BY <1>1, <1>3, <2>1 DEF GoesOn, CreateHelper
  <2>3. QED
    BY <1>3, <2>1, <2>2, QuietStep DEF CreateHelper
<1>4. QED
  BY <1>2, <1>3, ConfigureStep, DealStep, ClientStep DEF Surroundings

-----------------------------------------------------------------------------
(* Decisions, payments and events.                                         *)

LEMMA DecideStep ==
  ASSUME WorkInv, NEW a \in handoffs, NEW approve \in BOOLEAN, DecideApproval(a, approve)
  PROVE  WorkInv'
<1> DEFINE approved == approve /\ ~Late(a) /\ ~Hindered(a)
           approval == IF Late(a) THEN "expired" ELSE IF approved THEN "approved" ELSE "rejected"
           status == IF approved THEN "completed" ELSE IF Late(a) \/ Hindered(a) THEN "blocked" ELSE "rejected"
           decided == [a EXCEPT !.doneAt = day, !.approval = approval, !.status = status]
           f == [b \in handoffs |-> IF b = a THEN decided ELSE b]
<1>1. a \in HandoffRows /\ day \in Nat /\ day \in Int
  BY DEF WorkInv, WorkTypes
<1>2. /\ approval \in {"none", "pending", "approved", "rejected", "expired"}
      /\ status \in {"pending_approval", "completed", "blocked", "rejected"}
      /\ approval # "pending" /\ (status = "completed" => approved)
  OBVIOUS
<1>3. handoffs' = (handoffs \ {a}) \union {decided} /\ UNCHANGED <<day, helper, deal, client, evaluated, runs, revenue>>
  BY DEF DecideApproval
<1>4. approved => ~Moved(a)
  <2>1. a.helper \in AllHelpers /\ a.version \in Nat /\ helper[a.helper].version \in Nat
    BY <1>1 DEF HandoffRows, WorkInv, WorkTypes
  <2>2. QED
    BY <2>1 DEF Hindered, Stale, Moved
<1> HIDE DEF approved, approval, status
<1>5. /\ decided \in HandoffRows /\ decided.event = a.event /\ decided.deal = a.deal /\ decided.at = a.at
      /\ decided.helper = a.helper /\ decided.version = a.version /\ decided.disturbed = a.disturbed
      /\ decided.status = status /\ decided.approval = approval
  BY <1>1, <1>2 DEF HandoffRows
<1> HIDE DEF decided
<1>6. handoffs' = {f[b] : b \in handoffs}
  BY <1>3
<1>7. \A b \in handoffs : f[b] \in HandoffRows /\ f[b].event = b.event /\ f[b].deal = b.deal
  BY <1>5 DEF WorkInv, WorkTypes
<1> HIDE DEF f
<1>8. handoffs' \in SUBSET HandoffRows /\ IsFiniteSet(handoffs') /\ OneFollowUp' /\ WithinBudget'
  BY <1>6, <1>7, ImageKeeps
<1>9. a.approval = "pending" /\ ProposalSound(a) /\ a.event \in evaluated
  BY DEF DecideApproval, WorkInv
<1>10. ASSUME NEW b \in HandoffRows, decided = b
       PROVE  ProposalSound(b)' /\ b.event \in evaluated'
  BY <1>2, <1>3, <1>4, <1>5, <1>9, <1>10 DEF ProposalSound
<1>11. \A b \in handoffs \ {a} : ProposalSound(b)' /\ b.event \in evaluated'
  BY <1>3 DEF WorkInv, ProposalSound, Moved
<1>12. PaidAfterwards'
  BY <1>3, <1>9 DEF WorkInv, PaidAfterwards, ProposalSound
<1>13. WorkTypes' /\ WrittenBefore'
  BY <1>3, <1>8 DEF WorkInv, WorkTypes, WrittenBefore
<1>14. \A b \in handoffs' : ProposalSound(b)' /\ b.event \in evaluated'
  BY <1>3, <1>5, <1>10, <1>11
<1>15. QED
  BY <1>8, <1>12, <1>13, <1>14 DEF WorkInv

LEMMA RevenueStep ==
  ASSUME WorkInv, NEW a \in handoffs, NEW p \in Payments, NEW paidAt \in Days, RecordRevenue(p, a, paidAt)
  PROVE  WorkInv'
<1>1. a.deal \in Int /\ paidAt \in Int
  BY WorkforceAssumption DEF WorkInv, WorkTypes, HandoffRows, Days
<1>2. /\ revenue' \in [Payments -> [deal : Int, paidAt : Int]]
      /\ revenue'[p].deal = a.deal /\ revenue'[p].paidAt = paidAt
      /\ \A q \in Payments : q # p => revenue'[q] = revenue[q]
  BY <1>1 DEF RecordRevenue, WorkInv, WorkTypes
<1>3. a.status = "completed" /\ a.doneAt <= paidAt
  BY DEF RecordRevenue
<1>4. UNCHANGED <<day, helper, deal, client, evaluated, runs, handoffs>>
  BY DEF RecordRevenue
<1>5. PaidAfterwards'
  BY <1>2, <1>3, <1>4 DEF WorkInv, PaidAfterwards
<1>6. QED
  BY <1>2, <1>4, <1>5 DEF WorkInv, WorkTypes, WrittenBefore, ProposalSound, Moved, OneFollowUp, WithinBudget

\* The order of the search is total, so fewer than n deals are before each of
\* the first n, and they are no more than n.
LEMMA FirstOfBound ==
  ASSUME WorkTypes, NEW found \in SUBSET Deals, NEW n \in Nat
  PROVE  /\ FirstOf(found, n) \subseteq found /\ IsFiniteSet(FirstOf(found, n))
         /\ Cardinality(FirstOf(found, n)) <= n
<1> DEFINE Rank(d) == {c \in found : Before(c, d)}
           first == FirstOf(found, n)
           g == [d \in first |-> Cardinality(Rank(d))]
<1>1. IsFiniteSet(found)
  BY FS_Subset, WorkforceAssumption
<1>2. \A d \in found : d \in Nat /\ deal[d].activity \in Int
  BY WorkforceAssumption DEF WorkTypes
<1>3. first \subseteq found /\ \A d \in first : Cardinality(Rank(d)) < n
  BY DEF FirstOf
<1>4. ASSUME NEW d \in found PROVE IsFiniteSet(Rank(d)) /\ Cardinality(Rank(d)) \in Nat
  BY <1>1, FS_Subset, FS_CardinalityType
<1>5. ASSUME NEW c \in found, NEW d \in found, Before(c, d)
      PROVE  Cardinality(Rank(c)) # Cardinality(Rank(d))
  <2>1. Rank(c) \subseteq Rank(d) /\ c \in Rank(d) /\ c \notin Rank(c)
    BY <1>2, <1>5 DEF Before
  <2>2. Rank(c) # Rank(d)
    BY <2>1
  <2> HIDE DEF Rank
  <2>3. QED
    BY <1>4, <2>1, <2>2, FS_Subset
<1>6. ASSUME NEW c \in found, NEW d \in found, c # d PROVE Before(c, d) \/ Before(d, c)
  BY <1>2, <1>6 DEF Before
<1> HIDE DEF Rank, first
<1>7. \A d \in first : g[d] \in 0 .. (n - 1)
  BY <1>3, <1>4
<1>8. g \in [first -> 0 .. (n - 1)]
  BY <1>7
<1>9. \A c, d \in first : g[c] = g[d] => c = d
  BY <1>3, <1>5, <1>6
<1>10. g \in Injection(first, 0 .. (n - 1))
  <2>1. DOMAIN g = first
    OBVIOUS
  <2> HIDE DEF g
  <2>2. QED
    BY <1>8, <1>9, <2>1 DEF Injection, IsInjective
<1>11. IsFiniteSet(0 .. (n - 1)) /\ Cardinality(0 .. (n - 1)) = n
  <2>1. 0 \in Int /\ n - 1 \in Int
    OBVIOUS
  <2>2. Cardinality(0 .. (n - 1)) = IF 0 > n - 1 THEN 0 ELSE (n - 1) - 0 + 1
    BY <2>1, FS_Interval
  <2>3. QED
    BY <2>1, <2>2, FS_Interval
<1>12. QED
  BY <1>3, <1>10, <1>11, FS_Injection DEF first

\* What holds of the handoffs after each turn, before the event is recorded.
Good(e, done) ==
  /\ done.handoffs \in SUBSET HandoffRows /\ IsFiniteSet(done.handoffs) /\ handoffs \subseteq done.handoffs
  /\ \A a \in done.handoffs : ProposalSound(a) /\ (a.event = e \/ a \in handoffs)
  /\ \A a, b \in done.handoffs : a.deal = b.deal => a = b
  /\ done.runs \subseteq AllHelpers \X (evaluated \union {e})
  /\ done.budget \in Nat
  /\ Cardinality({a \in done.handoffs : a.event = e}) + done.budget <= JobBudget

LEMMA StartIsGood ==
  ASSUME WorkInv, NEW e \in Happenings, e \notin evaluated
  PROVE  Good(e, Start)
<1>1. Start.handoffs = handoffs /\ Start.runs = runs /\ Start.budget = JobBudget
  BY DEF Start
<1>2. {a \in handoffs : a.event = e} = {}
  BY DEF WorkInv
<1>3. Cardinality({a \in handoffs : a.event = e}) + JobBudget <= JobBudget
  <2>1. Cardinality({a \in handoffs : a.event = e}) = 0
    BY <1>2, FS_EmptySet
  <2>2. QED
    BY <2>1, WorkforceAssumption
<1>4. runs \subseteq AllHelpers \X (evaluated \union {e})
  BY DEF WorkInv, WorkTypes
<1>5. JobBudget \in Nat
  BY WorkforceAssumption
<1>6. QED
  BY <1>1, <1>3, <1>4, <1>5 DEF Good, WorkInv, WorkTypes, OneFollowUp

LEMMA ProposedRow ==
  ASSUME WorkTypes, NEW e \in Happenings, NEW h \in AllHelpers, NEW d \in Deals
  PROVE  /\ Proposed(h, e, d) \in HandoffRows /\ Proposed(h, e, d).event = e /\ Proposed(h, e, d).deal = d
         /\ ProposalSound(Proposed(h, e, d))
<1> DEFINE status == IF ~Permitted(h, d) THEN "blocked" ELSE "pending_approval"
           approval == IF ~Permitted(h, d) THEN "none" ELSE "pending"
           new == Proposed(h, e, d)
<1>1. /\ status \in {"blocked", "pending_approval"} /\ approval \in {"none", "pending"}
      /\ helper[h].version \in Nat /\ day \in Nat /\ -1 \in Int
  BY DEF WorkTypes
<1>2. new = [helper |-> h, event |-> e, deal |-> d, version |-> helper[h].version, at |-> day,
             status |-> status, approval |-> approval, doneAt |-> -1, disturbed |-> FALSE]
  BY DEF Proposed
<1> HIDE DEF status, approval
<1>3. /\ new.helper = h /\ new.event = e /\ new.deal = d /\ new.version = helper[h].version /\ new.at = day
      /\ new.status = status /\ ~new.disturbed
  BY <1>2
<1>4. new \in HandoffRows
  BY <1>1, <1>2 DEF HandoffRows
<1> HIDE DEF new
<1>5. ProposalSound(new)
  BY <1>1, <1>3 DEF ProposalSound
<1>6. QED
  BY <1>3, <1>4, <1>5 DEF new

LEMMA LooksIsGood ==
  ASSUME WorkInv, NEW e \in Happenings, NEW h \in AllHelpers, NEW done, Good(e, done)
  PROVE  Good(e, Looks(e, done, h))
<1> DEFINE limit == IF MaxCandidates < done.budget THEN MaxCandidates ELSE done.budget
           found == Candidates(done.handoffs)
           chosen == FirstOf(found, limit)
           f == [d \in chosen |-> Proposed(h, e, d)]
           new == {f[d] : d \in chosen}
           more == [handoffs |-> done.handoffs \union new, runs |-> done.runs \union {<<h, e>>},
                    budget |-> done.budget - Cardinality(chosen)]
<1>1. SUFFICES ASSUME helper[h].enabled, <<h, e>> \notin done.runs PROVE Good(e, more)
  BY DEF Looks
<1>2. limit \in Nat /\ limit <= done.budget /\ done.budget \in Nat
  BY WorkforceAssumption DEF Good
<1>3. found \in SUBSET Deals /\ \A d \in found, a \in done.handoffs : a.deal # d
  BY DEF Candidates, Untouched
<1>4. chosen \subseteq found /\ IsFiniteSet(chosen) /\ Cardinality(chosen) <= limit
  <2> HIDE DEF limit, found
  <2>1. QED
    BY <1>2, <1>3, FirstOfBound DEF WorkInv
<1>5. Cardinality(chosen) \in Nat
  BY <1>4, FS_CardinalityType
<1> HIDE DEF limit, found, chosen
<1>6. ASSUME NEW d \in chosen
      PROVE  f[d] \in HandoffRows /\ f[d].event = e /\ f[d].deal = d /\ ProposalSound(f[d])
  BY <1>3, <1>4, ProposedRow DEF WorkInv
<1>7. IsFiniteSet(new) /\ Cardinality(new) <= Cardinality(chosen)
  <2> HIDE DEF f
  <2>1. QED
    BY <1>4, ImageBound
<1>8. Cardinality(new) \in Nat
  BY <1>7, FS_CardinalityType
<1>9. \A a \in new : a \in HandoffRows /\ a.event = e /\ ProposalSound(a) /\ a.deal \in chosen
  BY <1>6
<1>10. \A a, b \in new : a.deal = b.deal => a = b
  BY <1>6
<1> HIDE DEF f, new
<1>11. /\ more.handoffs = done.handoffs \union new /\ more.runs = done.runs \union {<<h, e>>}
       /\ more.budget = done.budget - Cardinality(chosen)
  OBVIOUS
<1> HIDE DEF more
<1>12. /\ more.handoffs \in SUBSET HandoffRows /\ IsFiniteSet(more.handoffs) /\ handoffs \subseteq more.handoffs
  <2>1. IsFiniteSet(done.handoffs) /\ done.handoffs \in SUBSET HandoffRows /\ handoffs \subseteq done.handoffs
    BY DEF Good
  <2>2. IsFiniteSet(done.handoffs \union new)
    BY <1>7, <2>1, FS_Union
  <2>3. QED
    BY <1>9, <1>11, <2>1, <2>2
<1>13. \A a \in more.handoffs : ProposalSound(a) /\ (a.event = e \/ a \in handoffs)
  BY <1>9, <1>11 DEF Good
<1>14. \A a, b \in more.handoffs : a.deal = b.deal => a = b
  BY <1>3, <1>4, <1>9, <1>10, <1>11 DEF Good
<1>15. more.runs \subseteq AllHelpers \X (evaluated \union {e})
  BY <1>11 DEF Good
<1>16. Cardinality({a \in more.handoffs : a.event = e}) + more.budget <= JobBudget /\ more.budget \in Nat
  <2> DEFINE S == {a \in done.handoffs : a.event = e}
  <2>1. {a \in more.handoffs : a.event = e} = S \union new
    BY <1>9, <1>11
  <2>2. IsFiniteSet(S) /\ Cardinality(S) \in Nat
    BY FS_Subset, FS_CardinalityType DEF Good
  <2>3. Cardinality(S) + done.budget <= JobBudget
    BY DEF Good
  <2> HIDE DEF S
  <2>4. Cardinality(S \union new) <= Cardinality(S) + Cardinality(new) /\ Cardinality(S \union new) \in Nat
    <3>1. IsFiniteSet(S \cap new) /\ Cardinality(S \cap new) \in Nat
      BY <1>7, <2>2, FS_Intersection, FS_CardinalityType
    <3>2. IsFiniteSet(S \union new) /\ Cardinality(S \union new) = Cardinality(S) + Cardinality(new) - Cardinality(S \cap new)
      BY <1>7, <2>2, FS_Union
    <3>3. Cardinality(S \union new) \in Nat
      BY <3>2, FS_CardinalityType
    <3>4. QED
      BY <1>8, <2>2, <3>1, <3>2, <3>3
  <2>5. more.budget \in Nat
    BY <1>2, <1>4, <1>5, <1>11
  <2> DEFINE T == S \union new
  <2>6. T = S \union new
    OBVIOUS
  <2> HIDE DEF T
  <2>7. Cardinality(T) <= Cardinality(S) + Cardinality(chosen) /\ Cardinality(T) \in Nat
    BY <1>5, <1>7, <1>8, <2>2, <2>4, <2>6
  <2>8. Cardinality(T) + more.budget <= JobBudget
    BY <1>2, <1>5, <1>11, <2>2, <2>3, <2>5, <2>7, WorkforceAssumption
  <2>9. QED
    BY <2>1, <2>5, <2>6, <2>8
<1>17. QED
  BY <1>12, <1>13, <1>14, <1>15, <1>16 DEF Good

LEMMA AllLookIsGood ==
  ASSUME WorkInv, NEW e \in Happenings, e \notin evaluated
  PROVE  Good(e, AllLook(e))
<1>1. PICK t : TurnsOf(e, t, Len(Helpers)) /\ AllLook(e) = t[Len(Helpers)]
  BY TurnsMade
<1> DEFINE n == Len(Helpers)
           Bad == {i \in 0 .. n : ~Good(e, t[i])}
<1>2. n \in Nat /\ \A i \in 1 .. n : Helpers[i] \in AllHelpers
  BY WorkforceAssumption
<1>3. CASE Bad = {}
  BY <1>1, <1>2, <1>3
<1>4. CASE Bad # {}
  <2>1. Bad \in SUBSET Nat
    OBVIOUS
  <2>2. PICK i \in Bad : \A k \in Bad : i <= k
    BY <1>4, <2>1, LeastNatural
  <2>3. i # 0
    BY <1>1, <2>2, StartIsGood DEF TurnsOf
  <2>4. i \in 1 .. n /\ i - 1 \in 0 .. n /\ i - 1 \notin Bad
    BY <1>2, <2>2, <2>3
  <2>5. Good(e, t[i - 1]) /\ t[i] = Looks(e, t[i - 1], Helpers[i])
    BY <1>1, <2>4 DEF TurnsOf
  <2>6. Good(e, t[i])
    BY <1>2, <2>4, <2>5, LooksIsGood
  <2>7. QED
    BY <2>2, <2>6
<1>5. QED
  BY <1>3, <1>4

LEMMA EvaluateStep ==
  ASSUME WorkInv, NEW e \in Happenings, EvaluateEvent(e)
  PROVE  WorkInv'
<1>1. PICK done : done = AllLook(e)
  OBVIOUS
<1>2. /\ e \notin evaluated /\ evaluated' = evaluated \union {e}
      /\ handoffs' = done.handoffs /\ runs' = done.runs /\ UNCHANGED <<day, helper, deal, client, revenue>>
  BY <1>1 DEF EvaluateEvent
<1>3. Good(e, done)
  BY <1>1, <1>2, AllLookIsGood
<1>4. WorkTypes' /\ WrittenBefore'
  BY <1>2, <1>3 DEF Good, WorkInv, WorkTypes, WrittenBefore
<1>5. \A a \in handoffs' : ProposalSound(a)' /\ a.event \in evaluated'
  <2>1. ASSUME NEW a \in handoffs' PROVE ProposalSound(a) /\ (a.event = e \/ a.event \in evaluated)
    BY <1>2, <1>3 DEF Good, WorkInv
  <2>2. ASSUME NEW a \in handoffs' PROVE ProposalSound(a)' <=> ProposalSound(a)
    BY <1>2 DEF ProposalSound, Moved
  <2>3. QED
    BY <1>2, <2>1, <2>2
<1>6. OneFollowUp' /\ PaidAfterwards'
  BY <1>2, <1>3 DEF Good, OneFollowUp, PaidAfterwards, WorkInv
<1>7. WithinBudget'
  <2> SUFFICES ASSUME NEW x \in Happenings
               PROVE  Cardinality({a \in handoffs' : a.event = x}) <= JobBudget
    BY DEF WithinBudget
  <2>1. CASE x = e
    <3> DEFINE S == {a \in handoffs' : a.event = e}
    <3>1. Cardinality(S) + done.budget <= JobBudget /\ done.budget \in Nat
      BY <1>2, <1>3 DEF Good
    <3>2. IsFiniteSet(S) /\ Cardinality(S) \in Nat
      BY <1>2, <1>3, FS_Subset, FS_CardinalityType DEF Good
    <3> HIDE DEF S
    <3>3. Cardinality(S) <= JobBudget
      BY <3>1, <3>2, WorkforceAssumption
    <3>4. QED
      BY <2>1, <3>3 DEF S
  <2>2. CASE x # e
    <3>1. {a \in handoffs' : a.event = x} = {a \in handoffs : a.event = x}
      BY <1>2, <1>3, <2>2 DEF Good
    <3>2. QED
      BY <3>1 DEF WorkInv, WithinBudget
  <2>3. QED
    BY <2>1, <2>2
<1>8. QED
  BY <1>4, <1>5, <1>6, <1>7 DEF WorkInv

LEMMA WorkStep == WorkInv /\ [WorkforceNext]_workforceVars => WorkInv'
<1> SUFFICES ASSUME WorkInv, [WorkforceNext]_workforceVars PROVE WorkInv'
  OBVIOUS
<1>1. CASE UNCHANGED workforceVars
  BY <1>1 DEF workforceVars, WorkInv, WorkTypes, WrittenBefore, ProposalSound, Moved, OneFollowUp, WithinBudget,
     PaidAfterwards
<1>2. QED
  BY <1>1, SurroundingsStep, EvaluateStep, DecideStep, RevenueStep DEF WorkforceNext

(* What a handoff rests on, when it was made and what became of it fit     *)
(* together, for any agents, deals, events and time.                       *)
THEOREM WorkInductive == WorkforceSpec => []WorkInv
BY WorkInit, WorkStep, PTL DEF WorkforceSpec

(* Handoffs are proposed once for a deal, within the budget of the event,  *)
(* and carried out only if nothing they rest on changed (agents/runtime.ts, *)
(* approvals/service.ts).                                                  *)
THEOREM FollowUpsStand == WorkforceSpec => []HandoffsStand
BY WorkInductive, WorkInvMeans, PTL

=============================================================================
