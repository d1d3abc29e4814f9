--------------------------- MODULE Recovery_proofs ---------------------------
(***************************************************************************)
(* Theorems about Recovery, for any cases, dispatches, messages and        *)
(* members and any limits.  The state of a case and its handoff fit        *)
(* (CasesInv).  A dispatch belongs to an enrolled case, went out at most   *)
(* under its last claim, and has the status that what went out supports;   *)
(* an attempt of a case is a claimed dispatch that no member asked for     *)
(* (DispatchInv).                                                          *)
(***************************************************************************)
EXTENDS Recovery, FiniteSetTheorems, TLAPS

Automated == {"monitoring", "working"}
State(c) == case[c].state

\* A case that is not enrolled has no handoff, no run and no dispatch.
Enrolment(c) == State(c) = "none" => handoff[c] = "none" /\ case[c].run.status = "none"
CasesEnrolled == \A d \in DOMAIN dispatch : State(dispatch[d].case) # "none"

\* The list of a case's handoff, as HandoffMatchesCase has it.
Matches(c) ==
    /\ State(c) \in Automated => handoff[c] \in {"none", "returned"}
    /\ State(c) \in {"handoff", "awaiting_classification"} => handoff[c] \in {"open", "owned"}
    /\ State(c) = "human_owned" => handoff[c] = "owned"
    /\ State(c) = "closed" => handoff[c] = "closed"

CasesInv == \A c \in Cases : Enrolment(c) /\ Matches(c)

\* What was sent of a dispatch was sent under its last claim.
Evidence(d) ==
    /\ sent[d] \subseteq {dispatch[d].transports}
    /\ dispatch[d].status = "delivered" => sent[d] # {}
    /\ dispatch[d].status \in {"pending", "cancelled", "failed"} => sent[d] = {}
    /\ dispatch[d].status \in {"dispatching", "unknown"} => dispatch[d].transports > 0
EvidenceInv ==
    /\ \A d \in DOMAIN dispatch : Evidence(d)
    /\ \A d \in Dispatches \ DOMAIN dispatch : sent[d] = {}

\* The dispatches that count against the attempts of a case.
Counts(c, d) == dispatch[d].case = c /\ ~Human(d) /\ dispatch[d].transports > 0
Counted(c) == {d \in DOMAIN dispatch : Counts(c, d)}
AttemptsInv ==
    /\ IsFiniteSet(DOMAIN dispatch)
    /\ \A c \in Cases : case[c].attempts = Cardinality(Counted(c)) /\ case[c].attempts <= MaximumAttempts

DispatchInv ==
    /\ CasesEnrolled
    /\ OneUnresolvedPerContact
    /\ UnknownFreezes
    /\ EvidenceInv
    /\ AttemptsInv

IInv == TypeOK /\ CasesInv /\ DispatchInv

------------------------------------------------------------------------------
(* The rows of a case.                                                      *)

RowRun(row) == row.run.status = "none"

LEMMA MessagesAreNumbers == Messages \subseteq Nat /\ NoMessage \in Nat /\ Messages \cup {0} \subseteq Nat
BY ConstantsAssumption DEF Messages, NoMessage

LEMMA NoRunType == NoRun \in Runs /\ NoCase \in CaseRows
<1>1. NoRun \in Runs
  BY DEF NoRun, Runs, Active
<1>2. QED
  BY <1>1 DEF NoCase, CaseRows, States, NoMessage

\* Only the status or the decision of the run changes.
LEMMA RunRow ==
    ASSUME NEW row \in CaseRows, NEW s \in {"running", "waiting_approval", "completed", "stopped", "skipped"},
           NEW x \in {"none", "send", "sent", "stop"}
    PROVE  /\ [row EXCEPT !.run.status = s] \in CaseRows
           /\ [row EXCEPT !.run.decision = x] \in CaseRows
           /\ [row EXCEPT !.run.status = s, !.run.decision = x] \in CaseRows
           /\ [row EXCEPT !.run.status = s].run.status = s
           /\ [row EXCEPT !.run.decision = x].run.status = row.run.status
           /\ [row EXCEPT !.run.status = s, !.run.decision = x].run.status = s
           /\ [row EXCEPT !.run.status = s].state = row.state
           /\ [row EXCEPT !.run.decision = x].state = row.state
           /\ [row EXCEPT !.run.status = s, !.run.decision = x].state = row.state
           /\ [row EXCEPT !.run.status = s].attempts = row.attempts
           /\ [row EXCEPT !.run.decision = x].attempts = row.attempts
           /\ [row EXCEPT !.run.status = s, !.run.decision = x].attempts = row.attempts
<1> DEFINE R1 == [row.run EXCEPT !.status = s]
           R2 == [row.run EXCEPT !.decision = x]
           R3 == [row.run EXCEPT !.status = s, !.decision = x]
<1>1. /\ R1 \in Runs /\ R2 \in Runs /\ R3 \in Runs
      /\ R1.status = s /\ R2.status = row.run.status /\ R3.status = s
  BY DEF CaseRows, Runs, Active
<1>2. /\ [row EXCEPT !.run.status = s] = [row EXCEPT !.run = R1]
      /\ [row EXCEPT !.run.decision = x] = [row EXCEPT !.run = R2]
      /\ [row EXCEPT !.run.status = s, !.run.decision = x] = [row EXCEPT !.run = R3]
  BY DEF CaseRows
<1> HIDE DEF R1, R2, R3
<1>3. \A r \in Runs : /\ [row EXCEPT !.run = r] \in CaseRows
                      /\ [row EXCEPT !.run = r].run = r
                      /\ [row EXCEPT !.run = r].state = row.state
                      /\ [row EXCEPT !.run = r].attempts = row.attempts
  BY DEF CaseRows
<1>4. QED
  BY ZenonT(30), <1>1, <1>2, <1>3

LEMMA PausedRow ==
    ASSUME NEW row \in CaseRows, NEW s \in States
    PROVE  /\ Paused(row, s) \in CaseRows
           /\ Paused(row, s).state = s /\ Paused(row, s).attempts = row.attempts
           /\ RowRun(row) => RowRun(Paused(row, s))
<1> DEFINE t == IF row.pending /\ row.run.status \in Active THEN "stopped" ELSE row.run.status
           r == [row.run EXCEPT !.status = t]
<1>1. r \in Runs /\ (row.run.status = "none" => r.status = "none")
  BY DEF CaseRows, Runs, Active
<1>2. Paused(row, s) = [row EXCEPT !.state = s, !.revision = @ + 1, !.due = "none", !.run = r]
  BY DEF Paused, CaseRows
<1> HIDE DEF r
<1>3. row.revision + 1 \in Nat
  BY DEF CaseRows
<1>4. QED
  BY <1>1, <1>2, <1>3 DEF CaseRows, RowRun

LEMMA StartedRow ==
    ASSUME NEW row \in CaseRows, NEW inbound \in BOOLEAN, version \in Nat
    PROVE  /\ Started(row, inbound) \in CaseRows
           /\ Started(row, inbound).state = IF inbound THEN "awaiting_classification" ELSE "working"
           /\ Started(row, inbound).attempts = row.attempts
<1>1. RunFor(row, inbound) \in Runs
  BY DEF RunFor, NoRun, CaseRows, Runs, Active
<1>2. QED
  BY <1>1 DEF Started, CaseRows, States

LEMMA AfterReplyRow ==
    ASSUME NEW c \in Cases, case[c] \in CaseRows, NEW m \in Messages, NEW admitted \in BOOLEAN, version \in Nat
    PROVE  /\ AfterReply(c, m, admitted) \in CaseRows
           /\ AfterReply(c, m, admitted).attempts = case[c].attempts
           /\ \/ AfterReply(c, m, admitted).state
                    \in {"opted_out", "ineligible", "handoff", "awaiting_classification"}
              \/ AfterReply(c, m, admitted).state = "human_owned" /\ State(c) = "human_owned"
<1> DEFINE s == StateAfterReply(case[c], inbox[m])
           row == Paused(case[c], s)
           paused == [row EXCEPT !.latest = m, !.pending = FALSE]
           classify == enabled /\ inbox[m] = "reply" /\ case[c].state # "human_owned"
<1>1. /\ s \in States
      /\ s \in {"opted_out", "handoff", "awaiting_classification"} \/ (s = "human_owned" /\ State(c) = "human_owned")
  BY DEF StateAfterReply, States, State
<1> HIDE DEF s
<1>2. row \in CaseRows /\ row.state = s /\ row.attempts = case[c].attempts
  BY <1>1, PausedRow
<1> HIDE DEF row
<1>3. paused \in CaseRows /\ paused.state = s /\ paused.attempts = case[c].attempts
  BY <1>2 DEF CaseRows
<1> HIDE DEF paused
<1>4. AfterReply(c, m, admitted) =
         IF ~classify THEN paused
         ELSE IF Base(c) = "opt_out" THEN Paused(paused, "opted_out")
         ELSE IF Base(c) # "ok" THEN Paused(paused, "ineligible")
         ELSE IF admitted THEN Started(paused, TRUE) ELSE paused
  BY DEF AfterReply, paused, row, s
<1> HIDE DEF classify
<1>5. /\ Paused(paused, "opted_out") \in CaseRows /\ Paused(paused, "opted_out").state = "opted_out"
      /\ Paused(paused, "opted_out").attempts = case[c].attempts
      /\ Paused(paused, "ineligible") \in CaseRows /\ Paused(paused, "ineligible").state = "ineligible"
      /\ Paused(paused, "ineligible").attempts = case[c].attempts
  BY <1>3, PausedRow DEF States
<1>6. /\ Started(paused, TRUE) \in CaseRows /\ Started(paused, TRUE).state = "awaiting_classification"
      /\ Started(paused, TRUE).attempts = case[c].attempts
  BY <1>3, StartedRow
<1>7. QED
  BY <1>1, <1>3, <1>4, <1>5, <1>6

LEMMA AfterDeliveryRow ==
    ASSUME NEW row \in CaseRows, NEW d
    PROVE  /\ AfterDelivery(row, d) \in CaseRows
           /\ AfterDelivery(row, d).attempts = row.attempts
           /\ AfterDelivery(row, d).run = row.run
           /\ \/ AfterDelivery(row, d).state = row.state
              \/ /\ row.state \in Automated
                 /\ AfterDelivery(row, d).state \in {"exhausted", "monitoring"}
BY DEF AfterDelivery, CaseRows, States, Automated

------------------------------------------------------------------------------
(* Steps that let dispatches be or cancel them.                             *)

CaseType == case \in [Cases -> CaseRows]
HandoffType == handoff \in [Cases -> {"none", "open", "owned", "returned", "closed"}]
OwnerType == owner \in [Cases -> Members \cup {Nobody}]
DispatchType == DOMAIN dispatch \subseteq Dispatches /\ \A d \in DOMAIN dispatch : dispatch[d] \in DispatchRows
SentType == sent \in [Dispatches -> SUBSET (1..MaxTransports)]
WorldType ==
    /\ enabled \in BOOLEAN /\ version \in Nat
    /\ doNotContact \in BOOLEAN /\ clear \in BOOLEAN /\ open \in BOOLEAN
    /\ opportunity \in [Cases -> {"open", "booked", "closed"}]
    /\ quiet \in [Cases -> BOOLEAN]
    /\ inbox \in [Messages -> Kinds \cup {"none"}]
    /\ events \subseteq Events
    /\ acts \in 0..MaxActs

LEMMA TypeParts ==
    /\ TypeOK <=> CaseType /\ HandoffType /\ OwnerType /\ DispatchType /\ SentType /\ WorldType
    /\ TypeOK' <=> CaseType' /\ HandoffType' /\ OwnerType' /\ DispatchType' /\ SentType' /\ WorldType'
BY DEF TypeOK, CaseType, HandoffType, OwnerType, DispatchType, SentType, WorldType

LEMMA WorldKept == WorldType /\ UNCHANGED <<worldVars, acts>> => WorldType'
BY DEF WorldType, worldVars

\* At most, a dispatch that waits is cancelled.
Keeps(d) ==
    /\ dispatch'[d].case = dispatch[d].case
    /\ dispatch'[d].actor = dispatch[d].actor
    /\ dispatch'[d].transports = dispatch[d].transports
    /\ \/ dispatch'[d].status = dispatch[d].status
       \/ dispatch[d].status = "pending" /\ dispatch'[d].status = "cancelled"
DispatchKept == DOMAIN dispatch' = DOMAIN dispatch /\ \A d \in DOMAIN dispatch : Keeps(d)

LEMMA CancelledRow ==
    ASSUME NEW row \in DispatchRows, NEW s \in {"pending", "dispatching", "unknown", "cancelled", "delivered", "failed"}
    PROVE  LET new == [row EXCEPT !.status = s] IN
           /\ new \in DispatchRows /\ new.status = s /\ new.case = row.case /\ new.actor = row.actor
           /\ new.transports = row.transports /\ new.revision = row.revision /\ new.version = row.version
BY DEF DispatchRows, Unresolved

LEMMA CancelPendingType ==
    ASSUME DispatchType, NEW C
    PROVE  /\ DOMAIN CancelPending(C) = DOMAIN dispatch
           /\ \A d \in DOMAIN dispatch :
                 /\ CancelPending(C)[d] \in DispatchRows
                 /\ CancelPending(C)[d].case = dispatch[d].case
                 /\ CancelPending(C)[d].actor = dispatch[d].actor
                 /\ CancelPending(C)[d].transports = dispatch[d].transports
                 /\ \/ CancelPending(C)[d].status = dispatch[d].status
                    \/ dispatch[d].status = "pending" /\ CancelPending(C)[d].status = "cancelled"
<1>1. \A d \in DOMAIN dispatch :
         CancelPending(C)[d] = IF dispatch[d].case \in C /\ dispatch[d].status = "pending"
                               THEN [dispatch[d] EXCEPT !.status = "cancelled"] ELSE dispatch[d]
  BY DEF CancelPending
<1>2. \A d \in DOMAIN dispatch : dispatch[d] \in DispatchRows
  BY DEF DispatchType
<1>3. DOMAIN CancelPending(C) = DOMAIN dispatch
  BY DEF CancelPending
<1>4. ASSUME NEW d \in DOMAIN dispatch
      PROVE  LET new == CancelPending(C)[d] IN
             /\ new \in DispatchRows /\ new.case = dispatch[d].case /\ new.actor = dispatch[d].actor
             /\ new.transports = dispatch[d].transports
             /\ \/ new.status = dispatch[d].status
                \/ dispatch[d].status = "pending" /\ new.status = "cancelled"
  <2>1. CASE dispatch[d].case \in C /\ dispatch[d].status = "pending"
    <3>1. CancelPending(C)[d] = [dispatch[d] EXCEPT !.status = "cancelled"]
      BY <1>1, <2>1
    <3>2. dispatch[d] \in DispatchRows
      BY <1>2
    <3>3. QED
      BY <2>1, <3>1, <3>2 DEF DispatchRows, Unresolved
  <2>2. CASE ~(dispatch[d].case \in C /\ dispatch[d].status = "pending")
    BY <1>1, <1>2, <2>2
  <2>3. QED
    BY <2>1, <2>2
<1>5. QED
  BY <1>3, <1>4

LEMMA CancelKept ==
    ASSUME DispatchType, NEW C, dispatch' = CancelPending(C)
    PROVE  DispatchType' /\ DispatchKept
<1>1. /\ DOMAIN dispatch' = DOMAIN dispatch
      /\ \A d \in DOMAIN dispatch : Keeps(d) /\ dispatch'[d] \in DispatchRows
  BY CancelPendingType DEF Keeps
<1>2. QED
  BY <1>1 DEF DispatchType, DispatchKept

LEMMA SameKept == DispatchType /\ dispatch' = dispatch => DispatchType' /\ DispatchKept
BY DEF DispatchType, DispatchKept, Keeps

\* Nothing is sent, and every case stays where its list wants it.
Calm == DispatchKept /\ sent' = sent /\ \A c \in Cases : case'[c].attempts = case[c].attempts
Sound(c) ==
    /\ Enrolment(c)' /\ Matches(c)'
    /\ State(c) # "none" => State(c)' # "none"
    /\ State(c)' \in Automated => State(c) \in Automated \/ UnresolvedOf(c) = {}

LEMMA SameCounted ==
    ASSUME NEW c, DOMAIN dispatch' = DOMAIN dispatch,
           \A d \in DOMAIN dispatch : /\ dispatch'[d].case = dispatch[d].case
                                      /\ dispatch'[d].actor = dispatch[d].actor
                                      /\ dispatch'[d].transports = dispatch[d].transports
    PROVE  Counted(c)' = Counted(c)
BY DEF Counted, Counts, Human

LEMMA CalmStep ==
    ASSUME IInv, TypeOK', Calm, \A c \in Cases : Sound(c)
    PROVE  IInv'
<1>1. CasesInv'
  BY DEF CasesInv, Sound
<1>2. /\ DOMAIN dispatch' = DOMAIN dispatch
      /\ \A d \in DOMAIN dispatch :
            /\ dispatch'[d].case = dispatch[d].case
            /\ dispatch'[d].actor = dispatch[d].actor
            /\ dispatch'[d].transports = dispatch[d].transports
            /\ \/ dispatch'[d].status = dispatch[d].status
               \/ dispatch[d].status = "pending" /\ dispatch'[d].status = "cancelled"
  BY DEF Calm, DispatchKept, Keeps
<1>3. \A d \in DOMAIN dispatch : dispatch[d].case \in Cases
  BY DEF IInv, TypeOK, DispatchRows
<1>4. CasesEnrolled'
  BY <1>2, <1>3 DEF IInv, DispatchInv, CasesEnrolled, Sound
<1>5. OneUnresolvedPerContact'
  BY <1>2 DEF IInv, DispatchInv, OneUnresolvedPerContact, Unresolved
<1>6. UnknownFreezes'
  <2> SUFFICES ASSUME NEW d \in DOMAIN dispatch, dispatch'[d].status = "unknown"
               PROVE  case'[dispatch[d].case].state \notin Automated
    BY <1>2 DEF UnknownFreezes, Automated
  <2>1. dispatch[d].status = "unknown"
    BY <1>2
  <2>2. State(dispatch[d].case) \notin Automated
    BY <2>1 DEF IInv, DispatchInv, UnknownFreezes, State, Automated
  <2>3. d \in UnresolvedOf(dispatch[d].case)
    BY <2>1 DEF UnresolvedOf, Unresolved
  <2>4. ASSUME NEW c \in Cases, State(c) \notin Automated, d \in UnresolvedOf(c)
        PROVE  case'[c].state \notin Automated
    BY <2>4 DEF Sound, State
  <2>5. QED
    BY <1>3, <2>2, <2>3, <2>4
<1>7. EvidenceInv'
  <2>1. sent' = sent
    BY DEF Calm
  <2>2. \A d \in DOMAIN dispatch : Evidence(d)'
    BY <1>2, <2>1 DEF IInv, DispatchInv, EvidenceInv, Evidence
  <2>3. QED
    BY <1>2, <2>1, <2>2 DEF IInv, DispatchInv, EvidenceInv
<1>8. AttemptsInv'
  <2>1. \A c \in Cases : Counted(c)' = Counted(c) /\ case'[c].attempts = case[c].attempts
    BY <1>2, SameCounted DEF Calm
  <2>2. QED
    BY <1>2, <2>1 DEF IInv, DispatchInv, AttemptsInv
<1>9. QED
  BY <1>1, <1>4, <1>5, <1>6, <1>7, <1>8 DEF IInv, DispatchInv

\* A case that the step leaves alone.
LEMMA LeftAlone ==
    ASSUME IInv, NEW c \in Cases, State(c)' = State(c), handoff'[c] = handoff[c],
           RowRun(case[c]) => RowRun(case'[c]) \/ State(c) # "none"
    PROVE  Sound(c)
BY DEF IInv, CasesInv, Sound, Enrolment, Matches, State, RowRun

LEMMA ReachedEnrolment ==
    ASSUME IInv, NEW c \in Cases, handoff[c] # "none" \/ case[c].run.status # "none"
    PROVE  State(c) # "none"
BY DEF IInv, CasesInv, Enrolment

\* One case changes, and no handoff.
LEMMA OneCase ==
    ASSUME IInv, NEW c \in Cases, NEW row \in CaseRows, case' = [case EXCEPT ![c] = row],
           row.attempts = case[c].attempts, handoff' = handoff, owner' = owner, sent' = sent,
           DispatchType', DispatchKept, WorldType',
           row.state = State(c) \/ Sound(c), State(c) # "none" \/ RowRun(row) \/ Sound(c)
    PROVE  IInv'
<1>1. CaseType' /\ State(c)' = row.state /\ case'[c] = row /\ \A q \in Cases \ {c} : case'[q] = case[q]
  BY DEF IInv, TypeOK, CaseType, State
<1>2. TypeOK'
  BY <1>1, TypeParts DEF IInv, HandoffType, OwnerType, SentType
<1>3. Calm
  BY <1>1 DEF Calm
<1>4. Sound(c)
  BY <1>1, LeftAlone
<1>5. \A q \in Cases \ {c} : Sound(q)
  BY <1>1, LeftAlone DEF State
<1>6. QED
  BY <1>2, <1>3, <1>4, <1>5, CalmStep

------------------------------------------------------------------------------
(* Steps of many cases.                                                     *)

LEMMA CalmMany ==
    ASSUME IInv, CaseType', HandoffType', OwnerType', DispatchType', WorldType', sent' = sent,
           DispatchKept, \A c \in Cases : case'[c].attempts = case[c].attempts,
           \A c \in Cases : Sound(c)
    PROVE  IInv'
<1>1. TypeOK'
  BY TypeParts DEF IInv, SentType
<1>2. Calm
  BY DEF Calm
<1>3. QED
  BY <1>1, <1>2, CalmStep

LEMMA PausedCases ==
    ASSUME CaseType, NEW C, NEW s \in States,
           case' = [c \in Cases |-> IF c \in C THEN Paused(case[c], s) ELSE case[c]]
    PROVE  /\ CaseType'
           /\ \A c \in Cases : /\ case'[c].attempts = case[c].attempts
                               /\ c \notin C => case'[c] = case[c]
                               /\ c \in C => State(c)' = s
<1>1. \A c \in Cases : /\ Paused(case[c], s) \in CaseRows /\ Paused(case[c], s).state = s
                       /\ Paused(case[c], s).attempts = case[c].attempts
  BY PausedRow DEF CaseType
<1>2. QED
  BY <1>1 DEF CaseType, State

LEMMA EnsuredHandoffs ==
    ASSUME HandoffType, NEW C
    PROVE  /\ HandoffEnsured(C) \in [Cases -> {"none", "open", "owned", "returned", "closed"}]
           /\ \A c \in Cases : /\ c \notin C => HandoffEnsured(C)[c] = handoff[c]
                               /\ c \in C => HandoffEnsured(C)[c] \in {"open", "owned"}
                               /\ handoff[c] = "owned" => HandoffEnsured(C)[c] = "owned"
BY DEF HandoffEnsured, HandoffType

LEMMA EnrolledCase == \A C : C \subseteq Enrolled => \A c \in C : c \in Cases /\ State(c) # "none"
BY DEF Enrolled, State

\* The cases of C are paused before a person.
LEMMA ReviewStep ==
    ASSUME IInv, NEW C, C \subseteq Enrolled, PauseForReview(C, "handoff"),
           owner' = owner, sent' = sent, WorldType'
    PROVE  IInv'
<1>1. CaseType /\ HandoffType /\ OwnerType /\ DispatchType
  BY TypeParts DEF IInv
<1>2. /\ CaseType'
      /\ \A c \in Cases : /\ case'[c].attempts = case[c].attempts
                          /\ c \notin C => case'[c] = case[c]
                          /\ c \in C => State(c)' = "handoff"
  BY <1>1, PausedCases DEF PauseForReview, States
<1>3. /\ HandoffType'
      /\ \A c \in Cases : /\ c \notin C => handoff'[c] = handoff[c]
                          /\ c \in C => handoff'[c] \in {"open", "owned"}
  BY <1>1, EnsuredHandoffs DEF PauseForReview, HandoffType
<1>4. DispatchType' /\ DispatchKept
  BY <1>1, CancelKept DEF PauseForReview
<1>5. ASSUME NEW c \in Cases
      PROVE  Sound(c)
  <2>1. CASE c \in C
    <3>1. State(c)' = "handoff" /\ handoff'[c] \in {"open", "owned"}
      BY <1>2, <1>3, <2>1
    <3>2. QED
      BY <3>1 DEF Sound, Enrolment, Matches, State, Automated
  <2>2. CASE c \notin C
    BY <1>2, <1>3, <2>2, LeftAlone DEF State
  <2>3. QED
    BY <2>1, <2>2
<1>6. OwnerType'
  BY <1>1 DEF OwnerType
<1>7. QED
  BY <1>2, <1>3, <1>4, <1>5, <1>6, CalmMany

\* The cases of C are put out of reach, and nobody is asked.
LEMMA PauseStep ==
    ASSUME IInv, NEW C, C \subseteq Enrolled, NEW s \in {"opted_out", "ineligible", "exhausted"}, Pause(C, s),
           owner' = owner, sent' = sent, WorldType'
    PROVE  IInv'
<1>1. CaseType /\ HandoffType /\ OwnerType /\ DispatchType
  BY TypeParts DEF IInv
<1>2. /\ CaseType'
      /\ \A c \in Cases : /\ case'[c].attempts = case[c].attempts
                          /\ c \notin C => case'[c] = case[c]
                          /\ c \in C => State(c)' = s
  <2>1. s \in States
    BY DEF States
  <2>2. QED
    BY <1>1, <2>1, PausedCases DEF Pause
<1>3. HandoffType' /\ handoff' = handoff
  BY <1>1 DEF Pause, HandoffType
<1>4. DispatchType' /\ DispatchKept
  BY <1>1, CancelKept DEF Pause
<1>5. ASSUME NEW c \in Cases
      PROVE  Sound(c)
  <2>1. CASE c \in C
    <3>1. State(c)' = s
      BY <1>2, <2>1
    <3>2. QED
      BY <3>1 DEF Sound, Enrolment, Matches, State, Automated
  <2>2. CASE c \notin C
    BY <1>2, <1>3, <2>2, LeftAlone DEF State
  <2>3. QED
    BY <2>1, <2>2
<1>6. OwnerType'
  BY <1>1 DEF OwnerType
<1>7. QED
  BY <1>2, <1>3, <1>4, <1>5, <1>6, CalmMany

------------------------------------------------------------------------------
(* Enrollment, the scan and the run.                                        *)

LEMMA InitIInv == Init => IInv
<1> SUFFICES ASSUME Init PROVE IInv
  OBVIOUS
<1>1. TypeOK
  <2>1. CaseType /\ HandoffType /\ OwnerType
    BY NoRunType DEF Init, CaseType, HandoffType, OwnerType
  <2>2. DispatchType /\ SentType
    BY DEF Init, DispatchType, SentType
  <2>3. 0 \in 0..MaxActs
    BY ConstantsAssumption
  <2>4. WorldType
    BY <2>3 DEF Init, WorldType
  <2>5. QED
    BY <2>1, <2>2, <2>4, TypeParts
<1>2. \A c \in Cases : State(c) = "none" /\ handoff[c] = "none" /\ case[c].run.status = "none" /\ case[c].attempts = 0
  BY DEF Init, State, NoCase, NoRun
<1>3. CasesInv
  BY <1>2 DEF CasesInv, Enrolment, Matches, Automated
<1>4. DOMAIN dispatch = {} /\ sent = [d \in Dispatches |-> {}]
  BY DEF Init
<1>5. AttemptsInv
  <2>1. \A c \in Cases : Counted(c) = {}
    BY <1>4 DEF Counted
  <2>3. 0 <= MaximumAttempts
    BY ConstantsAssumption
  <2>2. QED
    BY <1>2, <1>4, <2>1, <2>3, FS_EmptySet DEF AttemptsInv
<1>6. QED
  BY <1>1, <1>3, <1>4, <1>5
  DEF IInv, DispatchInv, CasesEnrolled, OneUnresolvedPerContact, UnknownFreezes, EvidenceInv

\* The state of the surroundings does not enter the invariant but by its type.
LEMMA WorldStep ==
    ASSUME IInv, UNCHANGED <<rowVars, sent>>, WorldType'
    PROVE  IInv'
<1>1. CaseType /\ HandoffType /\ OwnerType /\ DispatchType
  BY TypeParts DEF IInv
<1>2. case' = case /\ handoff' = handoff /\ owner' = owner /\ dispatch' = dispatch /\ sent' = sent
  BY DEF rowVars
<1>3. CaseType' /\ HandoffType' /\ OwnerType' /\ DispatchType' /\ DispatchKept
  BY <1>1, <1>2, SameKept DEF CaseType, HandoffType, OwnerType
<1>4. \A c \in Cases : Sound(c)
  BY <1>2, LeftAlone DEF State
<1>5. QED
  BY <1>2, <1>3, <1>4, CalmMany

LEMMA Parts ==
    ASSUME IInv, UNCHANGED <<worldVars, acts>>
    PROVE  CaseType /\ HandoffType /\ OwnerType /\ DispatchType /\ WorldType'
BY TypeParts, WorldKept DEF IInv

LEMMA EnrollStep == IInv /\ (\E c \in Cases : \E b \in Messages \cup {0} : Enroll(c, b)) => IInv'
<1> SUFFICES ASSUME IInv, NEW c \in Cases, NEW b \in Messages \cup {0}, Enroll(c, b)
             PROVE  IInv'
  OBVIOUS
<1> DEFINE row == [case[c] EXCEPT !.state = "monitoring", !.due = "later", !.baseline = b]
<1>1. CaseType /\ DispatchType /\ WorldType'
  BY Parts DEF Enroll
<1>2. b \in Nat
  BY MessagesAreNumbers
<1>3. row \in CaseRows /\ row.attempts = case[c].attempts /\ row.state = "monitoring"
  BY <1>1, <1>2 DEF CaseType, CaseRows, States
<1>4. case' = [case EXCEPT ![c] = row]
  BY DEF Enroll
<1>5. DispatchType' /\ DispatchKept /\ handoff' = handoff /\ owner' = owner /\ sent' = sent
  BY <1>1, SameKept DEF Enroll
<1> HIDE DEF row
<1>6. Sound(c)
  <2>1. State(c)' = "monitoring" /\ handoff'[c] = "none"
    BY <1>1, <1>3, <1>4, <1>5 DEF CaseType, State, Enroll, IInv, CasesInv, Enrolment
  <2>2. UnresolvedOf(c) = {}
    BY DEF Enroll, UnresolvedOf, IInv, DispatchInv, CasesEnrolled, State
  <2>3. QED
    BY <2>1, <2>2 DEF Sound, Enrolment, Matches, Automated, State
<1>7. QED
  BY <1>1, <1>3, <1>4, <1>5, <1>6, OneCase

\* A step of a run that shows only in the case's row.
LEMMA RowStep ==
    ASSUME IInv, NEW c \in Cases, NEW row \in CaseRows, case' = [case EXCEPT ![c] = row],
           row.attempts = case[c].attempts, row.state = State(c), State(c) # "none",
           UNCHANGED <<handoff, owner, dispatch, sent, worldVars, acts>>
    PROVE  IInv'
<1>1. DispatchType /\ WorldType'
  BY Parts
<1>2. DispatchType' /\ DispatchKept /\ handoff' = handoff /\ owner' = owner /\ sent' = sent
  BY <1>1, SameKept
<1>3. QED
  BY <1>1, <1>2, OneCase

LEMMA DueArrivesStep == IInv /\ (\E c \in Cases : DueArrives(c)) => IInv'
<1> SUFFICES ASSUME IInv, NEW c \in Cases, DueArrives(c) PROVE IInv'
  OBVIOUS
<1> DEFINE row == [case[c] EXCEPT !.due = "now"]
<1>1. CaseType /\ DispatchType /\ WorldType'
  BY Parts DEF DueArrives
<1>2. row \in CaseRows /\ row.attempts = case[c].attempts /\ row.state = State(c) /\ row.run = case[c].run
  BY <1>1 DEF CaseType, CaseRows, State
<1>3. case' = [case EXCEPT ![c] = row]
  BY DEF DueArrives
<1>4. DispatchType' /\ DispatchKept /\ handoff' = handoff /\ owner' = owner /\ sent' = sent
  BY <1>1, SameKept DEF DueArrives
<1> HIDE DEF row
<1>5. State(c) # "none" \/ RowRun(row)
  BY <1>2 DEF IInv, CasesInv, Enrolment, RowRun
<1>6. QED
  BY <1>1, <1>2, <1>3, <1>4, <1>5, OneCase

LEMMA RunRowStep ==
    ASSUME IInv, NEW c \in Cases,
           RunStops(c) \/ RunSkips(c) \/ RunCompletes(c) \/ DecideToSend(c) \/ ProposeMessage(c)
    PROVE  IInv'
<1> DEFINE R1(s) == [case[c] EXCEPT !.run.status = s]
           R2(x) == [case[c] EXCEPT !.run.decision = x]
<1>1. case[c] \in CaseRows
  BY TypeParts DEF IInv, CaseType
<1>2. State(c) # "none"
  <2>1. case[c].run.status # "none"
    BY DEF RunStops, RunSkips, RunCompletes, DecideToSend, ProposeMessage, Undecided, Active
  <2>2. QED
    BY <2>1, ReachedEnrolment
<1>3. UNCHANGED <<handoff, owner, dispatch, sent, worldVars, acts>>
  BY DEF RunStops, RunSkips, RunCompletes, DecideToSend, ProposeMessage
<1>4. \/ case' = [case EXCEPT ![c] = R1("stopped")] \/ case' = [case EXCEPT ![c] = R1("skipped")]
      \/ case' = [case EXCEPT ![c] = R1("completed")] \/ case' = [case EXCEPT ![c] = R1("waiting_approval")]
      \/ case' = [case EXCEPT ![c] = R2("send")]
  BY DEF RunStops, RunSkips, RunCompletes, DecideToSend, ProposeMessage
<1>5. \A s \in {"stopped", "skipped", "completed", "waiting_approval"} :
         R1(s) \in CaseRows /\ R1(s).attempts = case[c].attempts /\ R1(s).state = State(c)
  <2>1. R1("stopped") \in CaseRows /\ R1("stopped").attempts = case[c].attempts /\ R1("stopped").state = State(c)
    BY ZenonT(30), <1>1, RunRow DEF State
  <2>2. R1("skipped") \in CaseRows /\ R1("skipped").attempts = case[c].attempts /\ R1("skipped").state = State(c)
    BY ZenonT(30), <1>1, RunRow DEF State
  <2>3. R1("completed") \in CaseRows /\ R1("completed").attempts = case[c].attempts /\ R1("completed").state = State(c)
    BY ZenonT(30), <1>1, RunRow DEF State
  <2>4. R1("waiting_approval") \in CaseRows /\ R1("waiting_approval").attempts = case[c].attempts /\ R1("waiting_approval").state = State(c)
    BY ZenonT(30), <1>1, RunRow DEF State
  <2> HIDE DEF R1
  <2>5. QED
    BY <2>1, <2>2, <2>3, <2>4
<1>6. R2("send") \in CaseRows /\ R2("send").attempts = case[c].attempts /\ R2("send").state = State(c)
  BY ZenonT(30), <1>1, RunRow DEF State
<1> HIDE DEF R1, R2
<1>7. \A row \in CaseRows : (case' = [case EXCEPT ![c] = row] /\ row.attempts = case[c].attempts
                              /\ row.state = State(c)) => IInv'
  BY <1>2, <1>3, RowStep
<1>8. QED
  BY <1>4, <1>5, <1>6, <1>7

LEMMA ScanCaseStep ==
    ASSUME IInv, NEW c \in Cases, ScanHandsOff(c) \/ ScanEnds(c) \/ ScanStarts(c)
    PROVE  IInv'
<1>1. State(c) \in Automated
  BY DEF ScanHandsOff, ScanEnds, ScanStarts, Considered, State, Automated
<1>2. {c} \subseteq Enrolled
  BY <1>1 DEF Enrolled, State, Automated
<1>3. UNCHANGED <<owner, sent, worldVars, acts>> /\ owner' = owner /\ sent' = sent
  BY DEF ScanHandsOff, ScanEnds, ScanStarts
<1>4. CaseType /\ DispatchType /\ WorldType'
  BY <1>3, Parts
<1>5. CASE ScanHandsOff(c)
  <2>1. PauseForReview({c}, "handoff")
    BY <1>5 DEF ScanHandsOff
  <2>2. QED
    BY <1>2, <1>3, <1>4, <2>1, ReviewStep
<1>6. CASE ScanEnds(c)
  <2>1. Pause({c}, "opted_out") \/ Pause({c}, "ineligible") \/ Pause({c}, "exhausted")
    BY <1>6 DEF ScanEnds
  <2>2. \A s \in {"opted_out", "ineligible", "exhausted"} : Pause({c}, s) => IInv'
    BY <1>2, <1>3, <1>4, PauseStep
  <2>3. QED
    BY <2>1, <2>2
<1>7. CASE ScanStarts(c)
  <2> DEFINE row == Started(case[c], FALSE)
  <2>1. row \in CaseRows /\ row.state = "working" /\ row.attempts = case[c].attempts
    BY <1>4, StartedRow DEF CaseType, WorldType, IInv, TypeOK
  <2>2. /\ case' = [case EXCEPT ![c] = row] /\ handoff' = handoff
        /\ DispatchType' /\ DispatchKept
    BY <1>4, <1>7, SameKept DEF ScanStarts
  <2> HIDE DEF row
  <2>3. Sound(c)
    <3>1. State(c)' = "working"
      BY <1>4, <2>1, <2>2 DEF CaseType, State
    <3>2. handoff'[c] \in {"none", "returned"}
      BY <1>1, <2>2 DEF IInv, CasesInv, Matches
    <3>3. QED
      BY <1>1, <3>1, <3>2 DEF Sound, Enrolment, Matches, State, Automated
  <2>4. QED
    BY <1>3, <1>4, <2>1, <2>2, <2>3, OneCase
<1>8. QED
  BY <1>5, <1>6, <1>7

------------------------------------------------------------------------------
(* Members, events and decisions that move handoffs.                        *)

\* One case gets a row and its handoff a status; dispatches may be cancelled.
LEMMA HandoffStep ==
    ASSUME IInv, NEW c \in Cases, NEW row \in CaseRows, row.attempts = case[c].attempts,
           NEW status \in {"open", "owned", "returned", "closed"},
           case' = [case EXCEPT ![c] = row], handoff'[c] = status,
           HandoffType', \A q \in Cases \ {c} : handoff'[q] = handoff[q],
           OwnerType', DispatchType', DispatchKept, WorldType', sent' = sent,
           \/ row.state = "handoff" /\ status \in {"open", "owned"}
           \/ row.state \in {"opted_out", "declined"}
           \/ row.state = "monitoring" /\ status = "returned" /\ UnresolvedOf(c) = {}
           \/ row.state = "closed" /\ status = "closed"
    PROVE  IInv'
<1>1. CaseType' /\ State(c)' = row.state /\ case'[c] = row /\ \A q \in Cases \ {c} : case'[q] = case[q]
  BY DEF IInv, TypeOK, CaseType, State
<1>2. Sound(c)
  BY <1>1 DEF Sound, Enrolment, Matches, State, Automated
<1>3. \A q \in Cases \ {c} : Sound(q)
  BY <1>1, LeftAlone DEF State
<1>4. QED
  BY <1>1, <1>2, <1>3, CalmMany

LEMMA DecideToStopStep == IInv /\ (\E c \in Cases : DecideToStop(c)) => IInv'
<1> SUFFICES ASSUME IInv, NEW c \in Cases, DecideToStop(c) PROVE IInv'
  OBVIOUS
<1> DEFINE run == [case[c].run EXCEPT !.decision = "stop"]
           row == [case[c] EXCEPT !.run = run, !.state = "handoff", !.due = "none"]
<1>1. UNCHANGED <<worldVars, acts>>
  BY DEF DecideToStop
<1>2. CaseType /\ HandoffType /\ OwnerType /\ DispatchType /\ WorldType'
  BY <1>1, Parts
<1>3. row \in CaseRows /\ row.attempts = case[c].attempts /\ row.state = "handoff"
  <2>1. run \in Runs
    BY <1>2 DEF CaseType, CaseRows, Runs
  <2> HIDE DEF run
  <2>2. QED
    BY <1>2, <2>1 DEF CaseType, CaseRows, States
<1>4. case' = [case EXCEPT ![c] = row]
  BY <1>2 DEF DecideToStop, CaseType, CaseRows
<1> HIDE DEF row
<1>5. /\ HandoffType' /\ handoff'[c] \in {"open", "owned"}
      /\ \A q \in Cases \ {c} : handoff'[q] = handoff[q]
  BY <1>2, EnsuredHandoffs DEF DecideToStop, HandoffType
<1>6. OwnerType' /\ DispatchType' /\ DispatchKept /\ sent' = sent
  BY <1>2, SameKept DEF DecideToStop, OwnerType
<1>7. handoff'[c] = "open" \/ handoff'[c] = "owned"
  BY <1>5
<1>8. QED
  BY <1>2, <1>3, <1>4, <1>5, <1>6, <1>7, HandoffStep

LEMMA ClassifyStep ==
    ASSUME IInv, NEW c \in Cases, NEW s \in {"opted_out", "declined", "handoff"}, Classify(c, s)
    PROVE  IInv'
<1> DEFINE run == [case[c].run EXCEPT !.decision = "stop"]
           row == [case[c] EXCEPT !.run = run, !.state = s, !.due = "none"]
<1>1. CaseType /\ HandoffType /\ OwnerType /\ DispatchType /\ WorldType
  BY TypeParts DEF IInv
<1>2. WorldType'
  BY <1>1 DEF WorldType, Classify
<1>3. row \in CaseRows /\ row.attempts = case[c].attempts /\ row.state = s
  <2>1. run \in Runs
    BY <1>1 DEF CaseType, CaseRows, Runs
  <2> HIDE DEF run
  <2>2. QED
    BY <1>1, <2>1 DEF CaseType, CaseRows, States
<1>4. case' = [case EXCEPT ![c] = row]
  BY <1>1 DEF Classify, CaseType, CaseRows
<1> HIDE DEF row
<1>5. /\ HandoffType' /\ handoff'[c] \in {"open", "owned"}
      /\ \A q \in Cases \ {c} : handoff'[q] = handoff[q]
  BY <1>1, EnsuredHandoffs DEF Classify, HandoffType
<1>6. OwnerType' /\ DispatchType' /\ DispatchKept /\ sent' = sent
  BY <1>1, SameKept DEF Classify, OwnerType
<1>7. handoff'[c] = "open" \/ handoff'[c] = "owned"
  BY <1>5
<1>8. QED
  BY <1>2, <1>3, <1>4, <1>5, <1>6, <1>7, HandoffStep

LEMMA ActCounted == Act /\ acts \in 0..MaxActs => acts' \in 0..MaxActs
BY ConstantsAssumption DEF Act

LEMMA ReturnStep == IInv /\ (\E c \in Cases : ReturnToAI(c)) => IInv'
<1> SUFFICES ASSUME IInv, NEW c \in Cases, ReturnToAI(c) PROVE IInv'
  OBVIOUS
<1> DEFINE row == [case[c] EXCEPT !.state = "monitoring", !.revision = @ + 1, !.pending = FALSE, !.due = "later"]
<1>1. CaseType /\ HandoffType /\ OwnerType /\ DispatchType /\ WorldType
  BY TypeParts DEF IInv
<1>2. WorldType'
  BY <1>1, ActCounted DEF WorldType, ReturnToAI, worldVars
<1>3. row \in CaseRows /\ row.attempts = case[c].attempts /\ row.state = "monitoring"
  <2>1. case[c].revision + 1 \in Nat
    BY <1>1 DEF CaseType, CaseRows
  <2>2. QED
    BY ZenonT(30), <1>1, <2>1 DEF CaseType, CaseRows, States
<1>4. case' = [case EXCEPT ![c] = row]
  BY <1>1 DEF ReturnToAI, CaseType, CaseRows
<1> HIDE DEF row
<1>5. /\ HandoffType' /\ handoff'[c] = "returned"
      /\ \A q \in Cases \ {c} : handoff'[q] = handoff[q]
  BY <1>1 DEF ReturnToAI, HandoffType
<1>6. OwnerType' /\ DispatchType' /\ DispatchKept /\ sent' = sent
  BY <1>1, SameKept DEF ReturnToAI, OwnerType
<1>7. UnresolvedOf(c) = {}
  BY DEF ReturnToAI
<1>8. QED
  BY <1>2, <1>3, <1>4, <1>5, <1>6, <1>7, HandoffStep

LEMMA CloseStep == IInv /\ (\E c \in Cases : Close(c)) => IInv'
<1> SUFFICES ASSUME IInv, NEW c \in Cases, Close(c) PROVE IInv'
  OBVIOUS
<1> DEFINE row == Paused(case[c], "closed")
<1>1. CaseType /\ HandoffType /\ OwnerType /\ DispatchType /\ WorldType
  BY TypeParts DEF IInv
<1>2. WorldType'
  BY <1>1, ActCounted DEF WorldType, Close, worldVars
<1>3. row \in CaseRows /\ row.attempts = case[c].attempts /\ row.state = "closed"
  BY <1>1, PausedRow DEF CaseType, States
<1>4. case' = [case EXCEPT ![c] = row]
  BY DEF Close
<1> HIDE DEF row
<1>5. /\ HandoffType' /\ handoff'[c] = "closed"
      /\ \A q \in Cases \ {c} : handoff'[q] = handoff[q]
  BY <1>1 DEF Close, HandoffType
<1>6. DispatchType' /\ DispatchKept
  BY <1>1, CancelKept DEF Close
<1>7. OwnerType' /\ sent' = sent
  BY <1>1 DEF Close, OwnerType
<1>8. QED
  BY <1>2, <1>3, <1>4, <1>5, <1>6, <1>7, HandoffStep

LEMMA TakeOverStep ==
    ASSUME IInv, NEW c \in Cases, NEW m \in Members, TakeOver(c, m)
    PROVE  IInv'
<1> DEFINE others == LiveCases \ {c}
<1>1. CaseType /\ HandoffType /\ OwnerType /\ DispatchType /\ WorldType
  BY TypeParts DEF IInv
<1>2. WorldType'
  <2>1. acts' \in 0..MaxActs
    BY <1>1, ActCounted DEF WorldType, TakeOver
  <2>2. quiet' \in [Cases -> BOOLEAN]
    BY <1>1 DEF WorldType, TakeOver
  <2>3. QED
    BY <1>1, <2>1, <2>2 DEF WorldType, TakeOver
<1>3. \A q \in Cases : \A s \in {"human_owned", "handoff"} :
         /\ Paused(case[q], s) \in CaseRows /\ Paused(case[q], s).state = s
         /\ Paused(case[q], s).attempts = case[q].attempts
  BY <1>1, PausedRow DEF CaseType, States
<1>4. case' = [x \in Cases |-> IF x = c THEN Paused(case[x], "human_owned")
                               ELSE IF x \in others THEN Paused(case[x], "handoff")
                               ELSE case[x]]
  BY DEF TakeOver
<1>5. /\ CaseType'
      /\ State(c)' = "human_owned"
      /\ \A q \in Cases : /\ case'[q].attempts = case[q].attempts
                          /\ q \in others => State(q)' = "handoff"
                          /\ q \notin others \cup {c} => case'[q] = case[q]
  BY <1>1, <1>3, <1>4 DEF CaseType, State
<1>6. /\ HandoffType' /\ handoff'[c] = "owned"
      /\ \A q \in Cases : /\ q \in others => handoff'[q] \in {"open", "owned"}
                          /\ q \notin others \cup {c} => handoff'[q] = handoff[q]
  <2> DEFINE h == HandoffEnsured(others)
  <2>1. /\ h \in [Cases -> {"none", "open", "owned", "returned", "closed"}]
        /\ \A q \in Cases : /\ q \notin others => h[q] = handoff[q]
                            /\ q \in others => h[q] \in {"open", "owned"}
    BY <1>1, EnsuredHandoffs
  <2>2. handoff' = [h EXCEPT ![c] = "owned"]
    BY DEF TakeOver
  <2> HIDE DEF h
  <2>3. QED
    BY <2>1, <2>2 DEF HandoffType
<1>7. DispatchType' /\ DispatchKept
  BY <1>1, CancelKept DEF TakeOver
<1>8. OwnerType' /\ sent' = sent
  BY <1>1 DEF TakeOver, OwnerType
<1> HIDE DEF others
<1>9. ASSUME NEW q \in Cases
      PROVE  Sound(q)
  <2>1. CASE q = c
    BY <1>5, <1>6, <2>1 DEF Sound, Enrolment, Matches, State, Automated
  <2>2. CASE q \in others
    <3>1. State(q)' = "handoff" /\ handoff'[q] \in {"open", "owned"}
      BY <1>5, <1>6, <2>2
    <3>2. QED
      BY <3>1 DEF Sound, Enrolment, Matches, State, Automated
  <2>3. CASE q \notin others \cup {c}
    BY <1>5, <1>6, <2>3, LeftAlone DEF State
  <2>4. QED
    BY <2>1, <2>2, <2>3
<1>10. QED
  BY <1>2, <1>5, <1>6, <1>7, <1>8, <1>9, CalmMany

LEMMA HandleMessageStep ==
    ASSUME IInv, NEW m \in Messages, NEW admitted \in BOOLEAN, HandleMessage(m, admitted)
    PROVE  IInv'
<1> DEFINE told == {c \in Enrolled : case[c].latest # m}
<1>1. CaseType /\ HandoffType /\ OwnerType /\ DispatchType /\ WorldType
  BY TypeParts DEF IInv
<1>2. WorldType'
  BY <1>1 DEF WorldType, HandleMessage
<1>3. \A c \in Cases :
         /\ AfterReply(c, m, admitted) \in CaseRows
         /\ AfterReply(c, m, admitted).attempts = case[c].attempts
         /\ \/ AfterReply(c, m, admitted).state
                  \in {"opted_out", "ineligible", "handoff", "awaiting_classification"}
            \/ AfterReply(c, m, admitted).state = "human_owned" /\ State(c) = "human_owned"
  BY <1>1, AfterReplyRow DEF CaseType, WorldType
<1>4. case' = [c \in Cases |-> IF c \in told THEN AfterReply(c, m, admitted) ELSE case[c]]
  BY DEF HandleMessage
<1>5. /\ CaseType'
      /\ \A c \in Cases :
            /\ case'[c].attempts = case[c].attempts
            /\ c \in told =>
                  \/ State(c)' \in {"opted_out", "ineligible", "handoff", "awaiting_classification"}
                  \/ State(c)' = "human_owned" /\ State(c) = "human_owned"
            /\ c \notin told => case'[c] = case[c]
  BY <1>1, <1>3, <1>4 DEF CaseType, State
<1>6. /\ HandoffType'
      /\ \A c \in Cases : /\ c \in told => handoff'[c] \in {"open", "owned"}
                          /\ handoff[c] = "owned" => handoff'[c] = "owned"
                          /\ c \notin told => handoff'[c] = handoff[c]
  BY <1>1, EnsuredHandoffs DEF HandleMessage, HandoffType
<1>7. DispatchType' /\ DispatchKept
  BY <1>1, CancelKept DEF HandleMessage
<1>8. OwnerType' /\ sent' = sent
  BY <1>1 DEF HandleMessage, OwnerType
<1> HIDE DEF told
<1>9. ASSUME NEW c \in Cases
      PROVE  Sound(c)
  <2>1. CASE c \in told
    <3>1. /\ \/ State(c)' \in {"opted_out", "ineligible", "handoff", "awaiting_classification"}
             \/ State(c)' = "human_owned" /\ State(c) = "human_owned"
          /\ handoff'[c] \in {"open", "owned"}
          /\ handoff[c] = "owned" => handoff'[c] = "owned"
      BY <1>5, <1>6, <2>1
    <3>2. State(c) = "human_owned" => handoff[c] = "owned"
      BY DEF IInv, CasesInv, Matches
    <3>3. QED
      BY <3>1, <3>2 DEF Sound, Enrolment, Matches, State, Automated
  <2>2. CASE c \notin told
    BY <1>5, <1>6, <2>2, LeftAlone DEF State
  <2>3. QED
    BY <2>1, <2>2
<1>10. QED
  BY <1>2, <1>5, <1>6, <1>7, <1>8, <1>9, CalmMany

LEMMA LiveAreEnrolled == LiveCases \subseteq Enrolled
BY DEF LiveCases, Enrolled, Live

LEMMA HandleReviewStep == IInv /\ (HandleOutbound \/ Configure) => IInv'
<1> SUFFICES ASSUME IInv, HandleOutbound \/ Configure PROVE IInv'
  OBVIOUS
<1>1. WorldType
  BY TypeParts DEF IInv
<1>2. WorldType'
  <2>1. CASE HandleOutbound
    BY <1>1, <2>1 DEF WorldType, HandleOutbound
  <2>2. CASE Configure
    <3>1. acts' \in 0..MaxActs
      BY <1>1, <2>2, ActCounted DEF WorldType, Configure
    <3>2. version' \in Nat
      BY <1>1, <2>2 DEF WorldType, Configure
    <3>3. QED
      BY <1>1, <2>2, <3>1, <3>2 DEF WorldType, Configure
  <2>3. QED
    BY <2>1, <2>2
<1>3. PauseForReview(LiveCases, "handoff") /\ owner' = owner /\ sent' = sent
  BY DEF HandleOutbound, Configure
<1>4. QED
  BY <1>2, <1>3, LiveAreEnrolled, ReviewStep

LEMMA HandlePauseStep ==
    ASSUME IInv, HandleContact \/ \E c \in Cases, s \in {"open", "booked", "closed"} : HandleOpportunity(c, s)
    PROVE  IInv'
<1>1. WorldType
  BY TypeParts DEF IInv
<1>2. CASE HandleContact
  <2> DEFINE C == IF doNotContact THEN Enrolled ELSE {}
  <2>1. WorldType' /\ C \subseteq Enrolled /\ Pause(C, "opted_out") /\ owner' = owner /\ sent' = sent
    BY <1>1, <1>2 DEF WorldType, HandleContact
  <2> HIDE DEF C
  <2>2. QED
    BY <2>1, PauseStep
<1>3. ASSUME NEW c \in Cases, NEW s \in {"open", "booked", "closed"}, HandleOpportunity(c, s)
      PROVE  IInv'
  <2> DEFINE C == IF c \in Enrolled /\ (Base(c) # "ok" \/ s = "booked") THEN {c} ELSE {}
  <2>1. WorldType' /\ C \subseteq Enrolled /\ Pause(C, "ineligible") /\ owner' = owner /\ sent' = sent
    BY <1>1, <1>3 DEF WorldType, HandleOpportunity
  <2> HIDE DEF C
  <2>2. QED
    BY <2>1, PauseStep
<1>4. QED
  BY <1>2, <1>3

\* What the surroundings do is in no row.
LEMMA SurroundingsStep ==
    ASSUME IInv,
           \/ \E m \in Messages, kind \in Kinds : MessageArrives(m, kind)
           \/ EmployeeWrites \/ MemberOptsOut \/ ConditionsChange
           \/ \E value \in BOOLEAN : Enable(value)
           \/ \E c \in Cases : EmployeeEdits(c) \/ QuietEnds(c)
           \/ \E c \in Cases, s \in {"open", "booked", "closed"} : OpportunityChanges(c, s)
    PROVE  IInv'
<1>1. WorldType /\ acts \in 0..MaxActs
  BY TypeParts DEF IInv, WorldType
<1>2. WorldType'
  <2>1. ASSUME NEW m \in Messages, NEW kind \in Kinds, MessageArrives(m, kind)
        PROVE  WorldType'
    <3>1. Inbound(m) \in Events
      BY DEF Inbound, Events
    <3>2. inbox' \in [Messages -> Kinds \cup {"none"}] /\ events' \subseteq Events
      BY <1>1, <2>1, <3>1 DEF WorldType, MessageArrives
    <3>3. doNotContact' \in BOOLEAN
      BY <1>1, <2>1, ConstantsAssumption DEF WorldType, MessageArrives
    <3>4. QED
      BY <1>1, <2>1, <3>2, <3>3 DEF WorldType, MessageArrives
  <2>2. Outbound \in Events /\ ContactUpdated \in Events
    BY DEF Outbound, ContactUpdated, Events
  <2>3. EmployeeWrites => WorldType'
    BY <1>1, <2>2, ActCounted DEF WorldType, EmployeeWrites
  <2>4. MemberOptsOut => WorldType'
    BY <1>1, <2>2, ActCounted DEF WorldType, MemberOptsOut
  <2>5. ConditionsChange => WorldType'
    BY <1>1, ActCounted DEF WorldType, ConditionsChange
  <2>6. ASSUME NEW value \in BOOLEAN, Enable(value)
        PROVE  WorldType'
    BY <1>1, <2>6, ActCounted DEF WorldType, Enable
  <2>7. ASSUME NEW c \in Cases, EmployeeEdits(c) \/ QuietEnds(c)
        PROVE  WorldType'
    <3>1. quiet' \in [Cases -> BOOLEAN]
      BY <1>1, <2>7 DEF WorldType, EmployeeEdits, QuietEnds
    <3>2. acts' \in 0..MaxActs
      BY <1>1, <2>7, ActCounted DEF EmployeeEdits, QuietEnds
    <3>3. QED
      BY <1>1, <2>7, <3>1, <3>2 DEF WorldType, EmployeeEdits, QuietEnds
  <2>8. ASSUME NEW c \in Cases, NEW s \in {"open", "booked", "closed"}, OpportunityChanges(c, s)
        PROVE  WorldType'
    <3>1. Changed(c, s) \in Events
      BY DEF Changed, Events
    <3>2. opportunity' \in [Cases -> {"open", "booked", "closed"}] /\ events' \subseteq Events
      BY <1>1, <2>8, <3>1 DEF WorldType, OpportunityChanges
    <3>3. QED
      BY <1>1, <2>8, <3>2, ActCounted DEF WorldType, OpportunityChanges
  <2>9. QED
    BY <2>1, <2>3, <2>4, <2>5, <2>6, <2>7, <2>8
<1>3. UNCHANGED <<rowVars, sent>>
  BY DEF MessageArrives, EmployeeWrites, MemberOptsOut, ConditionsChange, Enable, EmployeeEdits,
         QuietEnds, OpportunityChanges
<1>4. QED
  BY <1>2, <1>3, WorldStep

------------------------------------------------------------------------------
(* A message is queued: nothing else to the contact is unresolved.          *)

LEMMA GuardOk ==
    ASSUME NEW c, NEW human, NEW reserved, NEW others, MessageGuard(c, human, reserved, others) = "ok"
    PROVE  /\ Base(c) = "ok"
           /\ ~human => Unseen(c) = {}
           /\ human => \A m \in Unseen(c) : inbox[m] # "stop"
           /\ InTheWay(c, others) = {}
BY DEF MessageGuard, PersonInCharge

LEMMA NewDispatchType ==
    ASSUME NEW c \in Cases, NEW actor \in Members \cup {Agent}, CaseType, version \in Nat
    PROVE  NewDispatch(c, actor) \in DispatchRows
<1>1. case[c].revision \in Nat
  BY DEF CaseType, CaseRows
<1>2. 0 \in 0..MaxTransports
  BY ConstantsAssumption
<1>3. QED
  BY <1>1, <1>2 DEF NewDispatch, DispatchRows, Unresolved

LEMMA QueueStep ==
    ASSUME IInv, NEW c \in Cases, NEW actor \in Members \cup {Agent}, NEW d \in Dispatches,
           Queue(d, NewDispatch(c, actor)), InTheWay(c, DOMAIN dispatch) = {}, State(c) # "none",
           CaseType', WorldType', handoff' = handoff, owner' = owner, sent' = sent,
           \A q \in Cases : /\ State(q)' = State(q) /\ case'[q].attempts = case[q].attempts
                            /\ State(q) # "none" \/ case'[q] = case[q]
    PROVE  IInv'
<1> DEFINE new == NewDispatch(c, actor)
           D == DOMAIN dispatch
<1>1. CaseType /\ HandoffType /\ OwnerType /\ DispatchType /\ SentType /\ version \in Nat
  BY TypeParts DEF IInv, WorldType
<1>2. new \in DispatchRows /\ new.status = "pending" /\ new.case = c /\ new.transports = 0 /\ new.actor = actor
  BY <1>1, NewDispatchType DEF NewDispatch
<1>3. d \in Dispatches \ D /\ dispatch' = [x \in D \cup {d} |-> IF x = d THEN new ELSE dispatch[x]]
  BY DEF Queue
<1> HIDE DEF new
<1>4. /\ DOMAIN dispatch' = D \cup {d} /\ d \notin D /\ dispatch'[d] = new
      /\ \A x \in D : dispatch'[x] = dispatch[x]
  BY <1>3
<1>5. TypeOK'
  <2>1. DispatchType'
    BY <1>1, <1>2, <1>4 DEF DispatchType
  <2>2. QED
    BY <1>1, <2>1, TypeParts DEF HandoffType, OwnerType, SentType
<1>6. CasesInv'
  <2>1. ASSUME NEW q \in Cases
        PROVE  Enrolment(q)' /\ Matches(q)'
    BY DEF IInv, CasesInv, Enrolment, Matches, State
  <2>2. QED
    BY <2>1 DEF CasesInv
<1>7. \A x \in D : dispatch[x].status \notin Unresolved
  BY DEF InTheWay
<1>8. OneUnresolvedPerContact'
  BY <1>4, <1>7 DEF OneUnresolvedPerContact
<1>9. CasesEnrolled'
  <2>1. \A x \in D : dispatch[x].case \in Cases
    BY <1>1 DEF DispatchType, DispatchRows
  <2>2. QED
    BY <1>2, <1>4, <2>1 DEF IInv, DispatchInv, CasesEnrolled
<1>10. UnknownFreezes'
  BY <1>2, <1>4, <1>7 DEF UnknownFreezes, Unresolved
<1>11. EvidenceInv'
  <2>1. sent'[d] = {}
    BY <1>4 DEF IInv, DispatchInv, EvidenceInv
  <2>2. Evidence(d)'
    BY <1>2, <1>4, <2>1 DEF Evidence
  <2>3. ASSUME NEW x \in D
        PROVE  Evidence(x)'
    BY <1>4 DEF IInv, DispatchInv, EvidenceInv, Evidence
  <2>4. \A x \in Dispatches \ DOMAIN dispatch' : sent'[x] = {}
    BY <1>4 DEF IInv, DispatchInv, EvidenceInv
  <2>5. QED
    BY <1>4, <2>2, <2>3, <2>4 DEF EvidenceInv
<1>12. AttemptsInv'
  <2>1. IsFiniteSet(D) /\ IsFiniteSet(D \cup {d})
    BY FS_AddElement DEF IInv, DispatchInv, AttemptsInv
  <2>2. \A q : Counted(q)' = Counted(q)
    BY <1>2, <1>4 DEF Counted, Counts, Human
  <2>3. QED
    BY <1>4, <2>1, <2>2 DEF IInv, DispatchInv, AttemptsInv
<1>13. QED
  BY <1>5, <1>6, <1>8, <1>9, <1>10, <1>11, <1>12 DEF IInv, DispatchInv

LEMMA ApproveStep ==
    ASSUME IInv, NEW c \in Cases, NEW d \in Dispatches, Approve(c, d)
    PROVE  IInv'
<1> DEFINE row == [case[c] EXCEPT !.run.status = "running", !.run.decision = "sent"]
<1>1. UNCHANGED <<worldVars, acts>> /\ handoff' = handoff /\ owner' = owner /\ sent' = sent
  BY DEF Approve
<1>2. CaseType /\ WorldType'
  BY <1>1, Parts
<1>3. case[c] \in CaseRows
  BY <1>2 DEF CaseType
<1>4. row \in CaseRows /\ row.state = case[c].state /\ row.attempts = case[c].attempts
  <2> DEFINE run == [case[c].run EXCEPT !.status = "running", !.decision = "sent"]
  <2>1. run \in Runs
    BY <1>3 DEF CaseRows, Runs, Active
  <2>2. row = [case[c] EXCEPT !.run = run]
    BY <1>3 DEF CaseRows
  <2> HIDE DEF run, row
  <2>3. QED
    BY <1>3, <2>1, <2>2 DEF CaseRows
<1>5. case' = [case EXCEPT ![c] = row]
  BY DEF Approve
<1> HIDE DEF row
<1>6. /\ CaseType'
      /\ \A q \in Cases : /\ State(q)' = State(q) /\ case'[q].attempts = case[q].attempts
                          /\ q = c \/ case'[q] = case[q]
  BY <1>2, <1>4, <1>5 DEF CaseType, State
<1>7. State(c) # "none"
  BY ReachedEnrolment DEF Approve
<1>8. InTheWay(c, DOMAIN dispatch) = {}
  BY GuardOk DEF Approve, FollowUpGuard
<1>9. Queue(d, NewDispatch(c, Agent))
  BY DEF Approve
<1>10. QED
  BY <1>1, <1>2, <1>6, <1>7, <1>8, <1>9, QueueStep

LEMMA RespondStep ==
    ASSUME IInv, NEW c \in Cases, NEW m \in Members, NEW d \in Dispatches, Respond(c, m, d)
    PROVE  IInv'
<1>1. CaseType /\ WorldType
  BY TypeParts DEF IInv
<1>2. WorldType'
  <2>1. quiet' \in [Cases -> BOOLEAN]
    BY <1>1 DEF WorldType, Respond
  <2>2. acts' \in 0..MaxActs
    BY <1>1, ActCounted DEF WorldType, Respond
  <2>3. QED
    BY <1>1, <2>1, <2>2 DEF WorldType, Respond
<1>3. case' = case /\ handoff' = handoff /\ owner' = owner /\ sent' = sent
  BY DEF Respond
<1>4. CaseType' /\ \A q \in Cases : /\ State(q)' = State(q) /\ case'[q] = case[q]
  BY <1>1, <1>3 DEF CaseType, State
<1>5. State(c) # "none"
  BY ReachedEnrolment DEF Respond
<1>6. InTheWay(c, DOMAIN dispatch) = {}
  BY GuardOk DEF Respond
<1>7. Queue(d, NewDispatch(c, m))
  BY DEF Respond
<1>8. QED
  BY <1>2, <1>3, <1>4, <1>5, <1>6, <1>7, QueueStep

------------------------------------------------------------------------------
(* Claims, receipts and expired claims.                                     *)

\* The dispatch that the step is about, and what it may become: the others are
\* at most cancelled, since none of them is on its way.
About(d) ==
    /\ DOMAIN dispatch' = DOMAIN dispatch
    /\ dispatch'[d].case = dispatch[d].case /\ dispatch'[d].actor = dispatch[d].actor
    /\ \A e \in DOMAIN dispatch \ {d} : Keeps(e) /\ sent'[e] = sent[e]
    /\ \A e \in Dispatches \ DOMAIN dispatch : sent'[e] = sent[e]
    /\ Evidence(d)'
    /\ dispatch'[d].status = "unknown" => State(dispatch[d].case)' \notin Automated

LEMMA AboutStep ==
    ASSUME IInv, TypeOK', NEW d \in DOMAIN dispatch, dispatch[d].status \in Unresolved, About(d),
           \A c \in Cases : Sound(c), AttemptsInv'
    PROVE  IInv'
<1>1. \A e \in DOMAIN dispatch \ {d} :
         /\ dispatch[e].status \notin Unresolved
         /\ dispatch'[e].status = dispatch[e].status /\ dispatch'[e].case = dispatch[e].case
         /\ dispatch'[e].transports = dispatch[e].transports
         /\ sent'[e] = sent[e]
  <2>1. \A e \in DOMAIN dispatch \ {d} : dispatch[e].status \notin Unresolved
    BY DEF IInv, DispatchInv, OneUnresolvedPerContact
  <2>2. QED
    BY <2>1 DEF About, Keeps, Unresolved
<1>2. DOMAIN dispatch' = DOMAIN dispatch /\ dispatch'[d].case = dispatch[d].case
  BY DEF About
<1>3. CasesInv'
  BY DEF CasesInv, Sound
<1>4. CasesEnrolled'
  <2>1. \A e \in DOMAIN dispatch : dispatch[e].case \in Cases
    BY DEF IInv, TypeOK, DispatchRows
  <2>2. \A e \in DOMAIN dispatch : State(dispatch[e].case) # "none"
    BY DEF IInv, DispatchInv, CasesEnrolled
  <2>3. \A c \in Cases : State(c) # "none" => case'[c].state # "none"
    BY DEF Sound, State
  <2>4. \A e \in DOMAIN dispatch : case'[dispatch[e].case].state # "none"
    BY <2>1, <2>2, <2>3
  <2>5. QED
    BY <1>1, <1>2, <2>4 DEF CasesEnrolled, State
<1>5. OneUnresolvedPerContact'
  BY <1>1, <1>2 DEF OneUnresolvedPerContact
<1>6. UnknownFreezes'
  <2>1. \A e \in DOMAIN dispatch \ {d} : dispatch'[e].status # "unknown"
    BY <1>1 DEF Unresolved
  <2>2. dispatch'[d].status = "unknown" => case'[dispatch'[d].case].state \notin Automated
    BY <1>2 DEF About, State
  <2>3. QED
    BY <1>2, <2>1, <2>2 DEF UnknownFreezes, Automated
<1>7. EvidenceInv'
  <2>1. \A e \in DOMAIN dispatch \ {d} : Evidence(e)'
    BY <1>1 DEF IInv, DispatchInv, EvidenceInv, Evidence
  <2>2. Evidence(d)'
    BY DEF About
  <2>3. \A e \in Dispatches \ DOMAIN dispatch : sent'[e] = {}
    BY DEF About, IInv, DispatchInv, EvidenceInv
  <2>4. QED
    BY <1>2, <2>1, <2>2, <2>3 DEF EvidenceInv
<1>8. QED
  BY <1>3, <1>4, <1>5, <1>6, <1>7 DEF IInv, DispatchInv

\* The attempts stay where no claim begins.
LEMMA AttemptsStay ==
    ASSUME IInv, NEW d \in DOMAIN dispatch, About(d), dispatch'[d].transports = dispatch[d].transports,
           \A c \in Cases : case'[c].attempts = case[c].attempts
    PROVE  AttemptsInv'
<1>1. \A e \in DOMAIN dispatch : /\ dispatch'[e].case = dispatch[e].case
                                 /\ dispatch'[e].actor = dispatch[e].actor
                                 /\ dispatch'[e].transports = dispatch[e].transports
  BY DEF About, Keeps
<1>2. DOMAIN dispatch' = DOMAIN dispatch
  BY DEF About
<1>3. \A c \in Cases : Counted(c)' = Counted(c)
  BY <1>1, <1>2, SameCounted
<1>4. QED
  BY <1>2, <1>3 DEF IInv, DispatchInv, AttemptsInv

\* Only the dispatch changes: what a step of the adapter does to one row.
LEMMA RowOnlyStep ==
    ASSUME IInv, NEW d \in DOMAIN dispatch, dispatch[d].status \in Unresolved,
           NEW row \in DispatchRows, dispatch' = [dispatch EXCEPT ![d] = row],
           row.case = dispatch[d].case, row.actor = dispatch[d].actor, row.transports = dispatch[d].transports,
           row.status = dispatch[d].status \/ (row.status \in {"pending", "cancelled"} /\ sent[d] = {}),
           UNCHANGED <<case, handoff, owner, sent, worldVars, acts>>
    PROVE  IInv'
<1>1. CaseType /\ HandoffType /\ OwnerType /\ DispatchType /\ SentType /\ WorldType'
  BY Parts, TypeParts DEF IInv
<1>2. /\ DOMAIN dispatch' = DOMAIN dispatch /\ dispatch'[d] = row
      /\ \A e \in DOMAIN dispatch \ {d} : dispatch'[e] = dispatch[e]
  OBVIOUS
<1>3. DispatchType'
  BY <1>1, <1>2 DEF DispatchType
<1>4. case' = case /\ handoff' = handoff /\ owner' = owner /\ sent' = sent
  OBVIOUS
<1>5. TypeOK'
  BY <1>1, <1>3, <1>4, TypeParts DEF CaseType, HandoffType, OwnerType, SentType
<1>6. Evidence(d)'
  BY <1>2, <1>4 DEF IInv, DispatchInv, EvidenceInv, Evidence
<1>7. dispatch'[d].status = "unknown" => State(dispatch[d].case)' \notin Automated
  BY <1>2, <1>4 DEF IInv, DispatchInv, UnknownFreezes, State, Automated
<1>8. About(d)
  BY <1>2, <1>4, <1>6, <1>7 DEF About, Keeps
<1>9. \A c \in Cases : Sound(c)
  BY <1>4, LeftAlone DEF State
<1>10. AttemptsInv'
  BY <1>2, <1>4, <1>8, AttemptsStay
<1>11. QED
  BY <1>5, <1>8, <1>9, <1>10, AboutStep

LEMMA ClaimBlockedStep == IInv /\ (\E d \in DOMAIN dispatch : ClaimBlocked(d)) => IInv'
<1> SUFFICES ASSUME IInv, NEW d \in DOMAIN dispatch, ClaimBlocked(d) PROVE IInv'
  OBVIOUS
<1> DEFINE row == [dispatch[d] EXCEPT !.status = "cancelled"]
<1>1. dispatch[d] \in DispatchRows /\ dispatch[d].status = "pending"
  BY DEF IInv, TypeOK, ClaimBlocked, Claimable
<1>2. row \in DispatchRows /\ row.status = "cancelled" /\ row.case = dispatch[d].case
      /\ row.actor = dispatch[d].actor /\ row.transports = dispatch[d].transports
  BY <1>1 DEF DispatchRows, Unresolved
<1>3. sent[d] = {}
  BY <1>1 DEF IInv, DispatchInv, EvidenceInv, Evidence
<1>4. dispatch' = [dispatch EXCEPT ![d] = row] /\ UNCHANGED <<case, handoff, owner, sent, worldVars, acts>>
  BY DEF ClaimBlocked
<1> HIDE DEF row
<1>5. dispatch[d].status \in Unresolved
  BY <1>1 DEF Unresolved
<1>6. QED
  BY <1>2, <1>3, <1>4, <1>5, RowOnlyStep

LEMMA LeaseEndsStep == IInv /\ (\E d \in DOMAIN dispatch : LeaseEnds(d)) => IInv'
<1> SUFFICES ASSUME IInv, NEW d \in DOMAIN dispatch, LeaseEnds(d) PROVE IInv'
  OBVIOUS
<1> DEFINE row == [dispatch[d] EXCEPT !.leaseOver = TRUE]
<1>1. dispatch[d] \in DispatchRows /\ dispatch[d].status = "dispatching"
  BY DEF IInv, TypeOK, LeaseEnds
<1>2. row \in DispatchRows /\ row.status = dispatch[d].status /\ row.case = dispatch[d].case
      /\ row.actor = dispatch[d].actor /\ row.transports = dispatch[d].transports
  BY <1>1 DEF DispatchRows, Unresolved
<1>3. dispatch' = [dispatch EXCEPT ![d] = row] /\ UNCHANGED <<case, handoff, owner, sent, worldVars, acts>>
  BY DEF LeaseEnds
<1> HIDE DEF row
<1>4. dispatch[d].status \in Unresolved
  BY <1>1 DEF Unresolved
<1>5. QED
  BY <1>2, <1>3, <1>4, RowOnlyStep

LEMMA AdapterSendsStep == IInv /\ (\E d \in DOMAIN dispatch : AdapterSends(d)) => IInv'
<1> SUFFICES ASSUME IInv, NEW d \in DOMAIN dispatch, AdapterSends(d) PROVE IInv'
  OBVIOUS
<1>1. CaseType /\ HandoffType /\ OwnerType /\ DispatchType /\ SentType /\ WorldType'
  <2>1. UNCHANGED <<worldVars, acts>>
    BY DEF AdapterSends
  <2>2. QED
    BY <2>1, Parts, TypeParts DEF IInv
<1>2. case' = case /\ handoff' = handoff /\ owner' = owner /\ dispatch' = dispatch
  BY DEF AdapterSends, rowVars
<1>3. dispatch[d].status = "dispatching" /\ d \in Dispatches /\ dispatch[d].transports \in 1..MaxTransports
  <2>1. dispatch[d].transports \in 0..MaxTransports /\ d \in Dispatches
    BY <1>1 DEF DispatchType, DispatchRows
  <2>2. dispatch[d].status = "dispatching" /\ dispatch[d].transports > 0
    BY DEF AdapterSends, IInv, DispatchInv, EvidenceInv, Evidence
  <2>3. QED
    BY <2>1, <2>2, ConstantsAssumption
<1>4. sent' = [sent EXCEPT ![d] = @ \cup {dispatch[d].transports}]
  BY DEF AdapterSends
<1>5. SentType' /\ sent'[d] = sent[d] \cup {dispatch[d].transports} /\ \A e \in Dispatches \ {d} : sent'[e] = sent[e]
  BY <1>1, <1>3, <1>4 DEF SentType
<1>6. TypeOK'
  <2>1. DispatchType'
    BY <1>1, <1>2, SameKept
  <2>2. QED
    BY <1>1, <1>2, <1>5, <2>1, TypeParts DEF CaseType, HandoffType, OwnerType
<1>7. Evidence(d)'
  BY <1>2, <1>3, <1>5 DEF IInv, DispatchInv, EvidenceInv, Evidence
<1>8. About(d)
  <2>1. \A e \in DOMAIN dispatch : e \in Dispatches
    BY <1>1 DEF DispatchType
  <2>2. QED
    BY <1>2, <1>3, <1>5, <1>7, <2>1 DEF About, Keeps
<1>9. \A c \in Cases : Sound(c)
  BY <1>2, LeftAlone DEF State
<1>10. AttemptsInv'
  BY <1>2, <1>8, AttemptsStay
<1>11. dispatch[d].status \in Unresolved
  BY <1>3 DEF Unresolved
<1>12. QED
  BY <1>6, <1>8, <1>9, <1>10, <1>11, AboutStep

\* A receipt changes its own row and no other.
LEMMA ReceiptedRow ==
    ASSUME DispatchType, NEW d \in DOMAIN dispatch, NEW C, NEW s \in {"pending", "unknown", "delivered", "failed"}
    PROVE  LET result == [CancelPending(C) EXCEPT ![d] = Receipted(d, s)[d]] IN
           /\ DOMAIN Receipted(d, s) = DOMAIN dispatch
           /\ Receipted(d, s)[d] \in DispatchRows
           /\ Receipted(d, s)[d].status = s /\ Receipted(d, s)[d].case = dispatch[d].case
           /\ Receipted(d, s)[d].actor = dispatch[d].actor
           /\ Receipted(d, s)[d].transports = dispatch[d].transports
           /\ \A e \in DOMAIN dispatch \ {d} : Receipted(d, s)[e] = dispatch[e]
           /\ DOMAIN result = DOMAIN dispatch /\ result[d] = Receipted(d, s)[d]
           /\ \A e \in DOMAIN dispatch \ {d} : result[e] = CancelPending(C)[e]
<1> DEFINE same == CancelPending({})
           row == [same[d] EXCEPT !.status = s, !.receipt = TRUE]
<1>1. DOMAIN same = DOMAIN dispatch /\ \A e \in DOMAIN dispatch : same[e] = dispatch[e]
  BY DEF CancelPending
<1>2. DOMAIN CancelPending(C) = DOMAIN dispatch
  BY CancelPendingType
<1>3. Receipted(d, s) = [same EXCEPT ![d] = row]
  BY <1>1 DEF Receipted
<1> HIDE DEF same
<1>4. dispatch[d] \in DispatchRows
  BY DEF DispatchType
<1>5. row \in DispatchRows /\ row.status = s /\ row.case = dispatch[d].case /\ row.actor = dispatch[d].actor
      /\ row.transports = dispatch[d].transports
  BY <1>1, <1>4 DEF DispatchRows, Unresolved
<1> HIDE DEF row
<1>6. DOMAIN Receipted(d, s) = DOMAIN dispatch /\ Receipted(d, s)[d] = row
      /\ \A e \in DOMAIN dispatch \ {d} : Receipted(d, s)[e] = dispatch[e]
  BY <1>1, <1>3
<1>7. QED
  BY <1>2, <1>5, <1>6

LEMMA AcceptedFacts ==
    ASSUME IInv, NEW d \in DOMAIN dispatch, NEW s, Accepted(d, s)
    PROVE  /\ dispatch[d].status \in {"dispatching", "unknown"} /\ dispatch[d].status \in Unresolved
           /\ dispatch[d].transports > 0
           /\ s = "not_sent" => sent[d] = {}
           /\ s = "delivered" => sent[d] # {}
BY DEF Accepted, IInv, DispatchInv, EvidenceInv, Evidence, Unresolved

LEMMA ReceiptNotSentStep == IInv /\ (\E d \in DOMAIN dispatch : ReceiptNotSent(d)) => IInv'
<1> SUFFICES ASSUME IInv, NEW d \in DOMAIN dispatch, ReceiptNotSent(d) PROVE IInv'
  OBVIOUS
<1> DEFINE row == Receipted(d, "pending")[d]
<1>1. DispatchType
  BY TypeParts DEF IInv
<1>2. dispatch[d].status \in Unresolved /\ sent[d] = {}
  BY AcceptedFacts DEF ReceiptNotSent
<1>3. dispatch' = Receipted(d, "pending") /\ UNCHANGED <<case, handoff, owner, sent, worldVars, acts>>
  BY DEF ReceiptNotSent
<1>4. /\ row \in DispatchRows /\ row.status = "pending" /\ row.case = dispatch[d].case
      /\ row.actor = dispatch[d].actor /\ row.transports = dispatch[d].transports
      /\ DOMAIN dispatch' = DOMAIN dispatch /\ dispatch'[d] = row
      /\ \A e \in DOMAIN dispatch \ {d} : dispatch'[e] = dispatch[e]
  BY <1>1, <1>3, ReceiptedRow
<1> HIDE DEF row
<1>5. dispatch' = [dispatch EXCEPT ![d] = row]
  <2>1. dispatch' = [x \in DOMAIN dispatch' |-> dispatch'[x]]
    BY <1>3 DEF Receipted
  <2>2. QED
    BY <1>4, <2>1
<1>6. QED
  BY <1>2, <1>3, <1>4, <1>5, RowOnlyStep

\* A message nobody can account for brings its case before a person.
LEMMA FrozenStep ==
    ASSUME IInv, NEW d \in DOMAIN dispatch, dispatch[d].status \in {"dispatching", "unknown"},
           NEW c \in Cases, c = dispatch[d].case,
           case' = [case EXCEPT ![c] = Paused(@, "handoff")], handoff' = HandoffEnsured({c}),
           UNCHANGED <<owner, sent, worldVars, acts>>,
           DOMAIN dispatch' = DOMAIN dispatch,
           NEW row \in DispatchRows, dispatch'[d] = row,
           row.case = c, row.actor = dispatch[d].actor, row.transports = dispatch[d].transports,
           row.status = "unknown" \/ (row.status = "failed" /\ sent[d] = {}),
           \A e \in DOMAIN dispatch \ {d} : dispatch'[e] = CancelPending({c})[e]
    PROVE  IInv'
<1>1. CaseType /\ HandoffType /\ OwnerType /\ DispatchType /\ SentType /\ WorldType'
  BY Parts, TypeParts DEF IInv
<1>2. /\ Paused(case[c], "handoff") \in CaseRows /\ Paused(case[c], "handoff").state = "handoff"
      /\ Paused(case[c], "handoff").attempts = case[c].attempts
  BY <1>1, PausedRow DEF CaseType, States
<1>3. /\ CaseType' /\ State(c)' = "handoff"
      /\ \A q \in Cases : /\ case'[q].attempts = case[q].attempts
                          /\ q # c => case'[q] = case[q]
  BY <1>1, <1>2 DEF CaseType, State
<1>4. /\ HandoffType' /\ handoff'[c] \in {"open", "owned"}
      /\ \A q \in Cases : q # c => handoff'[q] = handoff[q]
  BY <1>1, EnsuredHandoffs DEF HandoffType
<1>5. \A e \in DOMAIN dispatch \ {d} : dispatch'[e] \in DispatchRows /\ Keeps(e)
  BY <1>1, CancelPendingType DEF Keeps
<1>6. TypeOK'
  <2>1. DispatchType'
    BY <1>1, <1>5 DEF DispatchType
  <2>2. QED
    BY <1>1, <1>3, <1>4, <2>1, TypeParts DEF OwnerType, SentType
<1>7. Evidence(d)'
  BY DEF IInv, DispatchInv, EvidenceInv, Evidence
<1>8. About(d)
  BY <1>3, <1>5, <1>7 DEF About, State, Automated
<1>9. \A q \in Cases : Sound(q)
  <2>1. Sound(c)
    BY <1>3, <1>4 DEF Sound, Enrolment, Matches, State, Automated
  <2>2. \A q \in Cases : q # c => Sound(q)
    BY <1>3, <1>4, LeftAlone DEF State
  <2>3. QED
    BY <2>1, <2>2
<1>10. AttemptsInv'
  BY <1>3, <1>8, AttemptsStay
<1>11. dispatch[d].status \in Unresolved
  BY DEF Unresolved
<1>12. QED
  BY <1>6, <1>8, <1>9, <1>10, <1>11, AboutStep

LEMMA DispatchCase == IInv => \A d \in DOMAIN dispatch : dispatch[d].case \in Cases /\ dispatch[d] \in DispatchRows
BY DEF IInv, TypeOK, DispatchRows

LEMMA ScanExpiredStep == IInv /\ (\E d \in DOMAIN dispatch : ScanExpired(d)) => IInv'
<1> SUFFICES ASSUME IInv, NEW d \in DOMAIN dispatch, ScanExpired(d) PROVE IInv'
  OBVIOUS
<1> DEFINE c == dispatch[d].case
           row == [CancelPending({c})[d] EXCEPT !.status = "unknown"]
<1>1. c \in Cases /\ dispatch[d] \in DispatchRows /\ DispatchType
  BY DispatchCase, TypeParts DEF IInv
<1>2. dispatch[d].status \in {"dispatching", "unknown"}
  BY DEF ScanExpired
<1>3. CancelPending({c})[d] = dispatch[d] /\ DOMAIN CancelPending({c}) = DOMAIN dispatch
  BY <1>2 DEF CancelPending
<1>4. /\ row \in DispatchRows /\ row.status = "unknown" /\ row.case = c
      /\ row.actor = dispatch[d].actor /\ row.transports = dispatch[d].transports
  BY <1>1, <1>3 DEF DispatchRows, Unresolved
<1>5. /\ case' = [case EXCEPT ![c] = Paused(@, "handoff")] /\ handoff' = HandoffEnsured({c})
      /\ dispatch' = [CancelPending({c}) EXCEPT ![d] = row]
      /\ UNCHANGED <<owner, sent, worldVars, acts>>
  BY DEF ScanExpired
<1> HIDE DEF row
<1>6. /\ DOMAIN dispatch' = DOMAIN dispatch /\ dispatch'[d] = row
      /\ \A e \in DOMAIN dispatch \ {d} : dispatch'[e] = CancelPending({c})[e]
  BY <1>3, <1>5
<1> HIDE DEF c
<1>7. c = dispatch[d].case
  BY DEF c
<1>8. QED
  BY <1>1, <1>2, <1>4, <1>5, <1>6, <1>7, FrozenStep

LEMMA ReceiptForReviewStep == IInv /\ (\E d \in DOMAIN dispatch : ReceiptForReview(d)) => IInv'
<1> SUFFICES ASSUME IInv, NEW d \in DOMAIN dispatch, ReceiptForReview(d) PROVE IInv'
  OBVIOUS
<1> DEFINE c == dispatch[d].case
           R(s) == Receipted(d, s)[d]
<1>1. c \in Cases /\ DispatchType
  BY DispatchCase, TypeParts DEF IInv
<1>2. /\ case' = [case EXCEPT ![c] = Paused(@, "handoff")] /\ handoff' = HandoffEnsured({c})
      /\ UNCHANGED <<owner, sent, worldVars, acts>>
  BY DEF ReceiptForReview
<1>3. PICK s \in {"unknown", "failed"} :
         /\ dispatch[d].status \in {"dispatching", "unknown"}
         /\ s = "failed" => sent[d] = {}
         /\ dispatch' = [CancelPending({c}) EXCEPT ![d] = R(s)]
  BY AcceptedFacts DEF ReceiptForReview
<1>4. /\ R(s) \in DispatchRows /\ R(s).status = s /\ R(s).case = c
      /\ R(s).actor = dispatch[d].actor /\ R(s).transports = dispatch[d].transports
      /\ DOMAIN dispatch' = DOMAIN dispatch /\ dispatch'[d] = R(s)
      /\ \A e \in DOMAIN dispatch \ {d} : dispatch'[e] = CancelPending({c})[e]
  BY <1>1, <1>3, ReceiptedRow
<1> HIDE DEF R, c
<1>5. c = dispatch[d].case
  BY DEF c
<1>6. R(s).status = "unknown" \/ (R(s).status = "failed" /\ sent[d] = {})
  BY <1>3, <1>4
<1>7. QED
  BY <1>1, <1>2, <1>3, <1>4, <1>5, <1>6, FrozenStep

LEMMA ReceiptDeliveredStep == IInv /\ (\E d \in DOMAIN dispatch : ReceiptDelivered(d)) => IInv'
<1> SUFFICES ASSUME IInv, NEW d \in DOMAIN dispatch, ReceiptDelivered(d) PROVE IInv'
  OBVIOUS
<1>0. PICK c \in Cases : c = dispatch[d].case
  BY DispatchCase
<1> DEFINE new == Receipted(d, "delivered")[d]
           row == AfterDelivery(case[c], d)
<1>1. CaseType /\ HandoffType /\ OwnerType /\ DispatchType /\ SentType /\ WorldType
  BY TypeParts DEF IInv
<1>2. dispatch[d].status \in Unresolved /\ dispatch[d].transports > 0 /\ sent[d] # {}
  BY AcceptedFacts DEF ReceiptDelivered
<1>3. dispatch' = Receipted(d, "delivered") /\ case' = [case EXCEPT ![c] = row]
      /\ handoff' = handoff /\ owner' = owner /\ sent' = sent
  BY <1>0 DEF ReceiptDelivered
<1>4. WorldType'
  <2>1. quiet' \in [Cases -> BOOLEAN]
    BY <1>1 DEF WorldType, ReceiptDelivered
  <2>2. Outbound \in Events
    BY DEF Outbound, Events
  <2>3. events' \subseteq Events
    BY <1>1, <2>2 DEF WorldType, ReceiptDelivered
  <2>4. QED
    BY <1>1, <2>1, <2>3 DEF WorldType, ReceiptDelivered
<1>5. /\ row \in CaseRows /\ row.attempts = case[c].attempts /\ row.run = case[c].run
      /\ \/ row.state = State(c)
         \/ State(c) \in Automated /\ row.state \in {"exhausted", "monitoring"}
  BY <1>1, AfterDeliveryRow DEF CaseType, State
<1>6. /\ new \in DispatchRows /\ new.status = "delivered" /\ new.case = dispatch[d].case
      /\ new.actor = dispatch[d].actor /\ new.transports = dispatch[d].transports
      /\ DOMAIN dispatch' = DOMAIN dispatch /\ dispatch'[d] = new
      /\ \A e \in DOMAIN dispatch \ {d} : dispatch'[e] = dispatch[e]
  BY <1>1, <1>3, ReceiptedRow
<1> HIDE DEF new, row
<1>7. /\ CaseType' /\ case'[c] = row /\ State(c)' = row.state
      /\ \A q \in Cases : /\ case'[q].attempts = case[q].attempts
                          /\ q # c => case'[q] = case[q]
  BY <1>1, <1>3, <1>5 DEF CaseType, State
<1>8. TypeOK'
  <2>1. DispatchType'
    BY <1>1, <1>6 DEF DispatchType
  <2>2. QED
    BY <1>1, <1>3, <1>4, <1>7, <2>1, TypeParts DEF HandoffType, OwnerType, SentType
<1>9. Evidence(d)'
  BY <1>2, <1>3, <1>6 DEF IInv, DispatchInv, EvidenceInv, Evidence
<1>10. About(d)
  BY <1>0, <1>3, <1>6, <1>9 DEF About, Keeps
<1>11. \A q \in Cases : Sound(q)
  <2>1. CASE row.state = State(c)
    <3>1. Sound(c)
      BY <1>1, <1>3, <1>5, <1>7, <2>1, LeftAlone DEF RowRun
    <3>2. QED
      BY <1>3, <1>7, <3>1, LeftAlone DEF State
  <2>2. CASE State(c) \in Automated /\ row.state \in {"exhausted", "monitoring"}
    <3>1. handoff'[c] \in {"none", "returned"}
      BY <1>1, <1>3, <2>2 DEF IInv, CasesInv, Matches
    <3>2. Sound(c)
      BY <1>7, <2>2, <3>1 DEF Sound, Enrolment, Matches, State, Automated
    <3>3. QED
      BY <1>3, <1>7, <3>2, LeftAlone DEF State
  <2>3. QED
    BY <1>5, <2>1, <2>2
<1>12. AttemptsInv'
  BY <1>6, <1>7, <1>10, AttemptsStay
<1>13. QED
  BY <1>2, <1>8, <1>10, <1>11, <1>12, AboutStep

\* A claim takes the dispatch along and, the first time, counts an attempt.
LEMMA ClaimStep == IInv /\ (\E d \in DOMAIN dispatch : Claim(d)) => IInv'
<1> SUFFICES ASSUME IInv, NEW d \in DOMAIN dispatch, Claim(d) PROVE IInv'
  OBVIOUS
<1>1. PICK c \in Cases : c = dispatch[d].case
  BY DispatchCase
<1> DEFINE new == [dispatch[d] EXCEPT !.status = "dispatching", !.leaseOver = FALSE, !.transports = @ + 1, !.receipt = FALSE]
           first == FirstClaim(d)
           row == [case[c] EXCEPT !.attempts = IF first THEN @ + 1 ELSE @]
<1>2. CaseType /\ HandoffType /\ OwnerType /\ DispatchType /\ SentType /\ WorldType'
  BY Parts, TypeParts DEF IInv, Claim
<1>3. /\ dispatch' = [dispatch EXCEPT ![d] = new] /\ case' = [case EXCEPT ![c] = row]
      /\ handoff' = handoff /\ owner' = owner /\ sent' = sent
      /\ dispatch[d].status = "pending" /\ dispatch[d].transports < MaxTransports
  BY <1>1 DEF Claim, Claimable
<1>4. dispatch[d] \in DispatchRows /\ dispatch[d].transports \in Nat /\ dispatch[d].transports + 1 \in 0..MaxTransports
      /\ dispatch[d].transports + 1 > 0
  <2>1. dispatch[d] \in DispatchRows
    BY <1>2 DEF DispatchType
  <2>2. dispatch[d].transports \in 0..MaxTransports
    BY <2>1 DEF DispatchRows
  <2>3. QED
    BY <1>3, <2>1, <2>2, ConstantsAssumption
<1>5. /\ new \in DispatchRows /\ new.status = "dispatching" /\ new.case = c /\ new.actor = dispatch[d].actor
      /\ new.transports = dispatch[d].transports + 1
  BY <1>1, <1>4 DEF DispatchRows, Unresolved
<1>6. case[c].attempts \in Nat /\ case[c] \in CaseRows
  BY <1>2 DEF CaseType, CaseRows
<1>7. /\ row \in CaseRows /\ row.state = State(c) /\ row.run = case[c].run
      /\ row.attempts = IF first THEN case[c].attempts + 1 ELSE case[c].attempts
  BY <1>6 DEF CaseRows, State
<1>8. first => case[c].attempts + 1 <= MaximumAttempts
  <2> SUFFICES ASSUME first PROVE case[c].attempts + 1 <= MaximumAttempts
    OBVIOUS
  <2>1. ~Human(d) /\ ~(dispatch[d].transports > 0)
    BY DEF FirstClaim
  <2>2. MessageGuard(c, Human(d), dispatch[d].transports > 0, DOMAIN dispatch \ {d}) = "ok"
    BY <1>1 DEF Claim, Objection
  <2>3. ~(case[c].attempts >= MaximumAttempts + (IF dispatch[d].transports > 0 THEN 1 ELSE 0))
    BY <2>1, <2>2 DEF MessageGuard
  <2>4. QED
    BY <1>6, <2>1, <2>3, ConstantsAssumption
<1> HIDE DEF new, row
<1>9. /\ DOMAIN dispatch' = DOMAIN dispatch /\ dispatch'[d] = new
      /\ \A e \in DOMAIN dispatch \ {d} : dispatch'[e] = dispatch[e]
  BY <1>3
<1>10. /\ CaseType' /\ case'[c] = row /\ State(c)' = State(c)
       /\ \A q \in Cases : q # c => case'[q] = case[q]
  BY <1>2, <1>3, <1>7 DEF CaseType, State
<1>11. TypeOK'
  <2>1. DispatchType'
    BY <1>2, <1>5, <1>9 DEF DispatchType
  <2>2. QED
    BY <1>2, <1>3, <1>10, <2>1, TypeParts DEF HandoffType, OwnerType, SentType
<1>12. Evidence(d)'
  <2>1. sent[d] = {}
    BY <1>3 DEF IInv, DispatchInv, EvidenceInv, Evidence
  <2>2. QED
    BY <1>3, <1>4, <1>5, <1>9, <2>1 DEF Evidence
<1>13. About(d)
  BY <1>1, <1>3, <1>5, <1>9, <1>12 DEF About, Keeps
<1>14. \A q \in Cases : Sound(q)
  BY <1>3, <1>7, <1>10, LeftAlone DEF State, RowRun
<1>15. AttemptsInv'
  <2>1. /\ IsFiniteSet(DOMAIN dispatch)
        /\ \A q \in Cases : case[q].attempts = Cardinality(Counted(q)) /\ case[q].attempts <= MaximumAttempts
    BY DEF IInv, DispatchInv, AttemptsInv
  <2>2. IsFiniteSet(DOMAIN dispatch')
    BY <1>9, <2>1
  <2>3. \A q \in Cases : q # c => Counted(q)' = Counted(q)
    BY <1>1, <1>5, <1>9 DEF Counted, Counts, Human
  <2>4. CASE first
    <3>1. d \notin Counted(c) /\ Counted(c)' = Counted(c) \cup {d}
      BY <1>1, <1>4, <1>5, <1>9, <2>4 DEF Counted, Counts, Human, FirstClaim
    <3>2. IsFiniteSet(Counted(c))
      BY <2>1, FS_Subset DEF Counted
    <3>3. Cardinality(Counted(c) \cup {d}) = Cardinality(Counted(c)) + 1
      BY <3>1, <3>2, FS_AddElement
    <3>4. case'[c].attempts = Cardinality(Counted(c)') /\ case'[c].attempts <= MaximumAttempts
      BY <1>7, <1>8, <1>10, <2>1, <2>4, <3>1, <3>3
    <3>5. QED
      BY <1>10, <2>1, <2>2, <2>3, <3>4 DEF AttemptsInv
  <2>5. CASE ~first
    <3>1. Counted(c)' = Counted(c)
      BY <1>1, <1>4, <1>5, <1>9, <2>5 DEF Counted, Counts, Human, FirstClaim
    <3>2. case'[c].attempts = case[c].attempts
      BY <1>7, <1>10, <2>5
    <3>3. QED
      BY <1>10, <2>1, <2>2, <2>3, <3>1, <3>2 DEF AttemptsInv
  <2>6. QED
    BY <2>4, <2>5
<1>16. dispatch[d].status \in Unresolved
  BY <1>3 DEF Unresolved
<1>17. QED
  BY <1>11, <1>13, <1>14, <1>15, <1>16, AboutStep

------------------------------------------------------------------------------
LEMMA NextIInv == IInv /\ [Next]_vars => IInv'
<1> SUFFICES ASSUME IInv, [Next]_vars PROVE IInv'
  OBVIOUS
<1>1. CASE Scan
  <2>1. (\E d \in DOMAIN dispatch : ScanExpired(d)) \/ \E c \in Cases : ScanHandsOff(c) \/ ScanEnds(c) \/ ScanStarts(c)
    BY <1>1 DEF Scan
  <2>2. QED
    BY <2>1, ScanExpiredStep, ScanCaseStep
<1>2. ASSUME NEW c \in Cases, Run(c)
      PROVE  IInv'
  BY <1>2, RunRowStep, DecideToStopStep, ClassifyStep, ApproveStep DEF Run
<1>3. ASSUME NEW d \in DOMAIN dispatch, Adapter(d) \/ LeaseEnds(d)
      PROVE  IInv'
  BY <1>3, ClaimBlockedStep, ClaimStep, AdapterSendsStep, ReceiptDeliveredStep, ReceiptNotSentStep,
     ReceiptForReviewStep, LeaseEndsStep DEF Adapter
<1>4. CASE HandoffAct
  BY <1>4, ReturnStep, CloseStep, TakeOverStep, RespondStep DEF HandoffAct
<1>5. CASE Handle
  BY <1>5, HandleMessageStep, HandleReviewStep, HandlePauseStep DEF Handle
<1>6. CASE World
  BY <1>6, SurroundingsStep, HandleReviewStep, DueArrivesStep, EnrollStep DEF World
<1>7. CASE UNCHANGED vars
  <2>1. UNCHANGED <<rowVars, sent>> /\ UNCHANGED <<worldVars, acts>>
    BY <1>7 DEF vars
  <2>2. WorldType'
    BY <2>1, Parts
  <2>3. QED
    BY <2>1, <2>2, WorldStep
<1>8. QED
  BY <1>1, <1>2, <1>3, <1>4, <1>5, <1>6, <1>7 DEF Next

\* In every reachable state the cases, the handoffs, the dispatches and what
\* the adapter sent agree as IInv says.
THEOREM Inductive == Spec => []IInv
<1>1. QED
  BY InitIInv, NextIInv, PTL DEF Spec

\* Every variable keeps its type: no row gets a state, a status or an actor
\* that the schema does not know.
THEOREM TypeCorrect == Spec => []TypeOK
<1>1. IInv => TypeOK
  BY DEF IInv
<1>2. QED
  BY <1>1, Inductive, PTL

\* Of all cases of the contact at most one message is on its way or
\* unaccounted for: the guard of approvals, answers and claims.
THEOREM OneUnresolved == Spec => []OneUnresolvedPerContact
<1>1. IInv => OneUnresolvedPerContact
  BY DEF IInv, DispatchInv
<1>2. QED
  BY <1>1, Inductive, PTL

\* A case and its handoff agree along all paths of scans, replies, takeovers,
\* returns and receipts.
THEOREM HandoffAgrees == Spec => []HandoffMatchesCase
<1>1. IInv => HandoffMatchesCase
  BY DEF IInv, CasesInv, Matches, HandoffMatchesCase, State, Automated
<1>2. QED
  BY <1>1, Inductive, PTL

\* A case with a message of unknown outcome is not put back to work.
THEOREM UnknownStaysFrozen == Spec => []UnknownFreezes
<1>1. IInv => UnknownFreezes
  BY DEF IInv, DispatchInv
<1>2. QED
  BY <1>1, Inductive, PTL

LEMMA AtMostOneClaim ==
    ASSUME NEW S, NEW x, S \subseteq {x}
    PROVE  Cardinality(S) <= 1
<1>1. S = {} \/ S = {x}
  OBVIOUS
<1>2. Cardinality({}) = 0 /\ Cardinality({x}) = 1
  BY FS_EmptySet, FS_Singleton
<1>3. QED
  BY <1>1, <1>2

\* No message is sent twice, what is delivered was sent, what waits, was
\* cancelled or failed was not, and the attempts of a case are the agent's
\* messages that were claimed.
THEOREM SentIsEvidence == Spec => []DispatchIsEvidence
<1>1. IInv => DispatchIsEvidence
  <2> SUFFICES ASSUME IInv PROVE DispatchIsEvidence
    OBVIOUS
  <2>1. AttemptsAreMessages
    BY DEF IInv, DispatchInv, AttemptsInv, AttemptsAreMessages, Counted, Counts
  <2>2. ASSUME NEW d \in DOMAIN dispatch
        PROVE  /\ Cardinality(sent[d]) <= 1
               /\ dispatch[d].status = "delivered" => sent[d] # {}
               /\ dispatch[d].status \in {"pending", "cancelled", "failed"} => sent[d] = {}
    <3>1. Evidence(d)
      BY DEF IInv, DispatchInv, EvidenceInv
    <3>2. QED
      BY <3>1, AtMostOneClaim DEF Evidence
  <2>3. QED
    BY <2>1, <2>2 DEF DispatchIsEvidence
<1>2. QED
  BY <1>1, Inductive, PTL

------------------------------------------------------------------------------
(* Only a claim hands a message over.                                       *)

HandsOver(d) == dispatch[d].status = "pending" /\ dispatch'[d].status = "dispatching"

LEMMA NoOtherHandsOver ==
    ASSUME IInv, [Next]_vars, NEW d \in DOMAIN dispatch, HandsOver(d)
    PROVE  Claim(d)
<1> DEFINE Quiet(x) == dispatch'[x].status = dispatch[x].status \/ dispatch'[x].status # "dispatching"
<1>1. DispatchType /\ ~Quiet(d)
  BY TypeParts DEF IInv, HandsOver
<1>2. ASSUME NEW C, dispatch' = CancelPending(C)
      PROVE  Quiet(d)
  BY <1>1, <1>2, CancelPendingType
<1>3. dispatch' = dispatch => Quiet(d)
  OBVIOUS
<1>4. ASSUME NEW e \in DOMAIN dispatch, ScanExpired(e) PROVE Quiet(d)
  BY <1>1, <1>4, CancelPendingType DEF ScanExpired
<1>5. ASSUME NEW c, NEW x, Queue(x, NewDispatch(c, Agent)) \/ \E m : Queue(x, NewDispatch(c, m)) PROVE Quiet(d)
  BY <1>5 DEF Queue
<1>6. CASE Scan
  BY <1>1, <1>2, <1>3, <1>4, <1>6 DEF Scan, ScanHandsOff, ScanEnds, ScanStarts, PauseForReview, Pause
<1>7. ASSUME NEW c \in Cases, Run(c) PROVE Quiet(d)
  <2>1. dispatch' = dispatch \/ \E x \in Dispatches : Approve(c, x)
    BY <1>7 DEF Run, RunStops, RunSkips, RunCompletes, DecideToSend, DecideToStop, ProposeMessage, Classify
  <2>2. QED
    BY <1>3, <1>5, <2>1 DEF Approve
<1>8. ASSUME NEW e \in DOMAIN dispatch, ReceiptDelivered(e) \/ ReceiptNotSent(e) \/ ReceiptForReview(e) PROVE Quiet(d)
  <2>1. PICK s \in {"pending", "unknown", "delivered", "failed"} :
           \/ dispatch' = Receipted(e, s)
           \/ \E C : dispatch' = [CancelPending(C) EXCEPT ![e] = Receipted(e, s)[e]]
    BY <1>8 DEF ReceiptDelivered, ReceiptNotSent, ReceiptForReview
  <2>2. CASE dispatch' = Receipted(e, s)
    BY <1>1, <2>2, ReceiptedRow
  <2>3. ASSUME NEW C, dispatch' = [CancelPending(C) EXCEPT ![e] = Receipted(e, s)[e]] PROVE Quiet(d)
    <3>1. CASE d = e
      BY <1>1, <2>3, <3>1, ReceiptedRow
    <3>2. CASE d # e
      BY <1>1, <2>3, <3>2, ReceiptedRow, CancelPendingType
    <3>3. QED
      BY <3>1, <3>2
  <2>4. QED
    BY <2>1, <2>2, <2>3
<1>9. ASSUME NEW e \in DOMAIN dispatch, ClaimBlocked(e) \/ LeaseEnds(e) \/ AdapterSends(e) PROVE Quiet(d)
  <2>1. \A x \in DOMAIN dispatch : dispatch[x] \in DispatchRows
    BY <1>1 DEF DispatchType
  <2>2. CASE ClaimBlocked(e)
    BY <2>1, <2>2 DEF ClaimBlocked, DispatchRows
  <2>3. CASE LeaseEnds(e)
    BY <2>1, <2>3 DEF LeaseEnds, DispatchRows
  <2>4. CASE AdapterSends(e)
    BY <2>4 DEF AdapterSends, rowVars
  <2>5. QED
    BY <1>9, <2>2, <2>3, <2>4
<1>10. ASSUME NEW e \in DOMAIN dispatch, Claim(e) PROVE Claim(d)
  BY <1>1, <1>10 DEF Claim
<1>11. CASE HandoffAct
  BY <1>1, <1>2, <1>3, <1>5, <1>11 DEF HandoffAct, ReturnToAI, Close, TakeOver, Respond
<1>12. CASE Handle
  BY <1>1, <1>2, <1>12 DEF Handle, HandleMessage, HandleOutbound, HandleContact, HandleOpportunity, PauseForReview, Pause
<1>13. CASE World
  BY <1>1, <1>2, <1>3, <1>13 DEF World, MessageArrives, EmployeeWrites, MemberOptsOut, ConditionsChange, Configure,
     PauseForReview, Enable, EmployeeEdits, QuietEnds, DueArrives, Enroll, OpportunityChanges, rowVars
<1>14. CASE UNCHANGED vars
  BY <1>1, <1>3, <1>14 DEF vars, rowVars
<1> HIDE DEF Quiet
<1>15. QED
  BY <1>1, <1>6, <1>7, <1>8, <1>9, <1>10, <1>11, <1>12, <1>13, <1>14 DEF Next, Adapter

\* Nothing is handed to the adapter when an opt-out was handled, or when a STOP
\* arrived after all that the case has seen.
THEOREM StopHeeded == Spec => StopIsHeeded
<1>1. ASSUME IInv, [Next]_vars, NEW d \in DOMAIN dispatch, HandsOver(d)
      PROVE  /\ ~doNotContact
             /\ \A m \in Messages : inbox[m] = "stop" =>
                   m <= case[dispatch[d].case].latest \/ m <= case[dispatch[d].case].baseline
  <2>1. PICK c \in Cases : c = dispatch[d].case
    BY <1>1, DispatchCase
  <2>2. Claim(d)
    BY <1>1, NoOtherHandsOver
  <2>3. MessageGuard(c, Human(d), dispatch[d].transports > 0, DOMAIN dispatch \ {d}) = "ok"
    BY <2>1, <2>2 DEF Claim, Objection
  <2>4. Base(c) = "ok" /\ \A m \in Unseen(c) : inbox[m] # "stop"
    BY <2>3 DEF MessageGuard, PersonInCharge
  <2>5. ~doNotContact
    BY <2>4 DEF Base
  <2>6. case[c].latest \in Nat /\ case[c].baseline \in Nat
    BY <1>1, MessagesAreNumbers DEF IInv, TypeOK, CaseRows
  <2>7. \A m \in Messages : inbox[m] = "stop" => m <= case[c].latest \/ m <= case[c].baseline
    BY <2>4, <2>6, MessagesAreNumbers DEF Unseen
  <2>8. QED
    BY <2>1, <2>5, <2>7
<1>2. IInv /\ [Next]_vars =>
        [\A d \in DOMAIN dispatch :
            (dispatch[d].status = "pending" /\ dispatch'[d].status = "dispatching") =>
                LET row == case[dispatch[d].case] IN
                /\ ~doNotContact
                /\ \A m \in Messages :
                      inbox[m] = "stop" => m <= row.latest \/ m <= row.baseline]_vars
  BY <1>1 DEF HandsOver
<1>3. QED
  BY <1>2, Inductive, PTL DEF Spec, StopIsHeeded

==============================================================================
