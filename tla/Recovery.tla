------------------------------ MODULE Recovery ------------------------------
(***************************************************************************)
(* Revenue recovery for one contact: its opportunities are followed up by  *)
(* an agent (src/recovery/orchestrator.ts, tools.ts), every message is     *)
(* approved by a member and handed to an external adapter under a short    *)
(* lease (delivery.ts), people take cases over and give them back          *)
(* (handoffs.ts), and events about the contact pause the automation        *)
(* (events.ts, lifecycle.ts).                                               *)
(*                                                                          *)
(* Every transaction holds the organization's lock and is one action,      *)
(* except that a scan commits many independent rows and is one action per  *)
(* row.  Events are handled after the facts they report, in any order, as  *)
(* the job queue may.  Of an agent run only what recovery sees is kept.    *)
(***************************************************************************)
EXTENDS Naturals, FiniteSets

CONSTANTS Cases,            \* RecoveryCase rows, one per opportunity of the contact
          Dispatches,       \* RecoveryDispatch rows
          MaxMessages,      \* inbound messages of the contact
          Members,          \* members who work on handoffs
          Agent,            \* actor of a dispatch the agent wrote
          Nobody,           \* no member is assigned
          Communications,   \* COMMUNICATIONS_ENABLED
          MaximumAttempts,  \* config.maximumAttempts (1 to 10)
          MaxTransports,    \* transport claims of one dispatch (3)
          MaxActs           \* bound: acts of members and changes of the surroundings

ASSUME ConstantsAssumption ==
    /\ MaxMessages \in Nat
    /\ Agent \notin Members /\ Nobody \notin Members
    /\ Communications \in BOOLEAN
    /\ MaximumAttempts \in Nat \ {0}
    /\ MaxTransports \in Nat \ {0}
    /\ MaxActs \in Nat

VARIABLES
    case,         \* the RecoveryCase rows, each with its latest run
    handoff,      \* RecoveryHandoff.status; "none" when there is no row
    owner,        \* RecoveryHandoff.assignedMemberId
    dispatch,     \* the RecoveryDispatch rows
    sent,         \* the claims under which the adapter sent a dispatch
    enabled,      \* WorkforceAgent.enabled
    version,      \* RecoveryProgram.runtimeVersionId
    doNotContact, \* Contact.doNotContact, with the channel consents it revokes
    clear,        \* consent, destination, channel and knowledge are in order
    open,         \* within the working hours
    opportunity,  \* whether it is "open", "booked" or "closed"
    quiet,        \* an employee dealt with the opportunity recently
    inbox,        \* inbound messages: "none", "reply", "sensitive" or "stop"
    events,       \* published events not yet handled
    acts

rowVars == <<case, handoff, owner, dispatch>>
worldVars == <<enabled, version, doNotContact, clear, open, opportunity, quiet,
               inbox, events>>
vars == <<rowVars, sent, worldVars, acts>>

\* Inbound messages, in order of arrival.
Messages == 1..MaxMessages
NoMessage == 0
States == {"none", "monitoring", "working", "awaiting_classification", "handoff",
           "human_owned", "opted_out", "declined", "exhausted", "ineligible", "closed"}
Live == {"monitoring", "working", "awaiting_classification"}
HumanControlled == {"human_owned", "handoff", "awaiting_classification"}
Active == {"running", "waiting_approval"}
Unresolved == {"pending", "dispatching", "unknown"}
Kinds == {"reply", "sensitive", "stop"}

\* AgentRun: its status ("pending" is "running", "failed" is "stopped"), the
\* trigger key and version it was enqueued with, and what it decided; "sent" is a
\* message that was approved and has its dispatch.
NoRun == [status |-> "none", revision |-> 0, attempts |-> 0, inbound |-> FALSE,
          version |-> 0, decision |-> "none"]
Runs == [status : Active \cup {"none", "completed", "stopped", "skipped"},
         revision : Nat, attempts : Nat, inbound : BOOLEAN, version : Nat,
         decision : {"none", "send", "sent", "stop"}]

CaseRows == [state : States, revision : Nat, attempts : Nat,
             due : {"none", "later", "now"}, latest : Messages \cup {NoMessage},
             baseline : Nat, pending : BOOLEAN, run : Runs]
NoCase == [state |-> "none", revision |-> 0, attempts |-> 0, due |-> "none",
           latest |-> NoMessage, baseline |-> 0, pending |-> FALSE, run |-> NoRun]

DispatchRows == [status : Unresolved \cup {"none", "cancelled", "delivered", "failed"},
                 case : Cases, actor : Members \cup {Agent}, revision : Nat,
                 version : Nat, transports : 0..MaxTransports,
                 leaseOver : BOOLEAN, receipt : BOOLEAN]

\* The events the handler subscribes to: an inbound message, an employee's
\* message, a changed contact and a changed opportunity (and what it became).
Events == [type : {"inbound"}, message : Messages]
          \cup [type : {"outbound", "contact"}]
          \cup [type : {"opportunity"}, case : Cases, became : {"open", "booked", "closed"}]
Inbound(m) == [type |-> "inbound", message |-> m]
Outbound == [type |-> "outbound"]
ContactUpdated == [type |-> "contact"]
Changed(c, s) == [type |-> "opportunity", case |-> c, became |-> s]

TypeOK ==
    /\ case \in [Cases -> CaseRows]
    /\ handoff \in [Cases -> {"none", "open", "owned", "returned", "closed"}]
    /\ owner \in [Cases -> Members \cup {Nobody}]
    /\ DOMAIN dispatch \subseteq Dispatches
    /\ \A d \in DOMAIN dispatch : dispatch[d] \in DispatchRows
    /\ sent \in [Dispatches -> SUBSET (1..MaxTransports)]
    /\ enabled \in BOOLEAN /\ version \in Nat
    /\ doNotContact \in BOOLEAN /\ clear \in BOOLEAN /\ open \in BOOLEAN
    /\ opportunity \in [Cases -> {"open", "booked", "closed"}]
    /\ quiet \in [Cases -> BOOLEAN]
    /\ inbox \in [Messages -> Kinds \cup {"none"}]
    /\ events \subseteq Events
    /\ acts \in 0..MaxActs

Init ==
    /\ case = [c \in Cases |-> NoCase]
    /\ handoff = [c \in Cases |-> "none"]
    /\ owner = [c \in Cases |-> Nobody]
    /\ dispatch = [d \in {} |-> NoCase]
    /\ sent = [d \in Dispatches |-> {}]
    /\ enabled = TRUE
    /\ version = 1
    /\ doNotContact = FALSE
    /\ clear = TRUE
    /\ open = TRUE
    /\ opportunity = [c \in Cases |-> "open"]
    /\ quiet = [c \in Cases |-> FALSE]
    /\ inbox = [m \in Messages |-> "none"]
    /\ events = {}
    /\ acts = 0

------------------------------------------------------------------------------
(* lifecycle.ts: what every path to a message is checked against.           *)

Base(c) ==
    CASE ~enabled -> "agent_disabled"
      [] enabled /\ doNotContact -> "opt_out"
      [] enabled /\ ~doNotContact /\ opportunity[c] = "closed" -> "closed"
      [] enabled /\ ~doNotContact /\ opportunity[c] # "closed" -> "ok"

\* Mutant: messages that wait for their handler are not looked at.
NothingUnseen(c) == {}

\* Inbound messages since the last one the case has seen.
Unseen(c) ==
    {m \in Messages : /\ inbox[m] # "none"
                      /\ IF case[c].latest = NoMessage THEN m > case[c].baseline
                                                       ELSE m > case[c].latest}

\* Mutant: only the case's own dispatches are looked at.
OwnInTheWay(c, others) ==
    {d \in others : dispatch[d].case = c /\ dispatch[d].status \in Unresolved}

\* Dispatches to the contact that are not resolved.
InTheWay(c, others) == {d \in others : dispatch[d].status \in Unresolved}

\* What keeps the agent, and not a person, from writing about c now.
PersonInCharge(c) ==
    \/ \E x \in Cases \ {c} : case[x].state \in HumanControlled
    \/ handoff[c] \in {"open", "owned"}
    \/ quiet[c]
    \/ Unseen(c) # {}

\* messageGuard: the first objection in the order of the code, or "ok".  A
\* dispatch that was claimed before has its attempt reserved already.
MessageGuard(c, human, reserved, others) ==
    LET row == case[c]
        limit == MaximumAttempts + (IF reserved THEN 1 ELSE 0) IN
    IF Base(c) # "ok" THEN "ineligible"
    ELSE IF ~clear THEN "blocked"
    ELSE IF ~human /\ row.state \notin {"monitoring", "working"} THEN "blocked"
    ELSE IF ~open THEN "outside_operating_hours"
    ELSE IF human /\ (\E m \in Unseen(c) : inbox[m] = "stop") THEN "blocked"
    ELSE IF ~human /\ row.attempts >= limit THEN "attempt_limit"
    ELSE IF ~human /\ ~reserved /\ row.due # "now" THEN "not_due"
    ELSE IF opportunity[c] = "booked" \/ (~human /\ PersonInCharge(c)) THEN "blocked"
    ELSE IF InTheWay(c, others) # {} THEN "unresolved"
    ELSE "ok"

\* pauseCase on one row: any later claim, run or approval finds the revision
\* moved on, and the run in flight is stopped with its approval.
Paused(row, s) ==
    [row EXCEPT !.state = s, !.revision = @ + 1, !.due = "none",
                !.run.status = IF row.pending /\ @ \in Active THEN "stopped" ELSE @]

\* The dispatches when the cases C are paused.
CancelPending(C) ==
    [d \in DOMAIN dispatch |->
        IF dispatch[d].case \in C /\ dispatch[d].status = "pending"
        THEN [dispatch[d] EXCEPT !.status = "cancelled"] ELSE dispatch[d]]

\* Mutant: a handoff that was returned to the agent is not opened again.
HandoffCreated(C) ==
    [c \in Cases |-> IF c \in C /\ handoff[c] \in {"none", "closed"} THEN "open" ELSE handoff[c]]

\* ensureHandoff for the cases C.
HandoffEnsured(C) ==
    [c \in Cases |-> IF c \in C /\ handoff[c] # "owned" THEN "open" ELSE handoff[c]]

Enrolled == {c \in Cases : case[c].state # "none"}
LiveCases == {c \in Cases : case[c].state \in Live}
UnresolvedOf(c) ==
    {d \in DOMAIN dispatch : dispatch[d].case = c /\ dispatch[d].status \in Unresolved}

\* Pause the cases C, each in state s, and put them before a person.
PauseForReview(C, s) ==
    /\ case' = [c \in Cases |-> IF c \in C THEN Paused(case[c], s) ELSE case[c]]
    /\ dispatch' = CancelPending(C)
    /\ handoff' = HandoffEnsured(C)

\* Pause the cases C without a handoff.
Pause(C, s) ==
    /\ case' = [c \in Cases |-> IF c \in C THEN Paused(case[c], s) ELSE case[c]]
    /\ dispatch' = CancelPending(C)
    /\ UNCHANGED handoff

------------------------------------------------------------------------------
(* orchestrator.ts: enrollment, the scan and the start of a run.            *)

Arrived == {m \in Messages : inbox[m] # "none"}

\* enroll, by the scan, an event or a member: the last activity of the
\* opportunity, which may be older than messages, becomes the baseline.
Enroll(c, b) ==
    /\ case[c].state = "none"
    /\ ~doNotContact
    /\ opportunity[c] # "closed"
    /\ b = 0 \/ b \in Arrived
    /\ case' = [case EXCEPT ![c].state = "monitoring", ![c].due = "later",
                            ![c].baseline = b]
    /\ UNCHANGED <<handoff, owner, dispatch, sent, worldVars, acts>>

\* enqueueRun answers a trigger key it knows with the run it has.
RunFor(row, inbound) ==
    IF /\ row.run.status # "none"
       /\ row.run.revision = row.revision
       /\ row.run.attempts = row.attempts
       /\ row.run.inbound = inbound
    THEN row.run
    ELSE [NoRun EXCEPT !.status = "running", !.revision = row.revision,
                       !.attempts = row.attempts, !.inbound = inbound, !.version = version]

Started(row, inbound) ==
    [row EXCEPT !.run = RunFor(row, inbound), !.pending = TRUE,
                !.state = IF inbound THEN "awaiting_classification" ELSE "working"]

\* Mutant: an expired claim is offered again.
OfferAgain(d) ==
    /\ dispatch[d].status = "dispatching"
    /\ dispatch[d].leaseOver
    /\ dispatch' = [dispatch EXCEPT ![d].status = "pending"]
    /\ UNCHANGED <<case, handoff, owner, sent, worldVars, acts>>

\* scanRecovery: a claim that ran out without a receipt is never offered again.
ScanExpired(d) ==
    /\ dispatch[d].status = "dispatching"
    /\ dispatch[d].leaseOver
    /\ LET c == dispatch[d].case IN
       /\ case' = [case EXCEPT ![c] = Paused(@, "handoff")]
       /\ dispatch' = [CancelPending({c}) EXCEPT ![d].status = "unknown"]
       /\ handoff' = HandoffEnsured({c})
    /\ UNCHANGED <<owner, sent, worldVars, acts>>

\* The cases a scan considers.  A "skipped" run is not among those that ended.
Considered(c) ==
    /\ enabled
    /\ case[c].state \in {"monitoring", "working"}
    /\ case[c].due = "now"
    /\ case[c].pending => case[c].run.status \in {"completed", "stopped"}
    /\ UnresolvedOf(c) = {}

\* startCase: the last run failed, was stopped or ended without a dispatch.
RunLeftNothing(c) ==
    /\ case[c].pending
    /\ case[c].run.status = "stopped" \/ case[c].run.decision # "sent"

\* The objection to a follow-up that nobody has queued yet.
FollowUpGuard(c) == MessageGuard(c, FALSE, FALSE, DOMAIN dispatch)

ScanHandsOff(c) ==
    /\ Considered(c)
    /\ RunLeftNothing(c) \/ FollowUpGuard(c) = "blocked"
    /\ PauseForReview({c}, "handoff")
    /\ UNCHANGED <<owner, sent, worldVars, acts>>

ScanEnds(c) ==
    /\ Considered(c)
    /\ ~RunLeftNothing(c)
    /\ \/ FollowUpGuard(c) = "ineligible" /\ doNotContact /\ Pause({c}, "opted_out")
       \/ FollowUpGuard(c) = "ineligible" /\ ~doNotContact /\ Pause({c}, "ineligible")
       \/ FollowUpGuard(c) = "attempt_limit" /\ Pause({c}, "exhausted")
    /\ UNCHANGED <<owner, sent, worldVars, acts>>

ScanStarts(c) ==
    /\ Considered(c)
    /\ ~RunLeftNothing(c)
    /\ FollowUpGuard(c) = "ok"
    /\ case' = [case EXCEPT ![c] = Started(@, FALSE)]
    /\ UNCHANGED <<handoff, owner, dispatch, sent, worldVars, acts>>

DueArrives(c) ==
    /\ case[c].due = "later"
    /\ case' = [case EXCEPT ![c].due = "now"]
    /\ UNCHANGED <<handoff, owner, dispatch, sent, worldVars, acts>>

------------------------------------------------------------------------------
(* The agent's run, as far as recovery sees it, and tools.ts.               *)

\* A deadline, a failure, a rejection, an expired approval, an administrator.
RunStops(c) ==
    /\ case[c].run.status \in Active
    /\ case' = [case EXCEPT ![c].run.status = "stopped"]
    /\ UNCHANGED <<handoff, owner, dispatch, sent, worldVars, acts>>

\* The runtime finds the subject no longer eligible.
RunSkips(c) ==
    /\ case[c].run.status = "running"
    /\ opportunity[c] = "closed"
    /\ case' = [case EXCEPT ![c].run.status = "skipped"]
    /\ UNCHANGED <<handoff, owner, dispatch, sent, worldVars, acts>>

RunCompletes(c) ==
    /\ case[c].run.status = "running"
    /\ case[c].run.decision \in {"stop", "sent"}
    /\ case' = [case EXCEPT ![c].run.status = "completed"]
    /\ UNCHANGED <<handoff, owner, dispatch, sent, worldVars, acts>>

\* runCase: the run still speaks for its case.
Speaks(c) ==
    /\ enabled
    /\ case[c].pending
    /\ case[c].run.revision = case[c].revision
    /\ case[c].run.version = version

Undecided(c) ==
    /\ case[c].run.status = "running"
    /\ case[c].run.decision = "none"
    /\ Speaks(c)

\* record_recovery_decision for a follow-up: a message, or nothing to say.
DecideToSend(c) ==
    /\ Undecided(c) /\ ~case[c].run.inbound
    /\ case' = [case EXCEPT ![c].run.decision = "send"]
    /\ UNCHANGED <<handoff, owner, dispatch, sent, worldVars, acts>>

DecideToStop(c) ==
    /\ Undecided(c) /\ ~case[c].run.inbound
    /\ case' = [case EXCEPT ![c].run.decision = "stop", ![c].state = "handoff",
                            ![c].due = "none"]
    /\ handoff' = HandoffEnsured({c})
    /\ UNCHANGED <<owner, dispatch, sent, worldVars, acts>>

\* record_recovery_decision for a reply: the model may find an opt-out too.
Classify(c, s) ==
    /\ Undecided(c) /\ case[c].run.inbound
    /\ case' = [case EXCEPT ![c].run.decision = "stop", ![c].state = s, ![c].due = "none"]
    /\ handoff' = HandoffEnsured({c})
    /\ doNotContact' = (doNotContact \/ s = "opted_out")
    /\ UNCHANGED <<owner, dispatch, sent, enabled, version, clear, open, opportunity,
                   quiet, inbox, events, acts>>

\* send_recovery_message always waits for a member.
ProposeMessage(c) ==
    /\ case[c].run.status = "running"
    /\ case[c].run.decision = "send"
    /\ Speaks(c)
    /\ FollowUpGuard(c) = "ok"
    /\ case' = [case EXCEPT ![c].run.status = "waiting_approval"]
    /\ UNCHANGED <<handoff, owner, dispatch, sent, worldVars, acts>>

NewDispatch(c, actor) ==
    [status |-> "pending", case |-> c, actor |-> actor, revision |-> case[c].revision,
     version |-> version, transports |-> 0, leaseOver |-> FALSE,
     receipt |-> FALSE]

Queue(d, row) ==
    /\ d \in Dispatches \ DOMAIN dispatch
    /\ dispatch' = [x \in DOMAIN dispatch \cup {d} |-> IF x = d THEN row ELSE dispatch[x]]

\* decideApproval with executeRecoveryTool, in one transaction.
Approve(c, d) ==
    /\ case[c].run.status = "waiting_approval"
    /\ Speaks(c)
    /\ FollowUpGuard(c) = "ok"
    /\ Queue(d, NewDispatch(c, Agent))
    /\ case' = [case EXCEPT ![c].run.status = "running", ![c].run.decision = "sent"]
    /\ UNCHANGED <<handoff, owner, sent, worldVars, acts>>

------------------------------------------------------------------------------
(* delivery.ts: the external adapter's claims and receipts.                 *)

Human(d) == dispatch[d].actor # Agent
Authority(d) ==
    Human(d) => /\ handoff[dispatch[d].case] = "owned"
                /\ owner[dispatch[d].case] = dispatch[d].actor

Objection(d) ==
    LET x == dispatch[d]
        guard == MessageGuard(x.case, Human(d), x.transports > 0, DOMAIN dispatch \ {d}) IN
    IF x.version # version \/ x.revision # case[x.case].revision THEN "changed"
    ELSE IF guard = "ok" /\ ~Authority(d) THEN "authority"
    ELSE guard

\* availableAt only delays a claim: time is not kept.
Claimable(d) == dispatch[d].status = "pending"

\* Outside the working hours the dispatch stays; any other objection ends it.
ClaimBlocked(d) ==
    /\ Claimable(d)
    /\ Objection(d) \notin {"ok", "outside_operating_hours"}
    /\ dispatch' = [dispatch EXCEPT ![d].status = "cancelled"]
    /\ UNCHANGED <<case, handoff, owner, sent, worldVars, acts>>

\* A message counts once against the attempts, however often it is claimed.
FirstClaim(d) == ~Human(d) /\ dispatch[d].transports = 0

Claim(d) ==
    /\ Claimable(d)
    /\ Objection(d) = "ok"
    /\ dispatch[d].transports < MaxTransports
    /\ dispatch' = [dispatch EXCEPT ![d].status = "dispatching", ![d].leaseOver = FALSE,
                                    ![d].transports = @ + 1, ![d].receipt = FALSE]
    /\ case' = [case EXCEPT ![dispatch[d].case].attempts =
                                IF FirstClaim(d) THEN @ + 1 ELSE @]
    /\ UNCHANGED <<handoff, owner, sent, worldVars, acts>>

LeaseEnds(d) ==
    /\ dispatch[d].status = "dispatching"
    /\ ~dispatch[d].leaseOver
    /\ dispatch' = [dispatch EXCEPT ![d].leaseOver = TRUE]
    /\ UNCHANGED <<case, handoff, owner, sent, worldVars, acts>>

\* The adapter keeps to its protocol: it sends before the claim expires.
AdapterSends(d) ==
    /\ dispatch[d].status = "dispatching"
    /\ ~dispatch[d].leaseOver
    /\ sent' = [sent EXCEPT ![d] = @ \cup {dispatch[d].transports}]
    /\ UNCHANGED <<rowVars, worldVars, acts>>

\* The receipt of the current claim (an older token is refused).  The adapter
\* is honest: it confirms what it sent and denies what it did not.
Accepted(d, s) ==
    LET x == dispatch[d] IN
    /\ x.status \in {"dispatching", "unknown"}
    /\ x.receipt => x.status = "unknown" /\ s # "unknown"
    /\ s = "delivered" => x.transports \in sent[d]
    /\ s = "not_sent" => x.transports \notin sent[d]

Receipted(d, s) ==
    [CancelPending({}) EXCEPT ![d].status = s, ![d].receipt = TRUE]

\* Until the case is live at the revision of the message nothing resumes.
AfterDelivery(row, d) ==
    IF ~Human(d) /\ row.state \in {"working", "monitoring"} /\ row.revision = dispatch[d].revision
    THEN [row EXCEPT !.pending = FALSE,
                     !.state = IF row.attempts >= MaximumAttempts THEN "exhausted" ELSE "monitoring",
                     !.due = IF row.attempts >= MaximumAttempts THEN "none" ELSE "later"]
    ELSE row

\* A person's message is projected into the CRM as that person's; with
\* communications on its message row exists already.
ReceiptDelivered(d) ==
    LET x == dispatch[d]
        projected == Human(d) /\ ~Communications IN
    /\ Accepted(d, "delivered")
    /\ dispatch' = Receipted(d, "delivered")
    /\ case' = [case EXCEPT ![x.case] = AfterDelivery(@, d)]
    /\ quiet' = [c \in Cases |-> quiet[c] \/ projected]
    /\ events' = events \cup (IF projected THEN {Outbound} ELSE {})
    /\ UNCHANGED <<handoff, owner, sent, enabled, version, doNotContact, clear, open,
                   opportunity, inbox, acts>>

ReceiptNotSent(d) ==
    /\ Accepted(d, "not_sent")
    /\ dispatch[d].transports < MaxTransports
    /\ dispatch' = Receipted(d, "pending")
    /\ UNCHANGED <<case, handoff, owner, sent, worldVars, acts>>

\* Unknown, or not sent for the last time: a person has to look.
ReceiptForReview(d) ==
    LET c == dispatch[d].case IN
    /\ \/ /\ Accepted(d, "unknown")
          /\ dispatch' = [CancelPending({c}) EXCEPT ![d] = Receipted(d, "unknown")[d]]
       \/ /\ Accepted(d, "not_sent")
          /\ dispatch[d].transports = MaxTransports
          /\ dispatch' = [CancelPending({c}) EXCEPT ![d] = Receipted(d, "failed")[d]]
    /\ case' = [case EXCEPT ![c] = Paused(@, "handoff")]
    /\ handoff' = HandoffEnsured({c})
    /\ UNCHANGED <<owner, sent, worldVars, acts>>

------------------------------------------------------------------------------
(* handoffs.ts: members act on the handoff at the revision they saw; a      *)
(* request with an older one is refused and changes nothing.                *)

Act == acts < MaxActs /\ acts' = acts + 1

\* The person gets every live case of the contact: the others are paused too.
TakeOver(c, m) ==
    /\ Act
    /\ handoff[c] # "none"
    /\ LET others == LiveCases \ {c} IN
       /\ case' = [x \in Cases |-> IF x = c THEN Paused(case[x], "human_owned")
                                   ELSE IF x \in others THEN Paused(case[x], "handoff")
                                   ELSE case[x]]
       /\ dispatch' = CancelPending(others \cup {c})
       /\ handoff' = [HandoffEnsured(others) EXCEPT ![c] = "owned"]
    /\ owner' = [owner EXCEPT ![c] = m]
    /\ quiet' = [quiet EXCEPT ![c] = TRUE]
    /\ UNCHANGED <<sent, enabled, version, doNotContact, clear, open, opportunity,
                   inbox, events>>

Respond(c, m, d) ==
    /\ Act
    /\ handoff[c] = "owned" /\ owner[c] = m
    /\ MessageGuard(c, TRUE, FALSE, DOMAIN dispatch) = "ok"
    /\ Queue(d, NewDispatch(c, m))
    /\ quiet' = [quiet EXCEPT ![c] = TRUE]
    /\ UNCHANGED <<case, handoff, owner, sent, enabled, version, doNotContact, clear,
                   open, opportunity, inbox, events>>

\* Mutant: a case is given back while the outcome of a message is unknown.
ReturnUnresolved(c) ==
    /\ Act
    /\ handoff[c] # "none"
    /\ Base(c) = "ok"
    /\ case[c].attempts < MaximumAttempts
    /\ case' = [case EXCEPT ![c].state = "monitoring", ![c].revision = @ + 1,
                            ![c].pending = FALSE, ![c].due = "later"]
    /\ handoff' = [handoff EXCEPT ![c] = "returned"]
    /\ UNCHANGED <<owner, dispatch, sent, worldVars>>

ReturnToAI(c) ==
    /\ Act
    /\ handoff[c] # "none"
    /\ Base(c) = "ok"
    /\ case[c].attempts < MaximumAttempts
    /\ UnresolvedOf(c) = {}
    /\ case' = [case EXCEPT ![c].state = "monitoring", ![c].revision = @ + 1,
                            ![c].pending = FALSE, ![c].due = "later"]
    /\ handoff' = [handoff EXCEPT ![c] = "returned"]
    /\ UNCHANGED <<owner, dispatch, sent, worldVars>>

Close(c) ==
    /\ Act
    /\ handoff[c] # "none"
    /\ case' = [case EXCEPT ![c] = Paused(@, "closed")]
    /\ dispatch' = CancelPending({c})
    /\ handoff' = [handoff EXCEPT ![c] = "closed"]
    /\ UNCHANGED <<owner, sent, worldVars>>

------------------------------------------------------------------------------
(* events.ts: the handler of an event, some time after the fact.            *)

\* A message row and its event commit together; captureMessage suppresses the
\* contact in that same transaction, when communications are enabled.
MessageArrives(m, kind) ==
    /\ inbox[m] = "none"
    /\ \A n \in Messages : n < m => n \in Arrived
    /\ inbox' = [inbox EXCEPT ![m] = kind]
    /\ events' = events \cup {Inbound(m)}
    /\ doNotContact' = (doNotContact \/ (Communications /\ kind = "stop"))
    /\ UNCHANGED <<rowVars, sent, enabled, version, clear, open, opportunity, quiet,
                   acts>>

StateAfterReply(row, kind) ==
    IF kind = "stop" THEN "opted_out"
    ELSE IF row.state = "human_owned" THEN "human_owned"
    ELSE IF kind = "sensitive" THEN "handoff"
    ELSE "awaiting_classification"

\* The row of case c after message m: paused, and for a reply nobody else has
\* in hand a run that classifies it, unless the daily limit refuses one.
AfterReply(c, m, admitted) ==
    LET paused == [Paused(case[c], StateAfterReply(case[c], inbox[m]))
                      EXCEPT !.latest = m, !.pending = FALSE]
        classify == enabled /\ inbox[m] = "reply" /\ case[c].state # "human_owned" IN
    IF ~classify THEN paused
    ELSE IF Base(c) = "opt_out" THEN Paused(paused, "opted_out")
    ELSE IF Base(c) # "ok" THEN Paused(paused, "ineligible")
    ELSE IF admitted THEN Started(paused, TRUE) ELSE paused

HandleMessage(m, admitted) ==
    LET told == {c \in Enrolled : case[c].latest # m} IN
    /\ Inbound(m) \in events
    /\ events' = events \ {Inbound(m)}
    /\ doNotContact' = (doNotContact \/ inbox[m] = "stop")
    /\ case' = [c \in Cases |-> IF c \in told THEN AfterReply(c, m, admitted) ELSE case[c]]
    /\ dispatch' = CancelPending(told)
    /\ handoff' = HandoffEnsured(told)
    /\ UNCHANGED <<owner, sent, enabled, version, clear, open, opportunity, quiet,
                   inbox, acts>>

\* An employee's message: whoever follows up, it is no longer the agent.
HandleOutbound ==
    /\ Outbound \in events
    /\ events' = events \ {Outbound}
    /\ PauseForReview(LiveCases, "handoff")
    /\ quiet' = [c \in Cases |-> quiet[c] \/ c \in LiveCases]
    /\ UNCHANGED <<owner, sent, enabled, version, doNotContact, clear, open,
                   opportunity, inbox, acts>>

HandleContact ==
    /\ ContactUpdated \in events
    /\ events' = events \ {ContactUpdated}
    /\ Pause(IF doNotContact THEN Enrolled ELSE {}, "opted_out")
    /\ UNCHANGED <<owner, sent, enabled, version, doNotContact, clear, open,
                   opportunity, quiet, inbox, acts>>

HandleOpportunity(c, became) ==
    /\ Changed(c, became) \in events
    /\ events' = events \ {Changed(c, became)}
    /\ Pause(IF c \in Enrolled /\ (Base(c) # "ok" \/ became = "booked") THEN {c} ELSE {},
             "ineligible")
    /\ UNCHANGED <<owner, sent, enabled, version, doNotContact, clear, open,
                   opportunity, quiet, inbox, acts>>

------------------------------------------------------------------------------
(* The surroundings: members, the CRM and time.                             *)

EmployeeWrites ==
    /\ Act
    /\ events' = events \cup {Outbound}
    /\ quiet' = [c \in Cases |-> TRUE]
    /\ UNCHANGED <<rowVars, sent, enabled, version, doNotContact, clear, open,
                   opportunity, inbox>>

EmployeeEdits(c) ==
    /\ Act
    /\ quiet' = [quiet EXCEPT ![c] = TRUE]
    /\ UNCHANGED <<rowVars, sent, enabled, version, doNotContact, clear, open,
                   opportunity, inbox, events>>

QuietEnds(c) ==
    /\ quiet[c]
    /\ quiet' = [quiet EXCEPT ![c] = FALSE]
    /\ UNCHANGED <<rowVars, sent, enabled, version, doNotContact, clear, open,
                   opportunity, inbox, events, acts>>

MemberOptsOut ==
    /\ Act
    /\ doNotContact' = TRUE
    /\ events' = events \cup {ContactUpdated}
    /\ UNCHANGED <<rowVars, sent, enabled, version, clear, open, opportunity, quiet,
                   inbox>>

OpportunityChanges(c, became) ==
    /\ Act
    /\ became # opportunity[c]
    /\ opportunity' = [opportunity EXCEPT ![c] = became]
    /\ events' = events \cup {Changed(c, became)}
    /\ UNCHANGED <<rowVars, sent, enabled, version, doNotContact, clear, open, quiet,
                   inbox>>

\* A consent is revoked or given, a destination edited, the hours begin or end.
ConditionsChange ==
    /\ Act
    /\ \/ clear' = ~clear /\ UNCHANGED open
       \/ open' = ~open /\ UNCHANGED clear
    /\ UNCHANGED <<rowVars, sent, enabled, version, doNotContact, opportunity, quiet,
                   inbox, events>>

\* service.ts configure: a new version, and every live case is reviewed first.
Configure ==
    /\ Act
    /\ version' = version + 1
    /\ enabled' = FALSE
    /\ PauseForReview(LiveCases, "handoff")
    /\ UNCHANGED <<owner, sent, doNotContact, clear, open, opportunity, quiet, inbox,
                   events>>

Enable(value) ==
    /\ Act
    /\ enabled # value
    /\ enabled' = value
    /\ UNCHANGED <<rowVars, sent, version, doNotContact, clear, open, opportunity,
                   quiet, inbox, events>>

------------------------------------------------------------------------------
Scan ==
    \/ \E d \in DOMAIN dispatch : ScanExpired(d)
    \/ \E c \in Cases : ScanHandsOff(c) \/ ScanEnds(c) \/ ScanStarts(c)

Run(c) ==
    \/ RunStops(c) \/ RunSkips(c) \/ RunCompletes(c)
    \/ DecideToSend(c) \/ DecideToStop(c) \/ ProposeMessage(c)
    \/ \E s \in {"opted_out", "declined", "handoff"} : Classify(c, s)
    \/ \E d \in Dispatches : Approve(c, d)

Adapter(d) ==
    \/ ClaimBlocked(d) \/ Claim(d) \/ AdapterSends(d)
    \/ ReceiptDelivered(d) \/ ReceiptNotSent(d) \/ ReceiptForReview(d)

HandoffAct ==
    \E c \in Cases :
        \/ ReturnToAI(c) \/ Close(c)
        \/ \E m \in Members : TakeOver(c, m)
        \/ \E m \in Members, d \in Dispatches : Respond(c, m, d)

Handle ==
    \/ \E m \in Messages, admitted \in BOOLEAN : HandleMessage(m, admitted)
    \/ HandleOutbound
    \/ HandleContact
    \/ \E c \in Cases, s \in {"open", "booked", "closed"} : HandleOpportunity(c, s)

World ==
    \/ \E m \in Messages, kind \in Kinds : MessageArrives(m, kind)
    \/ EmployeeWrites \/ MemberOptsOut \/ ConditionsChange \/ Configure
    \/ \E value \in BOOLEAN : Enable(value)
    \/ \E c \in Cases :
          \/ EmployeeEdits(c) \/ QuietEnds(c) \/ DueArrives(c)
          \/ \E b \in Messages \cup {0} : Enroll(c, b)
          \/ \E s \in {"open", "booked", "closed"} : OpportunityChanges(c, s)

Next ==
    \/ Scan
    \/ \E c \in Cases : Run(c)
    \/ \E d \in DOMAIN dispatch : Adapter(d) \/ LeaseEnds(d)
    \/ HandoffAct
    \/ Handle
    \/ World

Spec == Init /\ [][Next]_vars

------------------------------------------------------------------------------
(* Properties.                                                              *)

\* However scans, approvals, members and receipts interleave, at most one
\* message to the contact is on its way or unaccounted for, over all cases.
OneUnresolvedPerContact ==
    \A d, e \in DOMAIN dispatch :
        (dispatch[d].status \in Unresolved /\ dispatch[e].status \in Unresolved) => d = e

\* The attempts of a case are the agent's messages that ever left for the
\* adapter: retries, returns and takeovers neither lose nor double one, and
\* there are never more than the limit.
AttemptsAreMessages ==
    \A c \in Cases :
        /\ case[c].attempts = Cardinality({d \in DOMAIN dispatch :
              dispatch[d].case = c /\ ~Human(d) /\ dispatch[d].transports > 0})
        /\ case[c].attempts <= MaximumAttempts

\* With an honest adapter no message is sent under two claims, a delivered one
\* was sent, and one that waits, was cancelled or failed was never sent: lost
\* receipts and expired claims do not lead to a second copy, nor to a message
\* that is counted twice or not at all.
DispatchIsEvidence ==
    /\ \A d \in DOMAIN dispatch :
        /\ Cardinality(sent[d]) <= 1
        /\ dispatch[d].status = "delivered" => sent[d] # {}
        /\ dispatch[d].status \in {"pending", "cancelled", "failed"} => sent[d] = {}
    /\ AttemptsAreMessages

\* The case and the handoff agree, along all paths: automation runs only where
\* no handoff is open, and a case that waits for a person is on somebody's list.
HandoffMatchesCase ==
    \A c \in Cases :
        /\ case[c].state \in {"monitoring", "working"} => handoff[c] \in {"none", "returned"}
        /\ case[c].state \in {"handoff", "awaiting_classification"} =>
              handoff[c] \in {"open", "owned"}
        /\ case[c].state = "human_owned" => handoff[c] = "owned"
        /\ case[c].state = "closed" => handoff[c] = "closed"

\* docs/REVENUE_RECOVERY.md: "Unknown outcomes and expired unacknowledged leases
\* freeze the case": no event, member or late receipt puts it back to work.
UnknownFreezes ==
    \A d \in DOMAIN dispatch :
        dispatch[d].status = "unknown" =>
            case[dispatch[d].case].state \notin {"monitoring", "working"}

\* Nothing is handed to the adapter when an opt-out was handled, or when one
\* arrived after everything the case has seen, whether it was handled or not.
StopIsHeeded ==
    [][\A d \in DOMAIN dispatch :
          (dispatch[d].status = "pending" /\ dispatch'[d].status = "dispatching") =>
              LET row == case[dispatch[d].case] IN
              /\ ~doNotContact
              /\ \A m \in Messages :
                    inbox[m] = "stop" => m <= row.latest \/ m <= row.baseline]_vars

\* lifecycle.ts: "Employee-written dispatches must not overtake an unprocessed
\* STOP either."  A message handled out of order hides an older STOP.
StopNotOvertaken ==
    [][\A d \in DOMAIN dispatch :
          (Human(d) /\ dispatch[d].status = "pending" /\ dispatch'[d].status = "dispatching") =>
              \A m \in Messages : Inbound(m) \in events => inbox[m] # "stop"]_vars
==============================================================================
