------------------------------- MODULE Workforce -------------------------------
(***************************************************************************)
(* The first recovery agents: workforce/agents/runtime.ts and config.ts,   *)
(* policy/engine.ts, tools/registry.ts, approvals/service.ts and           *)
(* revenue/service.ts, with the routes that create and configure them.     *)
(*                                                                         *)
(* An event makes every enabled agent look for deals of one customer that  *)
(* nobody attends to, and propose one handoff for each; a member decides,  *)
(* days later perhaps, and records the payments that followed.  In between *)
(* members, imports and opt-outs change the deals, the customer and the    *)
(* agents.  Each operation is a transaction under the organization's lock; *)
(* the job queue hands an event to evaluateEvent once (EventJobs).  Time   *)
(* is a clock whose ticks several operations may share.                    *)
(***************************************************************************)
EXTENDS Integers, FiniteSets, Sequences

CONSTANTS
  Helpers,        \* revenue recovery agents, in the order of their creation
  Deals,          \* opportunities of the customer: numbers, in the order of their ids
  Happenings,     \* events that reach the recovery handler
  Payments,       \* external payment ids
  StaleAfter,     \* config.staleAfterDays
  MaxCandidates,  \* config.maxCandidates
  JobBudget,      \* proposals of one event, by all agents
  ReviewTime,     \* days until an approval expires
  LastDay,        \* a bound on the clock
  MaxTouches      \* a bound on what is written to agents, deals and the customer

AllHelpers == {Helpers[i] : i \in DOMAIN Helpers}

ASSUME WorkforceAssumption ==
  /\ Helpers \in Seq(AllHelpers)
  /\ Deals \subseteq Nat /\ IsFiniteSet(Deals) /\ StaleAfter \in Nat /\ ReviewTime \in Nat
  /\ MaxCandidates \in Nat \ {0} /\ JobBudget \in Nat

VARIABLES
  day,
  helper,     \* [enabled, version] of each agent, version 0 before it is created
  deal,       \* [status, activity, updated, archived] of each opportunity
  client,     \* [doNotContact, updated, archived] of the customer
  evaluated,  \* events whose job is completed
  runs,       \* WorkforceRun rows: <<agent, event>>
  handoffs,   \* WorkforceAction rows, each with its approval
  revenue,    \* WorkforceRevenue by payment: the handoff and the day it was paid
  touches

workforceVars == <<day, helper, deal, client, evaluated, runs, handoffs, revenue, touches>>

Days == 0 .. LastDay
NoRevenue == [deal |-> -1, paidAt |-> -1]

WorkforceInit ==
  /\ day = 0
  /\ helper = [h \in AllHelpers |-> [enabled |-> FALSE, version |-> 0]]
  /\ deal = [d \in Deals |-> [status |-> "open", activity |-> -StaleAfter, updated |-> 0, archived |-> FALSE]]
  /\ client = [doNotContact |-> FALSE, updated |-> 0, archived |-> FALSE]
  /\ evaluated = {} /\ runs = {} /\ handoffs = {} /\ touches = 0
  /\ revenue = [p \in Payments |-> NoRevenue]

\* A handoff without an approval was blocked when it was proposed.
WorkforceTypeOK ==
  /\ day \in Days /\ evaluated \subseteq Happenings /\ runs \subseteq AllHelpers \X evaluated
  /\ \A a \in handoffs :
       /\ <<a.helper, a.event>> \in runs /\ a.deal \in Deals
       /\ a.status \in {"pending_approval", "completed", "blocked", "rejected"}
       /\ (a.status = "pending_approval") <=> (a.approval = "pending")
       /\ (a.status = "completed") <=> (a.approval = "approved")
  /\ \A p \in Payments : revenue[p] # NoRevenue => revenue[p].deal \in Deals

-----------------------------------------------------------------------------
(* What changes around a proposal.  disturbed is history: something a      *)
(* pending proposal rests on changed at a later time than it was made.     *)

Disturbs(changed, later) ==
  handoffs' = {[a EXCEPT !.disturbed =
                  @ \/ (a.approval = "pending" /\ changed[a] /\ (later => day > a.at))] : a \in handoffs}

DayBegins ==
  /\ day < LastDay /\ day' = day + 1
  /\ UNCHANGED <<helper, deal, client, evaluated, runs, handoffs, revenue, touches>>

CreateHelper(h) ==
  /\ helper[h].version = 0
  /\ \A i, j \in DOMAIN Helpers : i < j /\ Helpers[j] = h => helper[Helpers[i]].version > 0
  /\ helper' = [helper EXCEPT ![h].version = 1]
  /\ UNCHANGED <<day, deal, client, evaluated, runs, handoffs, revenue, touches>>

Touch == touches < MaxTouches /\ touches' = touches + 1

\* PATCH /agents/:id under the version the member saw: any setting is a new one.
ConfigureHelper(h, enabled) ==
  /\ Touch /\ helper[h].version > 0
  /\ helper' = [helper EXCEPT ![h] = [enabled |-> enabled, version |-> @.version + 1]]
  /\ Disturbs([a \in handoffs |-> a.helper = h], FALSE)
  /\ UNCHANGED <<day, deal, client, evaluated, runs, revenue>>

\* A member or an import writes the row; "open" stands for "estimate_sent" too.
DealChanges(d, status, activity) ==
  /\ Touch /\ ~deal[d].archived /\ activity <= day
  /\ deal' = [deal EXCEPT ![d] =
       [status |-> status, activity |-> activity, updated |-> day, archived |-> FALSE]]
  /\ Disturbs([a \in handoffs |-> a.deal = d], TRUE)
  /\ UNCHANGED <<day, helper, client, evaluated, runs, revenue>>

\* Neither a form nor an import takes doNotContact back.
ClientChanges(doNotContact) ==
  /\ Touch /\ ~client.archived /\ (client.doNotContact => doNotContact)
  /\ client' = [client EXCEPT !.doNotContact = doNotContact, !.updated = day]
  /\ Disturbs([a \in handoffs |-> TRUE], TRUE)
  /\ UNCHANGED <<day, helper, deal, evaluated, runs, revenue>>

\* Archiving writes the CrmRecord and leaves the row with its updatedAt alone.
ArchiveDeal(d) ==
  /\ ~deal[d].archived
  /\ deal' = [deal EXCEPT ![d].archived = TRUE]
  /\ Disturbs([a \in handoffs |-> a.deal = d], FALSE)
  /\ UNCHANGED <<day, helper, client, evaluated, runs, revenue, touches>>

ArchiveClient ==
  /\ ~client.archived /\ \A d \in Deals : deal[d].archived
  /\ client' = [client EXCEPT !.archived = TRUE]
  /\ Disturbs([a \in handoffs |-> TRUE], FALSE)
  /\ UNCHANGED <<day, helper, deal, evaluated, runs, revenue, touches>>

-----------------------------------------------------------------------------
(* evaluateEvent.                                                          *)

\* evaluatePolicy: a review is the most an agent can get.
Permitted(h, d) == helper[h].enabled /\ ~client.doNotContact /\ deal[d].status = "open"

Unattended(d) == deal[d].activity <= day - StaleAfter

\* One follow-up per deal, across all recovery agents.
Untouched(d, done) == \A a \in done : a.deal # d

Candidates(done) ==
  {d \in Deals : /\ deal[d].status = "open" /\ Unattended(d) /\ ~deal[d].archived
                 /\ ~client.doNotContact /\ ~client.archived
                 /\ Untouched(d, done)}

\* The longest unattended first.
Before(c, d) ==
  deal[c].activity < deal[d].activity \/ (deal[c].activity = deal[d].activity /\ c < d)
FirstOf(found, n) == {d \in found : Cardinality({c \in found : Before(c, d)}) < n}

Proposed(h, e, d) ==
  LET blocked == ~Permitted(h, d)
  IN [helper |-> h, event |-> e, deal |-> d, version |-> helper[h].version, at |-> day,
      status |-> IF blocked THEN "blocked" ELSE "pending_approval",
      approval |-> IF blocked THEN "none" ELSE "pending", doneAt |-> -1, disturbed |-> FALSE]

\* The turn of one agent: what was done before it, and what is left of the budget.
Looks(e, done, h) ==
  LET limit == IF MaxCandidates < done.budget THEN MaxCandidates ELSE done.budget
      chosen == FirstOf(Candidates(done.handoffs), limit)
  IN IF ~helper[h].enabled \/ <<h, e>> \in done.runs THEN done
     ELSE [handoffs |-> done.handoffs \union {Proposed(h, e, d) : d \in chosen},
           runs |-> done.runs \union {<<h, e>>},
           budget |-> done.budget - Cardinality(chosen)]

\* All of them, in the order of their creation.
AllLook(e) ==
  LET looked[i \in 0 .. Len(Helpers)] ==
        IF i = 0 THEN [handoffs |-> handoffs, runs |-> runs, budget |-> JobBudget]
        ELSE Looks(e, looked[i - 1], Helpers[i])
  IN looked[Len(Helpers)]

EvaluateEvent(e) ==
  LET done == AllLook(e)
  IN /\ e \notin evaluated /\ evaluated' = evaluated \union {e}
     /\ handoffs' = done.handoffs /\ runs' = done.runs
     /\ UNCHANGED <<day, helper, deal, client, revenue, touches>>

-----------------------------------------------------------------------------
(* decideApproval and recordRevenue.                                       *)

Late(a) == a.at + ReviewTime <= day

\* Mutant: what happened to the customer is left to the policy.
StaleButForClient(a) ==
  \/ helper[a.helper].version # a.version
  \/ ~Unattended(a.deal) \/ deal[a.deal].updated > a.at

Stale(a) ==
  \/ helper[a.helper].version # a.version
  \/ ~Unattended(a.deal)
  \/ deal[a.deal].updated > a.at \/ client.updated > a.at

Hindered(a) ==
  ~Permitted(a.helper, a.deal) \/ Stale(a) \/ deal[a.deal].archived \/ client.archived

DecideApproval(a, approve) ==
  /\ a.approval = "pending"
  /\ LET approved == approve /\ ~Late(a) /\ ~Hindered(a)
         decided ==
           [a EXCEPT !.doneAt = day,
                     !.approval = IF Late(a) THEN "expired"
                                  ELSE IF approved THEN "approved" ELSE "rejected",
                     !.status = IF approved THEN "completed"
                                ELSE IF Late(a) \/ Hindered(a) THEN "blocked" ELSE "rejected"]
     IN handoffs' = (handoffs \ {a}) \union {decided}
  /\ UNCHANGED <<day, helper, deal, client, evaluated, runs, revenue, touches>>

\* Evidence under a known payment id is the same evidence or a conflict.
RecordRevenue(p, a, paidAt) ==
  /\ revenue[p] = NoRevenue
  /\ a.status = "completed" /\ a.doneAt <= paidAt /\ paidAt <= day
  /\ deal[a.deal].status = "won"
  /\ revenue' = [revenue EXCEPT ![p] = [deal |-> a.deal, paidAt |-> paidAt]]
  /\ UNCHANGED <<day, helper, deal, client, evaluated, runs, handoffs, touches>>

Surroundings ==
  \/ DayBegins
  \/ \E h \in AllHelpers : CreateHelper(h) \/ \E enabled \in BOOLEAN : ConfigureHelper(h, enabled)
  \/ \E d \in Deals : ArchiveDeal(d)
       \/ \E status \in {"open", "won", "lost"}, activity \in Days : DealChanges(d, status, activity)
  \/ ArchiveClient \/ \E doNotContact \in BOOLEAN : ClientChanges(doNotContact)

WorkforceNext ==
  \/ Surroundings
  \/ \E e \in Happenings : EvaluateEvent(e)
  \/ \E a \in handoffs : \/ \E approve \in BOOLEAN : DecideApproval(a, approve)
                         \/ \E p \in Payments, paidAt \in Days : RecordRevenue(p, a, paidAt)

WorkforceSpec == WorkforceInit /\ [][WorkforceNext]_workforceVars

-----------------------------------------------------------------------------
(* What the review is for.                                                 *)

\* Agents, events and retries together propose a deal once.
OneFollowUp == \A a, b \in handoffs : a.deal = b.deal => a = b

WithinBudget == \A e \in Happenings : Cardinality({a \in handoffs : a.event = e}) <= JobBudget

\* An agent that was configured, a deal or customer that was written or
\* archived while the proposal waited keeps it from being carried out.
NothingMoved == \A a \in handoffs : a.status = "completed" => ~a.disturbed

\* A payment counts for a handoff that was made by the time it was paid.
PaidAfterwards ==
  \A p \in Payments : revenue[p] # NoRevenue =>
    \E a \in handoffs : /\ a.deal = revenue[p].deal /\ a.status = "completed"
                        /\ a.doneAt <= revenue[p].paidAt

\* Handoffs are proposed once for a deal, within the budget of the event, and
\* carried out only if nothing they rest on changed since; payments follow
\* them (workforce/agents/runtime.ts 24-108, approvals/service.ts 45-87).
HandoffsStand == OneFollowUp /\ WithinBudget /\ NothingMoved /\ PaidAfterwards
=============================================================================
