-------------------------------- MODULE MCDesk --------------------------------
(***************************************************************************)
(* What people decide and the system carries out: bookings, blueprints and *)
(* agents, business knowledge, members and credentials, texts to an        *)
(* organization.  A behaviour runs one of them and leaves the others in    *)
(* their initial state: the models share no variable.                      *)
(***************************************************************************)
EXTENDS Bookings, AgentBuilder, Knowledge, Tenancy, Inbound, TLC

CONSTANT Desks   \* the parts that run

VARIABLE desk

businessVars == <<bookingVars, builderVars, knowledgeVars>>
peopleVars == <<tenancyVars, inboundVars>>
deskVars == <<desk, businessVars, peopleVars>>

\* A part that does not run has one initial state.
DeskInit ==
  /\ BookingsInit /\ BuilderInit /\ KnowledgeInit
  /\ TenancyInit /\ InboundInit
  /\ desk \in Desks
  /\ desk # "bookings" => [agenda |-> agenda, wanted |-> wanted, linked |-> linked, queued |-> queued,
                            dryRun |-> dryRun]
                            = CHOOSE s \in Scenarios : TRUE
  /\ desk # "builder" => models = CHOOSE m \in Allowlists : TRUE

BusinessNext ==
  \/ desk = "bookings" /\ BookingsNext /\ UNCHANGED <<builderVars, knowledgeVars>>
  \/ desk = "builder" /\ BuilderNext /\ UNCHANGED <<bookingVars, knowledgeVars>>
  \/ desk = "knowledge" /\ KnowledgeNext /\ UNCHANGED <<bookingVars, builderVars>>

PeopleNext ==
  \/ desk = "tenancy" /\ TenancyNext /\ UNCHANGED inboundVars
  \/ desk = "inbound" /\ InboundNext /\ UNCHANGED tenancyVars

DeskNext ==
  \/ BusinessNext /\ UNCHANGED <<desk, peopleVars>>
  \/ PeopleNext /\ UNCHANGED <<desk, businessVars>>

DeskSpec == DeskInit /\ [][DeskNext]_deskVars

-----------------------------------------------------------------------------
\* Texts that stop and start, missed and answered calls, a chat.
On(kind, id) == [kind |-> kind, id |-> id]
OccasionSet ==
  {On("sms", "text"), On("sms", "stop"), On("sms", "halt"), On("sms", "start"), On("missed", "call"),
   On("call", "call"), On("chat", "call"), On("call", "transferred")}
Words == [i \in Ids |-> i]
Transfers == [i \in Ids |-> IF i = "transferred" THEN "failed" ELSE "none"]
Scenario(a, w, l, q) == [agenda |-> a, wanted |-> w, linked |-> l, queued |-> q, dryRun |-> FALSE]
ScenarioSet ==
  {Scenario({On("sms", "stop"), On("sms", "start")}, {}, TRUE, TRUE),
   Scenario({On("sms", "stop"), On("sms", "start")}, {}, FALSE, FALSE),
   Scenario({On("sms", "stop"), On("sms", "text")}, {"booking_follow_up"}, TRUE, FALSE),
   Scenario({On("sms", "stop"), On("missed", "call")}, {"missed_call"}, TRUE, FALSE),
   Scenario({On("call", "call")}, {"booking_follow_up", "unbooked_call"}, FALSE, FALSE),
   Scenario({On("call", "call")}, {}, TRUE, FALSE),
   Scenario({On("call", "transferred")}, {"booking_success", "transfer_failure"}, TRUE, FALSE),
   Scenario({On("sms", "halt"), On("sms", "start")}, {}, TRUE, FALSE),
   Scenario({On("chat", "call")}, {"booking_success"}, FALSE, FALSE),
   [Scenario({On("chat", "call")}, {"booking_success"}, FALSE, FALSE) EXCEPT !.dryRun = TRUE]}

\* A blueprint that compiles, and one with two conditions on the status.
Condition(f, o, v, n, vs) == [field |-> f, operator |-> o, value |-> v, number |-> n, values |-> vs]
Draft ==
  [given |-> Texts, entityTypes |-> {"opportunity"}, model |-> "m", delay |-> 0, repeats |-> "no",
   interval |-> FALSE, attempts |-> 2, allowed |-> {"get_opportunity", "create_task", "add_note"},
   automatic |-> {"create_task"}, prohibited |-> {"update_opportunity"}, channels |-> {},
   conditions |-> {Condition("status", "in", "none", -1, {"open"}),
                   Condition("inactive_days", "gte", "none", 7, {})},
   escalations |-> {}, stops |-> {"action_limit"}, goal |-> "task_created", hours |-> "given",
   knowledge |-> "none", open |-> FALSE, currency |-> "none", mode |-> "AUTOPILOT",
   review |-> "sensitive_only"]
ProposalSet ==
  {Draft, [Draft EXCEPT !.conditions = {Condition("status", "eq", "open", -1, {}),
                                        Condition("status", "in", "none", -1, {"lost"})}]}
SuggestionSet == {Draft}

ProvenanceOf == [e \in Entries |-> [source |-> "s", documents |-> {"d"}]]
SourceOfDocs == [d \in Documents |-> "s"]

\* Two customers with one number, one contact that does not exist yet.
PersonSet == {"ann", "ben", "fresh"}
FirstNumbers == [c \in PersonSet |-> IF c = "fresh" THEN "new" ELSE "n1"]
TextSet == {"stop"}
SenderMap == [t \in TextSet |-> "n1"]
StopMap == [t \in TextSet |-> TRUE]
=============================================================================
