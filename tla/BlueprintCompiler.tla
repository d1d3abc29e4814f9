--------------------------- MODULE BlueprintCompiler ---------------------------
(***************************************************************************)
(* From a reviewed blueprint to the definition an agent runs:              *)
(* agent-builder/compiler.ts, and what the runtime makes of the definition *)
(* (agents/context.ts, policy.ts, tools.ts).                               *)
(*                                                                         *)
(* A blueprint says what the business wants; the runtime can do less.      *)
(* compile makes a definition only if no requirement is left; what the     *)
(* requirements say is not modelled, as nothing but a person reads it.     *)
(* Texts are abstracted to whether they are given (given), lists of pairs  *)
(* to sets, optional numbers to -1.                                        *)
(***************************************************************************)
EXTENDS Integers, FiniteSets, FiniteSetsExt

\* agents/tools.ts
Reads == {"get_business_knowledge", "get_contact", "get_opportunity", "get_estimate",
          "get_conversation"}
Internals == {"create_task", "add_note", "update_opportunity", "notify_employee",
              "schedule_followup"}
Externals == {"send_recovery_message", "send_message", "book_appointment"}
Controls == {"request_human_approval", "stop_agent_run"}
Observations == {"record_recovery_decision"}
Tools == Reads \union Internals \union Externals \union Controls \union Observations
Unavailable == {"send_message", "book_appointment"}

Texts == {"name", "objective", "businessContext", "communicationStyle", "triggerEvent", "mode",
          "humanApprovalMode", "runtimeModel"}

\* A blueprint as parseBlueprint accepts it; its lists are short.
Conditions == [field : STRING, operator : STRING, value : STRING, number : Int,
               values : SUBSET STRING]
Escalations == [condition : STRING, route : STRING, member : STRING]
AgentBlueprints ==
  [given : SUBSET Texts, entityTypes : SUBSET STRING, model : STRING, delay : Int,
   repeats : STRING, interval : BOOLEAN, attempts : Int, allowed : SUBSET STRING,
   automatic : SUBSET STRING, prohibited : SUBSET STRING, channels : SUBSET STRING,
   conditions : SUBSET Conditions, escalations : SUBSET Escalations, stops : SUBSET STRING,
   goal : STRING, hours : STRING, knowledge : {"none", "unreviewed", "reviewed", "too_long"},
   open : BOOLEAN, currency : STRING, mode : STRING, review : STRING]
IsBlueprint(b) == b \in AgentBlueprints /\ IsFiniteSet(b.conditions)

-----------------------------------------------------------------------------
\* What compile requires of a blueprint, by the sections of its requirements.

FieldsGiven(b, models) ==
  /\ Texts \subseteq b.given /\ b.entityTypes # {} /\ b.allowed # {}
  /\ "runtimeModel" \in b.given => b.model \in models

\* At once, never again, and so many attempts.
CadenceSupported(b) ==
  b.delay = 0 /\ b.repeats = "no" /\ ~b.interval /\ b.attempts # -1

ActionsSupported(b) ==
  b.allowed \subseteq Tools \ (Unavailable \union b.prohibited
    \union {"record_recovery_decision", "send_recovery_message", "schedule_followup"})

\* A prohibition that is not of a tool would only be prompt text.
ProhibitionsSupported(b) == b.prohibited \subseteq Tools

AutomaticSupported(b) == \A a \in b.automatic : a \in b.allowed /\ b.mode = "AUTOPILOT"

ChannelsSupported(b) ==
  b.channels \subseteq {"sms", "email"} /\ ("send_message" \in b.allowed => b.channels # {})

\* A condition: a field, an operator, one value, a number, a list of values.
OfStatus(c) == c.field = "status" /\ c.operator \in {"eq", "in"}
OneStatus(c) ==
  c.field = "status" /\ c.operator = "eq" /\ c.value # "none" /\ c.number = -1 /\ c.values = {}
SomeStatus(c) ==
  c.field = "status" /\ c.operator = "in" /\ c.values # {} /\ c.value = "none" /\ c.number = -1
Inactive(b, c) ==
  /\ c.field = "inactive_days" /\ c.operator = "gte"
  /\ c.number \in 0 .. 365 /\ c.value = "none" /\ c.values = {}
  /\ b.entityTypes = {"opportunity"}

\* Several conditions on the status cannot be weakened to OR.
NoConjunction(b) == Cardinality({c \in b.conditions : c.field = "status"}) <= 1

ConditionsSupported(b) ==
  /\ \A c \in b.conditions :
       /\ IF OfStatus(c) THEN OneStatus(c) \/ SomeStatus(c) ELSE Inactive(b, c)
       /\ c.field = "amount_minor" => b.currency # "none"
  /\ NoConjunction(b)

EscalationSupported(b) ==
  \A r \in b.escalations :
    /\ r.condition \in {"policy_denied", "customer_suppressed", "model_error"}
    /\ r.route = "review_queue" /\ r.member = "none"

StopsSupported(b) == b.stops = {"action_limit"}

GoalTool == [task_created |-> "create_task", note_added |-> "add_note",
             opportunity_updated |-> "update_opportunity"]

GoalSupported(b) ==
  /\ b.goal \in (DOMAIN GoalTool) \union {"recommendation"}
  /\ b.goal \in DOMAIN GoalTool => GoalTool[b.goal] \in b.allowed
  /\ b.mode = "ADVISORY" => b.goal = "recommendation"

RestGiven(b) == b.hours = "given" /\ b.knowledge \in {"none", "reviewed"} /\ ~b.open

\* No requirement is left: compile makes a definition.
Executable(b, models) ==
  /\ FieldsGiven(b, models) /\ CadenceSupported(b) /\ ActionsSupported(b) /\ ProhibitionsSupported(b)
  /\ AutomaticSupported(b) /\ ChannelsSupported(b) /\ ConditionsSupported(b)
  /\ EscalationSupported(b) /\ StopsSupported(b) /\ GoalSupported(b) /\ RestGiven(b)

-----------------------------------------------------------------------------
\* The definition, and the report of a test.

Statuses(b) ==
  {c.value : c \in {d \in b.conditions : OneStatus(d)}}
    \union UNION {c.values : c \in {d \in b.conditions : SomeStatus(d)}}

Definition(b) ==
  [mode |-> b.mode, review |-> b.review, entityTypes |-> b.entityTypes,
   statuses |-> Statuses(b),
   staleAfterDays |-> Max({0} \union {c.number : c \in {d \in b.conditions : Inactive(b, d)}}),
   permissions |-> [a \in b.allowed |-> a \in b.automatic],
   restricted |-> b.prohibited,
   maximumAttempts |-> b.attempts, maxActions |-> Min({3, b.attempts})]

-----------------------------------------------------------------------------
\* The runtime: what an agent looks at and what it may do by itself.

Eligible(definition, subject) ==
  /\ subject.type \in definition.entityTypes
  /\ definition.statuses = {} \/ subject.status \in definition.statuses
  /\ definition.staleAfterDays = 0 \/ subject.inactive >= definition.staleAfterDays

\* A call: approved by a person, of a suppressed contact, within the hours of
\* work, after so many actions of the run and attempts on the subject.
Permits(definition, tool, call) ==
  LET mutation == tool \in Internals \union Externals \union {"request_human_approval"}
  IN CASE tool \notin DOMAIN definition.permissions \/ tool \in definition.restricted -> "deny"
       [] OTHER ->
     CASE ~mutation -> "allow"
       [] ~call.open -> "deny"
       [] call.actions >= definition.maxActions \/ call.attempts >= definition.maximumAttempts -> "deny"
       [] call.suppressed /\ tool \in {"send_message", "book_appointment", "schedule_followup"} -> "deny"
       [] OTHER ->
     CASE definition.mode = "ADVISORY" -> "recommend"
       [] tool \in Unavailable \union {"schedule_followup"} -> "deny"
       [] call.approved -> "allow"
       [] \/ tool \in Externals \union {"request_human_approval", "update_opportunity"}
          \/ definition.mode = "COPILOT" \/ definition.review = "all_mutations"
          \/ ~definition.permissions[tool] -> "require_approval"
       [] OTHER -> "allow"

-----------------------------------------------------------------------------
\* What the business asked for, against which the compiler is judged.

Meets(c, subject) ==
  CASE c.field = "status" /\ c.operator = "eq" -> subject.status = c.value
    [] c.field = "status" /\ c.operator = "in" -> subject.status \in c.values
    [] c.field = "inactive_days" /\ c.operator = "gte" -> subject.inactive >= c.number
    [] OTHER -> FALSE

\* The definition is no wider than the blueprint: it looks at no subject that
\* fails a condition, uses nothing that was not allowed or was prohibited, and
\* changes nothing unasked unless it was made automatic in Autopilot.
NoWider(b, definition, subjects, calls) ==
  /\ \A s \in subjects :
       Eligible(definition, s) => s.type \in b.entityTypes /\ \A c \in b.conditions : Meets(c, s)
  /\ \A t \in Tools, call \in calls : Permits(definition, t, call) = "allow" =>
       /\ t \in b.allowed \ b.prohibited
       /\ t \in Internals \union Externals /\ ~call.approved =>
            t \in b.automatic /\ b.mode = "AUTOPILOT" /\ b.review # "all_mutations"
  /\ b.prohibited \subseteq Tools
=============================================================================
