----------------------------- MODULE AgentBuilder -----------------------------
(***************************************************************************)
(* Blueprints and the agents made of them (agent-builder/service.ts,       *)
(* agents/service.ts): administrators save versions, ask a model for one,  *)
(* test and activate what they read.                                       *)
(*                                                                         *)
(* Every operation is one transaction under the lock of the organization,  *)
(* but what an administrator sends was read before, from the page; and a   *)
(* generation asks the model between two transactions.                     *)
(***************************************************************************)
EXTENDS BlueprintCompiler

CONSTANTS
  Blueprints,        \* ids, as many as an organization may have (50)
  Proposals,         \* the specifications people write
  Suggestions,       \* those the model writes
  Admins,
  GenerationKeys,    \* request keys of generations, as many as a day may have (20)
  Allowlists,        \* values of AGENT_ALLOWED_MODELS
  MaxVersions,       \* of a blueprint (100)
  MaxAgentVersions,  \* of an agent (100)
  MaxFaults          \* a bound on generators that die or stall, lost answers, revoked credentials,
                     \* switched agents and deployments

ASSUME BuilderAssumption ==
  /\ \A spec \in Proposals \union Suggestions : IsBlueprint(spec)
  /\ "none" \notin Blueprints /\ "manual" \notin GenerationKeys

VARIABLES
  blueprint,   \* AgentBlueprint.currentVersion; 0 without a row
  versions,    \* AgentBlueprintVersion rows
  tests,       \* AgentBlueprintTest rows: the version and the definition it compiled to
  agent,       \* the agent of each blueprint, version 0 before it has one
  page,        \* what each administrator has on the screen
  member,      \* the credentials that are still good
  generation,  \* AgentBlueprintGeneration by key: its status, page and requester
  generator,   \* the process that asks the model for a key, and its answer
  renounced,   \* history: <<key, whether its process had ended>>, when its requester was
               \* told to start a new request
  models,      \* the allowlist of this deployment
  faults

builderVars == <<blueprint, versions, tests, agent, page, member, generation, generator, renounced,
                 models, faults>>
drafts == <<blueprint, versions>>
generations == <<generation, generator, renounced>>

NoAgent == [version |-> 0, from |-> "none", number |-> 0, definition |-> "none", enabled |-> FALSE]
NoPage == [blueprint |-> "none", number |-> 0, agent |-> 0]
NoGeneration == [status |-> "none", for |-> NoPage, by |-> {}]
NoGenerator == [pc |-> "none", answer |-> {}]

BuilderInit ==
  /\ blueprint = [b \in Blueprints |-> 0] /\ versions = {} /\ tests = {}
  /\ agent = [b \in Blueprints |-> NoAgent]
  /\ page = [a \in Admins |-> NoPage] /\ member = Admins
  /\ generation = [k \in GenerationKeys |-> NoGeneration]
  /\ generator = [k \in GenerationKeys |-> NoGenerator] /\ renounced = {}
  /\ models \in Allowlists /\ faults = 0

Exists(b) == b \in Blueprints /\ blueprint[b] > 0
Version(b, n) == CHOOSE v \in versions : v.blueprint = b /\ v.number = n

BuilderTypeOK ==
  /\ \A b \in Blueprints :
       /\ blueprint[b] \in 0 .. MaxVersions /\ agent[b].version \in 0 .. MaxAgentVersions
       /\ {v.number : v \in {w \in versions : w.blueprint = b}} = 1 .. blueprint[b]
  /\ \A v, w \in versions : v.blueprint = w.blueprint /\ v.number = w.number => v = w
  /\ \A k \in GenerationKeys :
       /\ generation[k].status \in {"none", "running", "completed", "failed"}
       /\ generator[k].pc \in {"none", "asking", "answered", "failing"}
       /\ generation[k].status = "none" => generator[k].pc = "none"

-----------------------------------------------------------------------------
\* Saving a version: of the blueprint that was read, or of a new one.

\* detail: the page keeps the numbers it showed; an empty page is a new draft.
OpenPage(a, b) ==
  /\ \/ Exists(b) /\ page' = [page EXCEPT ![a] =
          [blueprint |-> b, number |-> blueprint[b], agent |-> agent[b].version]]
     \/ page[a] # NoPage /\ page' = [page EXCEPT ![a] = NoPage]
  /\ UNCHANGED <<drafts, tests, agent, member, generations, models, faults>>

Fresh(p) == Exists(p.blueprint) /\ blueprint[p.blueprint] = p.number

\* persist
Persist(p, spec, key) ==
  LET add(b) ==
        /\ blueprint' = [blueprint EXCEPT ![b] = @ + 1]
        /\ versions' = versions \union
             {[blueprint |-> b, number |-> blueprint[b] + 1, spec |-> spec, key |-> key,
               activated |-> 0]}
  IN IF p.blueprint = "none"
       THEN \E b \in Blueprints : blueprint[b] = 0 /\ add(b)
       ELSE Fresh(p) /\ blueprint[p.blueprint] < MaxVersions /\ add(p.blueprint)

Save(a, spec) ==
  /\ a \in member
  /\ Persist(page[a], spec, "manual")
  /\ UNCHANGED <<tests, agent, page, member, generations, models, faults>>

-----------------------------------------------------------------------------
\* Asking the model for a version, once for a request key.

Reserve(a, k) ==
  /\ a \in member /\ generation[k].status = "none"
  /\ page[a].blueprint = "none" \/ Fresh(page[a])
  /\ generation' = [generation EXCEPT ![k] = [status |-> "running", for |-> page[a], by |-> {a}]]
  /\ generator' = [generator EXCEPT ![k].pc = "asking"]
  /\ UNCHANGED <<drafts, tests, agent, page, member, renounced, models, faults>>

\* The same key again: its version, "in progress", or "start a new request".
\* A reservation is given up when it is older than a minute, whether or not its
\* process still works at it (service.ts:197).
Repeat(a, k) ==
  /\ a \in member
  /\ \/ generation[k].status = "failed" /\ UNCHANGED faults
     \/ generation[k].status = "running" /\ generator[k].pc = "none" /\ UNCHANGED faults
     \/ /\ generation[k].status = "running" /\ generator[k].pc # "none"
        /\ faults < MaxFaults /\ faults' = faults + 1
  /\ generation' = [generation EXCEPT ![k].status = "failed"]
  /\ renounced' = renounced \union {<<k, generator[k].pc = "none">>}
  /\ UNCHANGED <<drafts, tests, agent, page, member, generator, models>>

\* What a suggestion proposes loses what only people grant.
Cleared(spec) == [spec EXCEPT !.automatic = {}, !.given = @ \ {"runtimeModel"},
                              !.knowledge = IF @ = "none" THEN @ ELSE "unreviewed"]

\* The answer, or a refusal, an error, the thirty seconds that are over.
ModelAnswers(k) ==
  /\ generator[k].pc = "asking"
  /\ \/ \E spec \in Suggestions :
          generator' = [generator EXCEPT ![k] = [pc |-> "answered", answer |-> {Cleared(spec)}]]
     \/ generator' = [generator EXCEPT ![k].pc = "failing"]
  /\ UNCHANGED <<drafts, tests, agent, page, member, generation, renounced, models, faults>>

\* The second transaction: it does not look at the status of the receipt.
Completes(k) ==
  /\ \E spec \in generator[k].answer : Persist(generation[k].for, spec, k)
  /\ generation' = [generation EXCEPT ![k].status = "completed"]

\* A stale version, a revoked caller or a full table undoes it; its answer may
\* be lost after the commit.
SaveAnswer(k) ==
  /\ generator[k].pc = "answered"
  /\ IF \/ ~(generation[k].by \subseteq member)
        \/ LET p == generation[k].for
           IN IF p.blueprint = "none" THEN \A b \in Blueprints : Exists(b)
              ELSE ~Fresh(p) \/ blueprint[p.blueprint] >= MaxVersions
       THEN /\ generator' = [generator EXCEPT ![k].pc = "failing"]
            /\ UNCHANGED <<drafts, generation, faults>>
       ELSE /\ Completes(k)
            /\ \/ generator' = [generator EXCEPT ![k] = NoGenerator] /\ UNCHANGED faults
               \/ /\ faults < MaxFaults /\ faults' = faults + 1
                  /\ generator' = [generator EXCEPT ![k].pc = "failing"]
  /\ UNCHANGED <<tests, agent, page, member, renounced, models>>

\* The catch block: a receipt that still runs has failed, whoever asked.
FailsIfRunning(k) == [generation EXCEPT ![k].status = IF @ = "running" THEN "failed" ELSE @]

RecordFailedAnswer(k) ==
  /\ generator[k].pc = "failing"
  /\ generation' = FailsIfRunning(k)
  /\ generator' = [generator EXCEPT ![k] = NoGenerator]
  /\ UNCHANGED <<drafts, tests, agent, page, member, renounced, models, faults>>

GeneratorDies(k) ==
  /\ generator[k].pc # "none" /\ faults < MaxFaults
  /\ generator' = [generator EXCEPT ![k] = NoGenerator] /\ faults' = faults + 1
  /\ UNCHANGED <<drafts, tests, agent, page, member, generation, renounced, models>>

-----------------------------------------------------------------------------
\* Testing and activating what the page shows.

\* preview compiles the version; a fictional subject is judged, nothing is done.
TestDraft(a) ==
  /\ a \in member /\ Fresh(page[a])
  /\ LET v == Version(page[a].blueprint, page[a].number)
     IN tests' = tests \union {[blueprint |-> v.blueprint, number |-> v.number,
                                definition |-> IF Executable(v.spec, models)
                                                 THEN {Definition(v.spec)} ELSE {}]}
  /\ UNCHANGED <<drafts, agent, page, member, generations, models, faults>>

\* Mutant: the version of the agent may have changed since the page was read.
AgentUnchangedAny(p) == TRUE

AgentUnchanged(p) == agent[p.blueprint].version = p.agent

Tested(v) ==
  [blueprint |-> v.blueprint, number |-> v.number, definition |-> {Definition(v.spec)}] \in tests

\* createAgentInTransaction or appendAgentVersionInTransaction, then enabled.
Activate(a) ==
  LET p == page[a]
      v == Version(p.blueprint, p.number)
  IN /\ a \in member /\ Fresh(p)
     /\ v.activated = 0 /\ AgentUnchanged(p)
     /\ Executable(v.spec, models) /\ Tested(v)
     /\ agent[p.blueprint].version < MaxAgentVersions
     /\ agent' = [agent EXCEPT ![p.blueprint] =
          [version |-> @.version + 1, from |-> "blueprint", number |-> v.number,
           definition |-> Definition(v.spec), enabled |-> TRUE]]
     /\ versions' = (versions \ {v}) \union {[v EXCEPT !.activated = agent[p.blueprint].version + 1]}
     /\ UNCHANGED <<blueprint, tests, page, member, generations, models, faults>>

\* The agent interface, past the builder: it leaves the agent disabled.
AppendVersionByHand(a, b) ==
  /\ a \in member /\ agent[b].version \in 1 .. (MaxAgentVersions - 1)
  /\ agent' = [agent EXCEPT ![b] = [NoAgent EXCEPT !.version = agent[b].version + 1, !.from = "hand"]]
  /\ UNCHANGED <<drafts, tests, page, member, generations, models, faults>>

\* The switch of the agent raises no version, and an activation turns it on
\* (what runs see of it is in AgentRuntime).
Switch(a, b) ==
  /\ a \in member /\ agent[b].version > 0 /\ faults < MaxFaults /\ faults' = faults + 1
  /\ agent' = [agent EXCEPT ![b].enabled = ~@]
  /\ UNCHANGED <<drafts, tests, page, member, generations, models>>

Revoke(a) ==
  /\ a \in member /\ faults < MaxFaults /\ faults' = faults + 1
  /\ member' = member \ {a}
  /\ UNCHANGED <<drafts, tests, agent, page, generations, models>>

Deploy ==
  /\ faults < MaxFaults /\ faults' = faults + 1
  /\ models' \in Allowlists \ {models}
  /\ UNCHANGED <<drafts, tests, agent, page, member, generations>>

BuilderNext ==
  \/ \E a \in Admins :
       \/ TestDraft(a) \/ Activate(a) \/ Revoke(a)
       \/ \E b \in Blueprints : OpenPage(a, b) \/ AppendVersionByHand(a, b) \/ Switch(a, b)
       \/ \E spec \in Proposals : Save(a, spec)
       \/ \E k \in GenerationKeys : Reserve(a, k) \/ Repeat(a, k)
  \/ \E k \in GenerationKeys : ModelAnswers(k) \/ SaveAnswer(k) \/ RecordFailedAnswer(k) \/ GeneratorDies(k)
  \/ Deploy

-----------------------------------------------------------------------------
Subjects == [type : {"opportunity", "contact"}, status : {"open", "lost"}, inactive : {0, 7}]
Calls == [approved : BOOLEAN, open : BOOLEAN, suppressed : BOOLEAN, actions : {0, 3}, attempts : {0}]

\* An activation puts in force what an administrator had read: the version of
\* the page, over the agent of the page, tested, and compiled to a definition
\* that is no wider than the blueprint (service.ts:347-421, compiler.ts:31-318),
\* whatever other administrators, the agent interface, the model and the
\* allowlist did since the page was read.
ActivatesWhatWasRead ==
  [][\A b \in Blueprints :
       agent'[b].version > agent[b].version /\ agent'[b].from = "blueprint" =>
         \E a \in Admins :
           /\ page[a] = [blueprint |-> b, number |-> blueprint[b], agent |-> agent[b].version]
           /\ LET spec == Version(b, blueprint[b]).spec
              IN /\ spec.model \in models /\ "runtimeModel" \in spec.given
                 /\ \E t \in tests : t.blueprint = b /\ t.number = blueprint[b] /\ t.definition # {}
                 /\ NoWider(spec, agent'[b].definition, Subjects, Calls)]_builderVars

\* A request for a version is answered once: a key saves one version at most,
\* its receipt is completed exactly when that version is there, though answers
\* of the database are lost and processes die, and no version comes after its
\* requester was told to start a new request once its process had ended
\* (service.ts:190-279).
GeneratesOnce ==
  /\ \A v, w \in versions : v.key \in GenerationKeys /\ v.key = w.key => v = w
  /\ \A k \in GenerationKeys :
       generation[k].status = "completed" <=> \E v \in versions : v.key = k
  /\ \A r \in renounced : r[2] => \A v \in versions : v.key # r[1]

\* docs/AGENT_BUILDER.md:135: "Failed/abandoned keys are terminal": a process
\* that outlives the minute completes the receipt.
FailedIsTerminal ==
  [][\A k \in GenerationKeys :
       generation[k].status = "failed" => generation'[k].status = "failed"]_builderVars
=============================================================================
