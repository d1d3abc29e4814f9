# A TLA+ verification project for SteelScaleSystem

SteelScaleSystem is a multi-tenant TypeScript service (Express, Prisma on
PostgreSQL, BullMQ on Redis) that runs the back office of small contractors: a
CRM fed by members and external systems, an event ledger with durable handlers,
AI agents that act under approval, the automated follow-up of opportunities
("revenue recovery"), messages to customers, live sales demos, and a pipeline
that finds and scores leads. This directory models the parts in which
concurrency, failure, ordering and time decide whether the program is correct.

Contents: [inventory](#inventory), [plan](#plan), [modules](#modules),
[runs](#runs), [properties](#properties), [fairness](#fairness),
[proofs](#proofs), [disagreements](#where-the-code-and-its-documents-disagree),
[limits](#what-is-not-modelled).

To check a run: `tlc -config MCEventJobs.cfg MCEventJobs`. To check the proofs
of a module: `tlapm EventJobs_proofs.tla`, and so for each `*_proofs` module.
`PROJECT.json` lists components, runs, the source
lines of each definition, mutants, hazards, findings and theorems.

## Two facts that shape every model

*One transaction is one action.* Most writes go through `tenantTransaction`
(`src/src/workforce/shared.ts`), which locks the organization's row
`FOR UPDATE` first, so the transactions of one tenant are serial. What
interleaves is everything between transactions: a network call, a lease, a
lost COMMIT answer, a crash. Modules cut actions exactly there. The exceptions
are cut finer: the agent runtime's claim is a single statement outside the
lock; a recovery scan commits many independent rows (one action per row); and
the live demo uses no tenant transaction at all (one action per statement).

*Time only passes.* A lease, a backoff, an expiry or an age is a Boolean "it is
over", set by an action of its own at any moment (`LeaseEnds`, `BackoffEnds`,
`DayPasses`, `Expires`), so that every relation between speeds is explored.
`CrmSync` keeps a clock because it compares times given by others, `Workforce`
because an approval compares the days of what it rests on.

## Inventory

State is in PostgreSQL unless said otherwise. "Correct" lists what the
component must guarantee, whether or not this project checks it yet.

### Modelled, in whole or in part

**Event ledger and job queue** (`events/publisher.ts`, `events/router.ts`,
`workforce/jobs`). State: `BusinessEvent`, `WorkforceJob` (status, attempts,
lease token and end), `EventDelivery` receipts. Operations: publish under an
idempotency key, claim, process, fail with backoff, bury, requeue. Called by
every writer; calls the registered handlers (recovery, agents) in the
completing transaction. Hard: leases that run out under a live worker, a COMMIT
whose answer is lost, crashes between claim and process. Correct: handlers run
exactly once, stale workers change nothing, every job is settled.

**Managed messages** (`communications/`). State: `CommunicationDelivery`,
`CommunicationAttempt`, suppressions, permissions of a contact, the account.
Operations: enqueue, claim and send outside a transaction, record the answer,
status callbacks, overdue receipts, opt-out, inbound texts. Interacts with the
SMS provider, the CRM contact and the event ledger. Hard: an unknown provider
outcome, callbacks late, twice or before the answer, STOP after queueing, numbers
that are shared or replaced. Correct: never sent twice, statuses are evidence,
opt-outs heeded, no message forgotten.

**Agent runtime** (`agents/`). State: agent and versions, runs, steps, actions,
approvals, leases. Operations: admit a run, claim, prepare, think outside a
transaction (30 s), commit, decide an approval, expire, stop, pause, publish a
version. Calls CRM and recovery tools; woken by events. Hard: decisions and
approvals older than the agent, its version, the subject or the lease. Correct:
nothing is executed twice, past a budget or for an agent that is no longer
current, and every run ends.

**Revenue recovery** (`recovery/`). State: cases, runs, approvals, dispatches,
handoffs, configuration version and enablement, the contact's consent,
outcomes. Operations: enrollment, scan, agent run, approval, adapter claim and
receipt, takeover, response, return, close, five event handlers, configure and
enable, credit for recovered work and its review. Interacts with the agent
runtime, the CRM, the event ledger (its handlers run late and in any order) and
an external delivery adapter. Hard: two opportunities of one contact, receipts
late or lost, members and automation at the same time, STOP overtaken, outcomes
that change again before their event is handled. Correct: one outstanding message
per contact, attempts counted right, unknown outcomes freeze a case, handoffs
agree, credit has evidence.

**CRM** (`crm/`) and **inbound event intake** (`events/intake.ts`,
`integrations/inbound.ts`, `workforce/events`, `workforce/crm/projector.ts`).
State: records with versions, `ExternalRecordMapping` with a watermark,
intake receipts. Operations: create, update and archive under an expected
version, agent mutations, opt-outs, map and unmap an id, observations of the
version 2 and version 1 protocols, notifications with several sections.
Hard: observations late, twice, out of order and between local corrections,
over two protocols with different rules; rules between records that are checked
when one of them is written. Correct: corrections stand, newer news lands,
opt-outs stay, records agree with each other.

**Members and credentials** (`workforce/tenancy`, `crm/service.ts`,
`integrations/service.ts`). State: memberships with roles, connections,
credentials. Operations: authenticate, change a member, issue, rotate and
revoke. Hard: a request waits for the lock of the organization after it was
authenticated. Correct: it acts with what its sender may do at that time, and
an owner remains.

**Outbound webhooks** (`integrations/outbox`, `worker`, `service`). State: a
delivery per event and endpoint with lease and attempts, the attempt journal,
endpoints. Operations: enqueue with the event, claim, prepare, post, settle,
retry, disable, test. Hard: a crash around the request, an answer after the
lease, a worker that comes back. Correct: journal and row agree with what was
received, every delivery ends.

**Live demo sessions** (`demo-engine/live-*.ts`). State: `SalesDemoSession`
(turns, transcript, busy marker, call id), sockets in the process, calls at the
provider. Operations: start, chat, connect voice, turns of a call, end, sweep;
editing and archiving the demo revoke sessions. Hard: no transactions; several
replicas; a provider call between two statements. Correct: usage bounded,
transcripts keep replies, no call left running.

**Demo builder** (`demo-engine/routes.ts`, `core.ts`, `website.ts`). State: demos
with a version, their events, the public link. Operations: create, edit, publish,
archive, record. Hard: an edit reads a homepage for seconds before it writes.
Correct: the link shows what was reviewed.

**Background tasks** (`platform/background.ts`) and the **lead pipeline**
(`lead-intelligence/pipeline`, `ingestion`, `real-estate`). State:
`BackgroundTask` rows, pipeline runs and stages, ingestion runs, businesses and
their source records. Operations: enqueue, reconcile, execute once, expire,
discover, import with locks on identities, enrich, score, recommend. Hard: the
process dies inside a task whose side effects cannot be repeated; two imports of
the same prospect. Correct: at most one execution, every run accounted for, no
business twice.

**Lead scoring** and **lead delivery** (`lead-intelligence/scoring`, `delivery`,
`call-queue`). State: signals, immutable scores, delivery records, queue entries,
permissions. Operations: audit, score, recommend, claim, hand over, retry, record
calls and consent. Hard: tiers, bonuses and penalties that overlap; two
operators who retry; permissions written back from stale reads. Correct: better
facts never hurt, a lead is delivered as often as asked, texts need consent.

**SMS bookings, calls and chats** (`services/sms-booking.ts`, `bookings.ts`,
`missed-call.ts`, `vapi.ts`, `chatbot.ts`, `owner-notifications.ts`,
`communications/legacy.ts`). State: conversations, logs with unique keys,
booking attempts, the ledger copy of texts. Operations: handle an inbound text,
a missed call, the tools and the end of a call, a chat booking. Hard: repeated
webhooks, no transactions, STOP during a booking. Correct: texts and
bookings once, opt-outs stand.

**Agent builder** (`agent-builder/`) and **business knowledge** (`knowledge/`).
State: blueprints, versions, generation receipts, tests; sources, documents,
entries with versions, a revision. Operations: save, generate, test, activate;
ingest, edit, review, withdraw, retrieve. Hard: decisions on a page or a
retrieval that is out of date, a generation that answers late. Correct: only
what was read and tested is activated; what was withdrawn is not said.

**Original workforce agents** (`workforce/agents`, `policy`, `approvals`,
`revenue`). State: agents with a configuration version, runs, proposed handoffs
with approvals, recorded payments. Operations: create, configure, evaluate an
event, decide, record. Hard: a proposal waits for days while the deal, the
customer and the agent change; several agents see one event. Correct: one
proposal per deal, carried out only if nothing it rests on has changed.

### Not modelled

| Component | Why |
|---|---|
| Agent wake-up and providers (`agents/events, facts, provider`) | a thin caller of `EnqueueRun`; the provider is an arbitrary proposal |
| Lead sources and website audit (`providers/`, `enrichment/`, `integrations/`) | network readers and parsers; their results are inputs of the models |
| Recovery screens and simulation | views and a pure what-if simulator |
| Client workspace | read-only overview |
| Administration routes and server | wiring, pages and forms |

`PROJECT.json` names the files of each, and what a partly modelled component
leaves out.

## Plan

Steps 1 to 9 are done: `EventLedger` and `EventJobs` with their refinement and
proofs; `MessageDelivery`, `AgentRuntime`, `Recovery`, `DemoSession` and
`CrmSync`; the webhook worker (`Outbox`); lead intelligence (`LeadIngestion`,
`LeadPipeline`, `LeadOutreach`, `LeadScoring`); `Bookings`; the configuration of
agents (`BlueprintCompiler`, `AgentBuilder`, `Knowledge`); people (`Tenancy`,
`Attribution`, `Inbound`, `DemoBuilder`); the records of the CRM and the first
agents (`SalesRecords`, `Workforce`). Their proofs are done too: every safety and
action property of a passing run is a theorem, in [Proofs](#proofs). What is
left:

1. The liveness properties, which no prover here reaches: larger instances.
2. Composition: recovery on top of `MessageDelivery` (a dispatch is a delivery)
   and wake-up of `AgentRuntime` by `EventLedger`. Both instances are large
   already when alone, so this needs abstract forms of the two first.

## Modules

| Module | Role |
|---|---|
| `EventLedger` | abstract: record, handle, park, reopen an event |
| `EventJobs` | publisher, queue, worker, router, operator requeue |
| `EventJobs_proofs` | theorems about `EventJobs` |
| `Services_proofs` | theorems about `MessageDelivery`, `DemoSession` |
| `AgentRuntime_proofs` | theorems about `AgentRuntime` |
| `Integrations_proofs` | theorems about `CrmSync`, `Outbox` |
| `Recovery_proofs` | theorems about `Recovery` |
| `Desk_proofs` | theorems about `Tenancy`, `Inbound`, `Knowledge`, `Bookings`, `AgentBuilder` |
| `Leads_proofs` | theorems about `LeadPipeline`, `LeadOutreach`, `DemoBuilder`, `LeadIngestion`, `LeadScoring` |
| `Sales_proofs` | theorems about `Attribution`, `SalesRecords`, `Workforce` |
| `MessageDelivery` | message queue, provider, carrier, permissions |
| `AgentRuntime` | runs, steps, actions, approvals of one agent and subject |
| `Recovery` | cases of one contact, dispatches, handoffs, events, members |
| `DemoSession` | chat and voice sessions, requests, watchdog |
| `CrmSync` | contacts, opportunities, mappings, members, observations |
| `Outbox` | webhook deliveries, their journal, endpoints, workers |
| `LeadIngestion` | imports, identities, locks, businesses, source records |
| `LeadPipeline` | pipeline runs, background tasks, processes |
| `LeadOutreach` | deliveries, permissions, the call desk |
| `LeadScoring` | signals, scores, their order in time |
| `Bookings` | texts, calls, chats, booking attempts, the ledger copy |
| `BlueprintCompiler` | pure: what a blueprint compiles to, what a run may do with it |
| `AgentBuilder` | blueprint versions, generations, tests, activation |
| `Knowledge` | sources, documents, entries, retrieval, use |
| `Tenancy` | requests, members, connections, credentials |
| `Attribution` | outcomes of a case, evidence, reviews |
| `Inbound` | numbers, contacts, texts, suppressions, queued sends |
| `DemoBuilder` | demos, forms, homepage research, the public link |
| `SalesRecords` | records of eleven kinds, references, stages, required fields |
| `Workforce` | first agents: proposals, approvals, payments |
| `MCServices` | `MessageDelivery`, `DemoSession`, `Outbox` for TLC |
| `MCLeads` | the four `Lead*` modules and `DemoBuilder` for TLC |
| `MCDesk` | `Bookings`, `AgentBuilder`, `Knowledge`, `Tenancy`, `Inbound` for TLC |
| `MCRecovery` | `Recovery`, `Workforce`, `Attribution`, `SalesRecords` for TLC |
| `MC*` | constants and symmetry for TLC, one per other specification |

`MCServices`, `MCLeads`, `MCDesk` and `MCRecovery` put parts that share no variable side by
side. A behaviour picks one part and leaves the others in their initial state,
so the states of the parts add up instead of multiplying; nothing is lost by it,
since no property reads two of them. It is not a composition of interacting
components: where those interact, one module holds both (an inbound STOP and
the queue in `Inbound`, the compiler and the builder, members and credentials).

**EventJobs.** One key is one `(organization, source, externalId)`. `Publish`
is `publishInTransaction` with or without a job; a second publication of a
key is a no-op or an error and changes nothing. A worker is at `idle`,
`claimed` (after `ClaimJob`), `processing` (`BeginProcess`) or `failing` (its
catch block). `ProcessStale`, `ProcessExhausted` and `ProcessHandled` are the
three ways `processJob`'s transaction ends; `ProcessThrows` rolls it back.
`AfterCommit` lets a committed transaction lose its answer, so that the catch
block runs although the job is done. `Crash` loses a worker, `LeaseEnds` and
`BackoffEnds` pass time, `Requeue` is the operator. A token is a number that
is never issued twice (`randomUUID`). The effect of a handler is a counter,
`effects`, that only the properties read. A handler is registered in a process
or not (`Required` are those registered everywhere); a process that knows more
may run more.

**MessageDelivery.** `Enqueue` admits a message; `ExpireLease`,
`ReceiptOverdue`, `Block` and `ClaimSend` are the branches of `sendOnce`'s first
transaction in its order; `Post` is the request on the wire; the answer that
`RecordResult` stores is any that `Answers` allows for what the carrier did: a
timeout says nothing. `Callback` reports any stage the carrier has gone
through, repeatedly and in any order. The claim number stands for the lease
token and for the carrier's message id. `OptOut` and `ChangePermission` are
what `safety.ts` checks; consent, destination, account and membership are one
Boolean because each is a reason to cancel.

**AgentRuntime.** One agent and one subject. `PrepareStep` opens a step and
leaves the transaction to think; `CommitWithoutAction`, `CommitSuppressed` and
`CommitAction` are what the second transaction may find, under the guards
`MayCommit` (run running, lease, agent) and `Fresh` (the subject is as it was).
A proposal is an input of a small set, because deduplication is by tool and
input; whether the policy executes, blocks or asks is nondeterministic where it
depends on the tool and fixed where it depends on budgets. `Decidable`,
`StillSafe`, `Approve`, `Reject` and `ExpireApproval` are `approvals.ts` and
`scheduler.ts`. `Stop`, `Enable`, `AppendVersion` and `EditSubject` are the
administrator and the world.

**Recovery.** One contact, one case per opportunity. `Base`, `MessageGuard`,
`FollowUpGuard` and `Objection` are the guards of `lifecycle.ts` in their
order, returning the first objection. A run of the agent is reduced to what
recovery sees (its trigger, its decision, its end). `Claim`, `AdapterSends` and
the three receipts are the adapter's protocol; the adapter is external, and is
assumed honest and to send only before its claim expires, which is what the
delivery API asks of it. `sent` is what really left. Events wait in a set and
are handled in any order. Members act by `TakeOver`, `Respond`, `ReturnToAI`,
`Close`; a request with an outdated revision is refused and is not a step.
Communications are off in the runs (`Communications = FALSE`), which is the
configuration in which only the handlers record an opt-out.

**DemoSession.** A process is a request or the watchdog, and its program counter
is the statement it is at. `proc[p].seen` is the transcript read before the
provider was asked, which is what the later update writes. `live` are the
calls going on at the provider. A fault is a failed query, a lost socket or a
process that stops. The daily limits are the number of rows in `Sessions`; the
environment's kill switches and the booking payload are left out. A call whose
creation is not answered carries no conversation (the browser never gets its
SDP) and is not counted as live.

**CrmSync.** A record is its version, times, consent flag, relation and the set
of connections that published an event of its current version, which is what
`intake.ts:313-324` looks up. `Stale` and `Behind` are the two protocols' rules
of order; `IngestCreated`, `IngestUpdated` and `Section` return the databases a
section may lead to, none if it is refused, so that `Receive` can apply two
sections in one transaction or none. `Bump` is the database trigger. `writer`
and `corrected` are only read by properties. A delivery id seen before is
answered from its receipt, which is a step that changes nothing. Transactions
take their time when they commit: PostgreSQL's `CURRENT_TIMESTAMP` is that of
BEGIN, so a wait for the lock must be shorter than a tick. Type names of
external ids are dropped: version 1 calls a contact `customer`, notifications
call it `contact`, and version 2 by any name, so each path may meet each id.

**Outbox.** `Publish` is `enqueueEvent` in the publishing transaction: one
delivery per endpoint that wants the event. A worker claims in one statement
(`ClaimPost`, with the lease's token), journals what a lapsed attempt left open
and checks the endpoint (`PreparePost`, `Refuse`), posts (`PostOut`), and settles
under its token (`SettlePost`). The
number of the attempt stands for the token. `requested` and `received` are the
truth the journal is compared with. A worker that dies
(`SenderDies`) and one that is slower than its lease are the same `LeaseLapses`
for the row; the second comes back.

**LeadIngestion.** A record is the provider's identifier, identifiers by kind, a
name and a payload hash. A business transaction is cut where READ COMMITTED lets
others in: `TakeLock` for each identity in sorted order, `Resolve`, `Write`. An
agent's transaction has no locks. The unique constraints refuse a write; the
importer of listings throws where the other counts. Counters, source records and
their versions are kept because a run must account for each of its records. A fault is a
death, a statement that fails, or a commit whose answer is lost: an invalid prospect
is counted before it is stored, so that a fault in between counts it as failed too
(`CountedTwice`), while a fault of one that the adapter rejected is swallowed
(`Reject`).

**LeadPipeline.** A run, its ingestion run, its task and the processes that
execute it, in both deployments (durable tasks, or the web process itself). One
execution is a program counter over the stages; what a stage cannot do is an
error of the run. The contents of leads are left out but for what the outreach
state says of them, which the last stage reads and writes.

**LeadOutreach.** `Rescored` is the environment (scores and contact data change),
`SelectLead` the unlocked query, `Claim` the unique row; `Send` and the write of
its answer (`MarkDelivered`, `MarkFailed`) are apart, a retry is a read
(`AskRetry`) and a write (`Retry`); each write may be done although its answer is
lost. The call desk is one transaction; recording a permission reads a row and
writes all of it back, a request leaving unsaid what it takes from the row
(`Permitted`). `refused` and `overtaken` are history: refusals nobody lifted, and
those written over from a row that was read before them; `failures` and `crossed`
are the same for retries.

**LeadScoring.** The rules are operators over the latest signals, with the
thresholds of `scoring/config.ts`. `PipelineScore`, `Rescore` and `Sweep`
differ in the time they give a score; `Stale` compares it with other times.

**Bookings.** A server handles an *occasion* (a text, a missed call, a call, a
chat) that may come twice. Its program counter is the statement it is at; texts
go through one subprogram (`Fence`, `Check`, `Transport`, `RecordText`) with the
key of their unique row. `placed` counts the appointments the destinations made,
`text` what the provider took, `told` who was told of a booking, and how; `stopped`
says what the customer asked for last. A stop word that is no opt-out for the ledger
("Cancel?") ends the conversation only (`Stops`, `OptsOut`). In a dry run no
destination is asked and the booking succeeds (`RecordDryRun`); a chat is always
answered as booked.

**BlueprintCompiler and AgentBuilder.** A blueprint keeps what the compiler
distinguishes; free text is given or not. `Executable` is that compile finds nothing
wrong, a predicate for each section of what it looks at; `Definition` is what it
makes. The builder adds blueprints with versions, the agents made from them and pages: a page is what an administrator read
(`OpenPage`), and operations are decided against the page and the rows. A
generation reserves its key, asks the model and saves in three steps; the key may be
given up as abandoned while its process still works (only its age is looked at), the
saving transaction does not look at the key again, and its answer may be lost, after
which the catch block fails the key only if it still runs. `Switch` is the switch of
the agent, which raises no version. `NoWider`
is the meaning of a blueprint written down independently and is what activation
is held to.

**Knowledge.** Entries have versions with a review; entries, sources and
documents are switched on and off; `Retrieved` and `Sayable` are the rules for
what may be said. Members hold a screen, an agent a decision with the revision it
was made at; `CarryOut` compares it with the revision of the organization. `gone` is
history, the revision at which an entry was last withdrawn.

**Tenancy.** A request is authenticated into a principal and carried out later.
The three services differ in what they check again under the lock: the CRM
everything (`StillCurrent`), the integration service the credential and the role
(`MayIntegrate`), the older routes (`RouteIntegrates`, `RouteRevokes`,
`RouteRotates`) nothing.
The console of the platform is a principal of its own.

**Attribution.** A case with its deliveries, replies, acts of employees, and
outcomes whose events wait to be handled. `RecordChanges` is a write of the record,
which may also take an appointment to another opportunity or to none (`belongs`), and
publishes an event only for what `Announces` lists: an appointment that is completed or
missed has none. `HandleOutcome` is `recordOutcome` for the case of the opportunity the
record belongs to by then, with `EvidenceStatus` what it makes of the times; `moved` is
history, appointments taken elsewhere since their credit. `Review` checks the evidence
and the payment's reference (`Acceptable`) and publishes under a key that
includes the review.

**Inbound.** People with numbers that are shared and replaced, one text that
asks to stop, messages queued by members. How a message is sent is in
`MessageDelivery`; here its admission and its claim are, because those are the
two places that look at contact and number (`Contactable`, `Sendable`).

**DemoBuilder.** A form carries the version of its page. An edit and a creation
are two steps around the reading of a homepage (`SubmitEdit`, `SaveEdit`;
`SubmitCreation`, `CreateDemo`, the latter behind the lock of the request).
Visitors' events are counted up to a cap while the link is open.

**SalesRecords.** One function `crm` of rows; a row keeps its references, its
status (of a stage: its outcome), currency, position and whether a date or a
required value is there. A form is any row that `parseEntity` lets through
(`FormRows`); `Related` is `validateRelations`, `Derived` what it fills in.
`ImportDeal` is the version 1 projector, which writes the same rows by its own
rules; version 2 imports and agents go through the actions of members. A
behaviour works on one of six sets of records (`Workbooks`), each of which
holds the records of some of the rules. Messages keep a conversation that is
archived, tasks and notes a related record that is; an archived stage keeps its
place and an archived opportunity the outcome of its stage.

**Workforce.** `EvaluateEvent` is one transaction in which the agents have their
turn in order (a fold over `Helpers`), sharing what was already proposed and the
budget of the event. `DecideApproval` and `RecordRevenue` are the later
transactions; the others are what happens in between. `disturbed` is history: a
proposal's deal or customer was written on a later day than it was made, or was
archived, or its agent was configured. The code compares `updatedAt` with
`createdAt` strictly and in milliseconds; a tie counts as not later, in the model
within a day. A won deal that is reopened keeps its recorded revenue.

## Runs

Numbers are distinct states with the bounds of the cfg; all pass runs explore
their whole state space.

| Run | Bounds | States | Question |
|---|---|---|---|
| `event_jobs` | 2 keys, 2 workers, 2 handlers (1 required), 2 attempts, 1 crash, 1 stall, 1 requeue | 309k | Is the queue the ledger, with fencing, exactly-once and settlement? |
| `agent_runtime` | 2 runs, 2 inputs, 2 steps, 1 action, 1 edit, 2 versions, 1 stall | 1.3M | Do approvals, budgets and currency hold between runs? |
| `agent_leases` | 1 run, 2 workers, 1 deferral, 1 stall, 1 crash | 128k | Is the journal ordered and does each run end under lease races? |
| `recovery` | 1 case, 2 dispatches, 1 message, 2 attempts, 2 transports, 1 act; 2 agents, 2 deals, 2 events, 3 days, 2 writes; 1 case, 2 outcomes, 2 ticks; 6 sets of 4-6 records | 1.5M | Are dispatches evidence, attempts counted, unknowns frozen, STOP heeded, proposals current, credit evidenced; do records agree? |
| `recovery_cases` | 2 cases, 2 dispatches, 2 acts | 946k | One outstanding message over both cases; do case and handoff agree? |
| `crm` | 1 contact, 1 opportunity, 1 connection, 1 member, 3 ticks, 4 versions | 866k | Corrections, delayed news, consent, locking, relations |
| `leads` | 3 imports in 2 processes, 1 fault; 1 pipeline run, 2 processes, 1 error, 1 death; 1 lead, 2 campaigns, 2 desks, 2 retries; 2 scorers, 4 signals, 2 scores; 1 demo, 2 operators, 3 versions | 527k | Imports without doubles, tasks once, deliveries as asked, refusals kept, scores in order, demos as reviewed |
| `services` | 1 message, 2 workers, 3 sends, 1 crash; 1 session, 2 requests, 2 turns, 1 stall, 1 fault; 2 endpoints, 2 attempts, 2 workers, 1 retry, 1 lapse | 226k | What is sent or charged once, what is evidence, what ends |
| `desk` | 10 scenarios of 1-2 occasions, 2 servers; 1 blueprint, 2 administrators, 3 versions; 1 document, 1 entry, revision 6; 2 members, 2 credentials, 2 requests; 3 people, 2 numbers | 733k | Is what people decide checked against what holds when it takes effect? |
| `crm_corrections` | as `crm` | - | (violation) Do corrections stand without reservation? |
| `pipeline_restart` | 1 pipeline run, 1 process, 1 death | - | (violation) Has a completed run ingested what it found? |
| `sms_stop` | the scenarios of bookings | - | (violation) Does STOP stand until START? |

Why these bounds. Two workers are needed for a lease race and a third can only
lose it again; the token of a third claim is compared with the row in the same
way. Two attempts already have a first, a last and an exhausted claim;
messages have three because the transport limit in the code is three. One crash
and one stall, each at any moment and combined with each other and with a lost
COMMIT answer, give every single and double fault. Two runs of an agent make
budgets and deduplication compete; one worker suffices there, since the lease
races are in `agent_leases`. In recovery the two dimensions that interact
(several cases; a message with retries) are checked in two runs, because both
at once exceed 5 million states. Three ticks put an observation before, at and
after a correction; four versions allow an import, a correction, an ignored
event and an overwrite, in both records. With two connections the rule about
publishers adds only that another connection's event does not count: TLC did
not finish that instance, so it is not claimed.

In `services` a message has three sends because the transport limit in the code
is three; a webhook has two attempts instead of eight, one lapse and one revival
by an administrator, so that a first, a last and a revived attempt occur, each of
them interrupted. In `leads` the batches share a place id, a telephone or an
agent across runs and contain a rejected, an invalid and an unreadable record; the
requests of permissions grant, refuse, lift, suppress or say only a source; the
signals include one pair of imports in which only the number of photos and
reviews grows. That `ActivityNeverHurts` holds of the values in
between is a theorem (`ActivityHelps`). In `desk` the scenarios of
`Bookings` are pairs of occasions that meet in one conversation, with the
organization linked or not and the projection delayed or not, with a stop word that
is no opt-out, and chats with and without a dry run; a message of its own scenario
would only repeat them. Two administrators, two readers, two owners
and two operators are one who acts and one who acts on an old page. The sets of
records give every rule of `SalesRecords` the records it speaks of, with two
stages, contacts or pipelines where a rule compares them. Two agents, two events
and two deals let a deal be met again by the other agent, by the other event and
after the budget; three days hold a proposal, a later change and an expiry. Two
writes are an agent that is enabled and one change, or two agents.

The parts of the combined runs, alone: messages 87k, demo sessions 68k, outbox
71k; bookings 173k, builder 285k, knowledge 179k, members 18k, inbound 78k; lead
intelligence 360k, demos 167k; cases 515k, proposals 614k, credit 304k, records
50k.

Bounds that are not in the code are marked "bound" where the constant is
declared: crashes, stalls, requeues, edits, versions, deferrals, acts, faults,
time and writes. `MaxActive` of the demo is never reached with one session.
`CHECK_DEADLOCK FALSE` is set where the bounds, or finished work, stop a system.

## Properties

Each run's properties are stated and explained in its module; those worth an
argument are these.

- `HandledExactlyOnce`, `OnlyHolderSettles`, `KeepsLedger`: handlers commit with
  the job's completion, so a lost answer must not put the job back; the catch
  block compares the token again, and that is what makes it true.
- `StatusIsEvidence`, `DispatchIsEvidence`: a status may claim no more than what
  happened outside, with `carrier` and `sent` as ground truth. Part of the second
  is `AttemptsAreMessages`: an attempt is counted at the first claim, before
  anything is known to be sent, and never again.
- `WaitsForItsApproval`: `scheduler.ts` expires an approval and stops its run
  without reading the run. That is right only because a run waits exactly
  while one action of it is pending.
- `OneUnresolvedPerContact`, `HandoffMatchesCase`: cases and handoffs are written
  by the scan, the agent's tools, receipts, members, handlers and
  reconfiguration, some for one case and some in bulk, and all must agree.
- `DelayedNewsLands`, `CorrectionsStand`: the two sides of the same barrier. The
  second leaves out records whose mappings were changed by an administrator
  (their watermarks start again, as documented) or that ignored a version 1
  event; without the second reservation it is false, see below.
- `TranscriptsGrow` is conditional on no request outliving its 30 s marker. The
  provider call is cut at 25 s, but nothing bounds the queries around it.
- `JournalIsTheTruth`: an attempt has one entry, the last word of the journal is
  that of the row, and success is only said of what an endpoint got. A claim that
  outlived its lease must neither settle nor be recorded.
- `TasksRunOnce` and `PipelinesSettle` pull in opposite directions: an expired
  task may not be put back, and yet every run ends or waits for an operator
  with its task `unknown`.
- `NewBusinessIsNew`: locks on *all* identities of a record are needed, not on
  the provider's alone; what two transactions read is decided before either
  writes.
- `DeliveriesAreAsked` counts what destinations accepted against the requests for
  it. A lost answer makes a failed record of an accepted lead, so a retry may
  repeat it: the property asks for a person behind every repetition, and for a
  failure of its own behind each retry, except those that were written when the record
  had stopped being failed. That exception happens, see below.
- `RefusalStands`: a refusal of calls or texts, given to the call desk or recorded,
  keeps the lead from being delivered, called or texted, whatever comes after it,
  until somebody lifts it; excepted are refusals that a permission written back from
  an older row wrote over, which also happens, see below.
- `TextsOnce`: a fence that was taken is never given back, although a failed text
  is then never sent. The mutant gives it back.
- `LinkedStopStands` and `StopStands` are the same promise with and without a
  linked organization; the first holds because the suppression is looked at again
  in the ledger, the second is false, see below.
- `ActivatesWhatWasRead`, `PublishedWasReviewed`, `WithdrawnStaysOut`,
  `MembersChangeInOffice`: a decision belongs to a page, a form, a revision or a
  principal read earlier, and counts only if that still holds. What was withdrawn is
  said again only by the act of a member whose screen is not older than that.
- `CreditIsEvidenced`: recovered work has a delivery, an answer after it and an
  outcome in the window, and once the outcome is lost an event is on its way that
  revokes it, unless the appointment was taken to another opportunity after its
  review, see below.
- `RecordsAgree`: each of its six parts is checked when one record is written and
  can be broken by writing another: a stage is given another outcome, a parent is
  archived, positions are dealt again, an import moves a deal. The mutant lets
  the outcome of a stage change while deals are in it.
- `HandoffsStand`: one follow-up per deal over agents, events and retries, within
  the budget, and carried out only if deal, customer and agent are as they were
  when it was proposed; archiving does not touch `updatedAt` and has a check of
  its own. Payments follow the handoff they count for.
- `NumberStopStands`: a STOP belongs to a number, a message to a contact; either
  may change in between.

Every property of a passing run has a mutant in `PROJECT.json`: a plausible slip
in a definition under which TLC finds the property violated.

Some properties are stated in the modules and are in no run of `PROJECT.json`, to
keep the list to what is worth its time. Those that hold, and can be added to the
cfg of their module: the type invariants (`TypeOK` and the `*TypeOK`),
`FinalStays`, `AnswersLand` and `OptOutStopsSends` (`services`), `JournalInOrder` and
`FinishedRunsStay` (`agent_leases`), `OptOutStays`, `SavesSeeWhatTheyReplace` and
`ActiveContacts` (`crm`), `CompletedStays`, `ImportAccounted` and
`ScoredIsNotStale` (`leads`), `ToldIsPlaced`, `GeneratesOnce`, `AlwaysAnOwner` and
`RecordedWhileShared` (`desk`). All of these are proved except the type
invariants of `CrmSync`, `Bookings`, `AgentBuilder`, `LeadIngestion`,
`LeadScoring` and `Workforce`, whose proofs type the same variables in a form of
their own. Those that do not hold are under
[disagreements](#where-the-code-and-its-documents-disagree).

## Fairness

Liveness is checked under weak fairness of what the service's own loops do, and
nothing is assumed of visitors, members, handlers, models or carriers.

- Workers poll for ever (`platform/queues.ts`, every second or every 30 s, and
  `workforce/jobs/worker.ts`): claiming, beginning, processing and failing of a
  live worker are weakly fair; a crashed one is replaced by another poll.
  Whether a handler succeeds is not assumed: `Process` includes throwing.
- Time passes: ends of leases and backoffs, the 24 h of a receipt, the age of an
  approval, a session's expiry.
- The event queue orders jobs by `availableAt`; fairness per worker, not per job,
  is assumed, and `EventuallySettled` holds because attempts are finite.
- The demo's watchdog runs every 2 s on every replica: weak fairness of its
  statements and strong fairness of a successful hangup, i.e. a provider that is
  asked again and again complies some time. Requests get no fairness: a visitor
  may vanish and a process stop.
- The lane of the integrations polls like the others (`workforce/jobs/worker.ts`,
  `processLane`): the delivery due longest is claimed, a live sender goes on and a
  lease without a sender lapses (`OutboxFairness`).
- The background worker reconciles and expires before it claims, in every poll
  (`platform/background.ts`); an execution goes on unless its process dies
  (`PipelineFairness`, only for the durable deployment: the web process promises
  nothing).
- Everything else is checked for safety only. A recovery case, a draft, a
  conversation or a credit may wait for a person for ever, by design.

`MCServices` conjoins the fairness of its three parts. Of a part that is not
running no action is enabled in its initial state, so its fairness demands
nothing.

## Proofs

Every theorem holds for every value of the constants under the one named
assumption of its module; those assumptions say what a constant is (a bound is a
number, a map has its domain and range, a set of workers or records is finite),
and TLC evaluates them in the runs. Each safety theorem rests on an inductive
invariant that TLC checked as an invariant of the run before it was proved.
Every safety and action property of a passing run is proved. A proof module is
about one component, or about several that share an MC module and no variable.

**EventJobs.** `EventJobs_proofs` proves, for any sets of keys, payloads, handlers and workers
and any bounds, under `ConstantsAssumption` alone:

| Theorem | Statement |
|---|---|
| `TypeCorrect` | `Spec => []TypeOK` |
| `Fencing` | `Spec => []ClaimsAreFenced` |
| `ExactlyOnce` | `Spec => []HandledExactlyOnce` |
| `HolderSettles` | `Spec => OnlyHolderSettles` |
| `Refinement` | `Spec => KeepsLedger` |

*The invariant.* `ClaimsAreFenced` is not inductive: it speaks of workers whose
token is on the row and says nothing of the others, one of which could own the
same token. `IInv` adds `ClaimInv` (tokens identify claims: no two busy workers
have the same, and none was issued in the future), `LeaseInv` (a row has a token
exactly while it is running, no token on a row is yet to be issued, and the
holder's attempt number is the row's) and `EventInv` (no job without an event).
With `LeaseInv` a worker that passes the token check knows that the row is
running, hence not completed, hence that no handler's effect exists: that is
the step of `HandledExactlyOnce`.

*The refinement.* `OneRow` says that a step touches one row; `RowStep` lists
what can happen to it. `LedgerStep` maps each: claims, failures with
retry and expiries are stutters of the ledger, completion is `Handle`, death is
`Park`, requeue is `Reopen`, publication is `Record`.

**MessageDelivery** (`Services_proofs`). For any messages, workers and numbers of sends
(`ConstantsAssumption`).

| Theorem | Statement |
|---|---|
| `SentOnce` | `Spec => []AtMostOneAcceptance` |
| `Evidence` | `Spec => []StatusIsEvidence` |
| `AnswersAlwaysLand` | `Spec => []AnswersLand` |
| `FinalIsFinal` | `Spec => FinalStays` |
| `OptOutHolds` | `Spec => OptOutStopsSends` |

A status says nothing of who may still write it, so none of these is inductive.
`IInv` adds what the carrier can have said of each send (`CarrierInv`: all sends
before the last claim were refused), whose token is on a row (`TokenInv`: one
worker's, and it is the number of the last claim), and what a worker that holds
an answer knows (`AnswerInv`: the answer was so at the carrier). Then only the
last send can ever be accepted, and a status is written by the one worker whose
answer supports it, or by a callback of a send that went out.

**DemoSession** (`Services_proofs`), under `DemoAssumption`.

| Theorem | Statement |
|---|---|
| `UsageStaysBounded` | `DemoSpec => []UsageBounded` |
| `TranscriptsOnlyGrow` | `DemoSpec => TranscriptsGrow` |

What a session has used says nothing of the requests that are about to use more.
`DemoInd` counts them: of a chat, the replies made and the turns claimed by
requests on their way are together at most the turns of the row; of a voice
session, one request is there to make its call, and none once it is made. For the
transcripts, `TurnsInv`: in a session in which no request outlived its marker, the
marker is set while a request works, one request works at a time, and
what it has seen is what the row holds. Without the reservation that is false,
as the model shows.

**AgentRuntime.** For any runs, inputs, workers and limits, finite or not
(`ConstantsAssumption`).

| Theorem | Statement |
|---|---|
| `WaitsForApproval` | `Spec => []WaitsForItsApproval` |
| `WithinBudget` | `Spec => []ExecutedWithinBudget` |
| `CurrentAgentActs` | `Spec => OnlyCurrentAgentActs` |
| `JournalOrdered` | `Spec => []JournalInOrder` |
| `FinishedIsFinished` | `Spec => FinishedRunsStay` |

A proposal is written to the row of the last step: that the row is blank, so
that nothing is overwritten, is `StepsInv` (steps are numbered without a gap, an
open step is the last and has no action, and a worker that thinks and still holds
its run thinks about that step). Given that, `RowsInv` is inductive: an approval
is pending exactly while its action is, a run waits for one of them
(`OneApproval`), two actions never have one input (`InputsOnce`), and an input is
executed exactly if an action with it is completed (`ExecutedMeans`). With these the
sets of the properties have at most one element, and the executed inputs are
no more than the proposals, which `Budgets` keeps finite. `FinishedIsFinished` uses that a
step changes one run at most, and that one is not finished (`OneRunAtATime`): an
expired approval stops a run without looking at it, and `OneApproval` is why that
run is waiting.

**Outbox** (`Integrations_proofs`). `JournalTold` (`[]JournalIsTheTruth`) and `SettledByOne` (no two
workers hold the current claim of a delivery), under `OutboxAssumption`.
`OutboxInv` adds `RowInv` (the token of a running row is its attempt),
`JournalInv` (the journal is behind the row: no entry for an attempt that runs or
is to come, which is why a late worker's second entry cannot collide) and
`SenderInv` (claims of one delivery differ by their attempt; an answer
"delivered" arrived).

**Recovery.** For any cases, dispatches, messages, members and limits
(`ConstantsAssumption`).

| Theorem | Statement |
|---|---|
| `OneUnresolved` | `Spec => []OneUnresolvedPerContact` |
| `HandoffAgrees` | `Spec => []HandoffMatchesCase` |
| `UnknownStaysFrozen` | `Spec => []UnknownFreezes` |
| `SentIsEvidence` | `Spec => []DispatchIsEvidence` |
| `StopHeeded` | `Spec => StopIsHeeded` |

`IInv` has two halves. `CasesInv` is the table of states of a case and its
handoff, with the fact that a case that is not enrolled has nothing: the bulk
updates of reconfiguration and of a lost contact keep it because they write both
sides. `DispatchInv` says that what went out of a dispatch went out under its last
claim, that nothing went out of one that is pending, cancelled or failed, and
that what may be on its way was claimed; `AttemptsInv` counts the claimed dispatches that
no member asked for. `StopHeeded` needs no more: nothing
but a claim hands a message over, and it looks for messages that the case has not
seen in its own transaction.

**CrmSync** (`Integrations_proofs`). For any connections, ids, records, members
and clocks (`ConstantsAssumption`).

| Theorem | Statement |
|---|---|
| `DelayedNews` | `Spec => []DelayedNewsLands` |
| `CorrectionsHold` | `Spec => CorrectionsStand` |
| `OptOutKept` | `Spec => OptOutStays` |
| `SavesSee` | `Spec => SavesSeeWhatTheyReplace` |
| `ContactsActive` | `Spec => []ActiveContacts` |

An observation overwrites a correction if its connection published the version
that is there, and the barrier for that connection is the watermark of its
mapping. `CrmInv` ties the two: the last writer is a publisher of its version, and
unless an id of the record was changed by an administrator, each publisher has
exactly one id for the record, whose watermark is not before the last correction
(`PubSound`). So an observation that gets past its watermark is newer than the
correction. `SavesSee` rests on `FormSound`: a form shows the record, or the version has
gone on. The invariant has no bound on versions: that `MaxWrites` is kept, which
is part of `TypeOK`, is left to TLC.

**Tenancy, Inbound, Knowledge** (`Desk_proofs`).

| Theorem | Statement |
|---|---|
| `OwnerAlways` | `TenancySpec => []AlwaysAnOwner` |
| `ChangedInOffice` | `TenancySpec => MembersChangeInOffice` |
| `StopStandsForNumbers` | `InboundSpec => NumberStopStands` |
| `WithdrawnIsNotSaid` | `KnowledgeSpec => WithdrawnStaysOut` |

The first two need only the types: the guard at the moment of the change looks at
all that matters. The third needs that every number that asked to stop is on the
list of suppressions the claim looks at (`RefusedAreSuppressed`). In
`WithdrawnStaysOut` a member's page and a decision are copies of rows. `KnowledgeInv` says that copies are never ahead of the rows
(`ScreensAreOld`), that a decision at the present revision was made with what is
sayable now (`DecidedOnThis`), and that a page older than a withdrawal has an
older revision of each row that stands in the way (`OldScreensAreBarred`), so
the check of revisions refuses what is submitted from it.

**LeadPipeline, LeadOutreach, DemoBuilder** (`Leads_proofs`). `PipelineSpec` needs no
assumption.

| Theorem | Statement |
|---|---|
| `TaskRunsOnce` | `PipelineSpec => []TasksRunOnce` |
| `CompletedIsFinal` | `PipelineSpec => CompletedStays` |
| `HandedOverAsAsked` | `OutreachSpec => []DeliveriesAreAsked` |
| `RefusalsHold` | `OutreachSpec => []RefusalStands` |
| `PublishedIsReviewed` | `DemoBuilderSpec => []PublishedWasReviewed` |
| `CountFollows` | `DemoBuilderSpec => []VisitsAreCounted` |
| `OnlyWhileShared` | `DemoBuilderSpec => RecordedWhileShared` |

`PipelineInv`: a task was executed exactly if it left `pending`, and in the
durable mode one process at most executes a run. `DeliveryInv` is an account:
what was accepted and the senders that are on their way (a cardinality, hence
`Desks` finite) do not exceed what was asked for; an operator that read "failed"
adds to both sides only through the update, and a delivery that is failed has a
failure that no retry has answered yet unless retries crossed (`DeliveriesFollow`).
`RefusalsInRows`: the row says every refusal that was neither lifted nor written over. `DemoInv`: a tab whose
version is the row's shows what the row holds (`TabsAreOld`); an edit raises the
version, so a page read before it is refused at publication.
`VisitsAreCounted` (the counter is the number of events) is the invariant under
`RecordedWhileShared`.

**Bookings** (`Desk_proofs`) needs no assumption.

| Theorem | Statement |
|---|---|
| `TextsSentOnce` | `BookingsSpec => []TextsOnce` |
| `ToldWasPlaced` | `BookingsSpec => []ToldIsPlaced` |
| `LinkedStopHolds` | `BookingsSpec => LinkedStopStands` |

`TextSound` follows a text from the row that its fence makes: the row is never
deleted, so one server at most is between the fence and the answer, and while it is
there the provider has taken nothing. `BookedInv`: a request recorded as booked
was placed by a destination or is a dry run; chats are left out, because they are told
so in any case (see below). `StopInv`: once the linked organization is told of the
opt-out the number is suppressed, and the ledger looks at that at the last moment.

**AgentBuilder and BlueprintCompiler** (`Desk_proofs`), under `BuilderAssumption`.
The module has no specification of its own; the theorems are about
`BuilderInit /\ [][BuilderNext]_builderVars`.

| Theorem | Statement |
|---|---|
| `CompilesNoWider` | `Executable(b, allowlist) => NoWider(b, Definition(b), Subjects, Calls)` |
| `AnsweredOnce` | `... => []GeneratesOnce` |
| `ActivatesRead` | `... => ActivatesWhatWasRead` |

`CompilesNoWider` is about every blueprint and not the sampled ones: an agent
looks at no subject that fails a condition, uses no tool that was not allowed, and
changes nothing unasked unless that was made automatic in Autopilot. `BuilderInv` has
the versions of a blueprint numbered without a gap (`Numbered`), so that the one
a page shows is the one it names, and what the row of a generation key allows
(`Requested`): a key whose answer is awaited or here is not completed, a key is completed
exactly if a version came of it, and one that was given up after its process had ended
stays failed. A key given up under a live process need not: its late answer is saved.

**LeadIngestion** (`Leads_proofs`), under `IngestionAssumption`: businesses and
listings have source records of their own.

| Theorem | Statement |
|---|---|
| `NewIsNew` | `IngestSpec => NewBusinessIsNew` |
| `ImportsAreAccounted` | `IngestSpec => []ImportAccounted` |

`IngestInv`: an importer past locking holds every identity of its record
(`Works`), a run has one importer, a source record keeps the table of its row
(`RowsOfKind`), and what an importer found when it resolved is still so when it writes
(`StillNew`). The last is kept by the writes of others because those hold the
locks of what they write; a merge
adds to a row the identities of its own record only. The account of an import is
inductive on top of it, with the records that were counted twice on its other side.

**LeadScoring** (`Leads_proofs`), under `ScoringAssumption`, of
`ScoringInit /\ [][ScoringNext]_scoringVars`.

| Theorem | Statement |
|---|---|
| `ActivityHelps` | `... => ActivityNeverHurts` |
| `ScoredStays` | `... => ScoredIsNotStale` |

The first is the monotony of the score in the numbers of reviews and photos and
in the rating, for all values: each table of tiers rises, the deduction for a
weak business only ends as activity grows, and the rest of the score depends on
nothing of that. The latest observation of a key
exists because sets of observations are finite and times are numbers
(well-foundedness, not induction). `ScoringInv` orders the clocks: no observation
is dated after the row of the business, nor that after the clock (`Dated`).

**Attribution, SalesRecords** (`Sales_proofs`).

| Theorem | Statement |
|---|---|
| `CreditHasEvidence` | `AttributionSpec => []CreditIsEvidenced` |
| `RecordsStayTogether` | `SalesSpec => []RecordsAgree` |

`CreditInv` adds that a delivery belongs to an enrolled case and that a recovered
appointment that was not moved still belongs to the case of its credit
(`RowsAndHomes`), so that its event finds the credit; times and amounts are any numbers. `SalesInv` holds for any finite set of records and any
references between them: besides the rules it needs that references lead to
stored records of the right kind (`LinksLead`), that those a rule goes through
are there (`LinksGiven`) and that a stored stage has one of three outcomes
(`StagesMean`). A version 1 import takes the first stage that means its
status; that there is a first one is proved from the well-founded order on the
naturals (`LeastNatural`), since induction itself is out of reach.

**Workforce** (`Sales_proofs`), under `WorkforceAssumption`: `FollowUpsStand`
(`WorkforceSpec => []HandoffsStand`). `WorkInv` adds that whatever disturbs a waiting
proposal stays visible for good (`Moved`: a later version of the agent, a later time
on the deal or the customer, an archived row), which is why looking once, when the
proposal is approved, is enough. An event is looked at by the agents in turn. What
the turns of any number of agents keep is proved without induction: were there a
turn that breaks it there would be a first one (`LeastNatural`), and the turn
before it keeps it.

**What stays with TLC.** The six liveness properties, `EventuallySettled`,
`RunsEnd`, `PipelinesSettle`, `EveryMessageResolves`, `RecordedCallsEnd` and
`EveryPostEnds`, with the fairness they need: `ENABLED` is beyond the prover. The
type invariants named under [Properties](#properties). The properties that are
violated are shown by counterexamples. No module has a RECURSIVE operator: what
repeats is a recursive function, and facts about all its values are proved from
the well-founded order of the naturals as above.

## Where the code and its documents disagree

Violation runs, each with its finding in `PROJECT.json`:

1. `crm_corrections`. `events/intake.ts:311-312` says the barrier for local
   corrections is passed only by the connection that published the exact
   current version; an ignored version 1 event counts as such a publication.
2. `pipeline_restart`. `INTERNALSETUP.md:634` says ingestion keys make restarts
   safe; a run that is taken up again takes the import its dead process had
   begun for a finished one, and completes without the records.
3. `sms_stop`. `README.md:94` says STOP opts out until START; a handler that
   read the conversation earlier sets it active again by its id
   (`sms-booking.ts:157-162`, and `booked` at 245-250).

Stated as a property and violated, without a run of its own; to see a behaviour,
make the named property the only one of the cfg:

- `NoDowngrade` (`MCServices.cfg`). `docs/COMMUNICATIONS.md:110-111`: late
  statuses cannot downgrade a sent message into acceptance. After 24 h without a
  receipt it becomes `unknown`, and from there a late `accepted` is taken.
- `CallsAreKnown` (`MCServices.cfg`). `live-runtime.ts:181` and
  `docs/LIVE_DEMO_EXPERIENCE.md:51`: the call id is kept for the watchdog. An
  end that read the row before the id was recorded clears it afterwards (184).
- `HistoryIsComplete` (`MCServices.cfg`, with `MaxLapses = 2`).
  `docs/ZAPIER_INTEGRATION.md:315-322`: the history shows the attempts. Each
  prepare records only the attempt before it (`integrations/worker.ts:62`), so
  two lapses in a row lose one.
- `StopNotOvertaken` (`MCRecovery.cfg`, with `MaxMessages = 2`, `MaxActs = 2` and
  `Generations = {"cases"}`).
  `recovery/lifecycle.ts:129`: employee-written messages must not overtake an
  unprocessed STOP. A later message that is handled first hides it.
- `EvidenceIsScored` (`MCLeads.cfg`). `INTERNALSETUP.md`, section 19: ENRICH
  comes before SCORE. The score is calculated as of the time the pipeline
  started (`pipeline/orchestrator.ts:347`), which excludes what its own audit
  found after that.
- `LostCreditIsRevoked` (`MCRecovery.cfg`, with `Generations = {"credit"}`).
  `docs/REVENUE_RECOVERY.md:169`: cancellation revokes invalid credit. An appointment
  that is detached from its opportunity and then cancelled keeps it, since the event
  looks for the case through the row as it is by then (`recovery/events.ts:163-179`).
- `RetriesFollowFailures` (`MCLeads.cfg`, with `Parts = {"outreach"}`).
  `lead-intelligence/delivery/service.ts:352`: only failed deliveries can be retried.
  The update (356-359) does not ask again, so two operators who both read the failure
  hand the lead over twice.
- `RefusalsAreKept` (`MCLeads.cfg`, with `Parts = {"outreach"}`).
  `INTERNALSETUP.md:676`: consent opens texts only while the lead is not
  do-not-contact, and an opt-out takes effect at once. A permission written from a row
  that was read before the refusal (`delivery/permissions.ts:16-49`) undoes it.
- `EveryToldIsPlaced` (`MCDesk.cfg`, with `Desks = {"bookings"}`).
  `services/chatbot.ts:27`: the bot may never say a booking was accepted unless the
  tool succeeds; its answer says `booked: true` whatever the tool returned (89-95).
- `FailedIsTerminal` (`MCDesk.cfg`, with `Desks = {"builder"}`).
  `docs/AGENT_BUILDER.md:135`: failed and abandoned keys are terminal. A key is given up
  after 60 s by its age alone (`agent-builder/service.ts:197`), and a process that comes
  later completes it without looking (271-274).

Seen while modelling, without a run: `docs/AGENT_RUNTIME.md:266-267` says
`maximumAttempts` caps proposals, but a denied proposal is stored as well and
only executions and approvals are capped (`runtime.ts:402-428`). A pending
dispatch that the adapter cancels leaves its case with a finished run under an
unchanged trigger key, so no scan starts another (`orchestrator.ts:179`). A
dispatch lease that expires after a takeover moves a `human_owned` case to
`handoff` while the handoff stays owned (`orchestrator.ts:254`), which
`HandoffMatchesCase` admits. A win without any message of the agent is refused as
recovered although `docs/REVENUE_RECOVERY.md:167` speaks of any intervention
(`attribution.ts:161`); a review that repeats one from before a revocation is
refused as a reused key (`:169`); a revoked credit keeps the unique reference of
its payment. An appointment that becomes `no_show` or `completed` publishes no
outcome, so credit for it stays. An agent that was paused after a page was read is
turned on again by activating from that page, as a pause raises no version
(`agent-builder/service.ts:357`). A call that ends while its booking is
being made is texted that nothing was booked. The preview of a demo is not tied to
the version that is published later (`demo-engine/routes.ts:260-276`); the form
that publishes is. `docs/CANONICAL_DATA_MODEL.md:169-170` says imports do not
enforce required fields; version 2 imports of records the organization requires a
field for are refused (`crm/custom-fields.ts:45-52`), version 1 imports are not.

## What is not modelled

Components under [not modelled](#not-modelled) are pages, parsing, wiring and
calls to services without state of their own. Inside the modelled components the following is left out:

- authentication beyond `Tenancy`, scopes, rate limits, validation of payloads,
  audit rows, the limit of fifty connections;
- `CrmSync`: records other than contacts and opportunities, whether a connection
  is enabled; `SalesRecords`: versions (which are `CrmSync`), amounts and most
  dates, tags, assignees, the limits of 100 stages and fields, several fields;
- `Workforce`: the text of a handoff, settings that differ between agents, reports,
  the hourly scheduler (it publishes an event under a key of the hour);
- `MessageDelivery`: channel configuration, inbox views, e-mail (an
  interface that no provider of the repository implements);
- `AgentRuntime`: what each tool does (one internal effect), prompts, the
  knowledge given to a run (which is `Knowledge`), more than one subject or agent;
- `Recovery`: classification rules (their verdicts are inputs), wording, working
  hours beyond a Boolean, more than one contact;
- `DemoSession`: IP and day quotas beyond the number of sessions;
- `Outbox`: address checks, sealing of secrets, response bodies, rate limits;
- `LeadIngestion`: normalization (records have normalized identifiers), properties
  and listings under an agent; `LeadScoring`: the wording of reasons, the analyst;
  `LeadOutreach`: payloads of destinations, metrics;
- `Bookings`: available times (any), the words of texts and of the models, daily
  summaries, the alarm messages to the operator of the platform;
- `AgentBuilder`: how a proposal is parsed and the form; `Knowledge`: the ranking
  of passages; `Attribution`: more than one contact;
- `Inbound`: closing a conversation other than by archiving it, removing a
  number, the older opt-out flag of a client, attachments;
- `DemoBuilder`: signed tokens of forms, the return calculator, what a homepage
  says beyond whether it could be read.
