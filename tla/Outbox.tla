-------------------------------- MODULE Outbox --------------------------------
(***************************************************************************)
(* Outbound webhooks: a published event leaves one delivery per subscribed *)
(* endpoint (integrations/outbox.ts), integration workers send what is due *)
(* (integrations/worker.ts), and an administrator switches endpoints and   *)
(* retries what failed for good (integrations/service.ts).                 *)
(*                                                                         *)
(* A claim is one statement, Prepare and Settle are transactions of the    *)
(* tenant, the request is sent between them with nothing held.  A lease    *)
(* lasts 60 seconds: the worker may be gone, or slower than that.  Each    *)
(* claim counts attempts up, so the number of the attempt stands for the   *)
(* lease token it writes.                                                  *)
(***************************************************************************)
EXTENDS Integers, FiniteSets

CONSTANTS
  Endpoints,
  EndpointLimit,  \* webhook endpoints per organization (20)
  Posts,          \* [endpoint, occasion]: deliveries, events' and tests'
  Occurrences,    \* published business events; other occasions are tests
  Wants,          \* the events each endpoint subscribed to when it was made
  Allowance,      \* attempts before a delivery is dead (8)
  Senders,        \* workers on the integrations lane
  MaxRevivals,    \* a bound on an administrator's retries
  MaxLapses       \* a bound on workers that die or outlast their lease

ASSUME OutboxAssumption ==
  /\ Allowance \in Nat /\ MaxRevivals \in Nat /\ MaxLapses \in Nat

VARIABLES
  endpoint,   \* WebhookEndpoint: "none", "enabled" or "disabled"
  published,  \* the events that have been published
  outbox,     \* OutboundDelivery: [status, attempts, allowed, token, lapsed]
  journal,    \* OutboundAttempt: what became of each attempt of a delivery
  sender,     \* what each worker is doing
  requested,  \* history: the attempts whose request was sent
  received,   \* history: the deliveries whose request reached the endpoint
  revivals, lapses

outboxVars ==
  <<endpoint, published, outbox, journal, sender, requested, received, revivals, lapses>>

NoPost == [status |-> "none", attempts |-> 0, allowed |-> 0, token |-> 0, lapsed |-> FALSE]
NewPost == [NoPost EXCEPT !.status = "pending", !.allowed = Allowance]
IdleSender == [pc |-> "idle", post |-> {}, attempt |-> 0, allowed |-> 0, on |-> FALSE,
               result |-> "none"]
Outcomes == {"delivered", "refused", "transport_failed", "attempts_exhausted",
             "endpoint_disabled", "lease_expired_outcome_unknown"}

OutboxInit ==
  /\ endpoint = [e \in Endpoints |-> "none"]
  /\ published = {}
  /\ outbox = [d \in Posts |-> NoPost]
  /\ journal = [d \in Posts |-> {}]
  /\ sender = [w \in Senders |-> IdleSender]
  /\ requested = {} /\ received = {}
  /\ revivals = 0 /\ lapses = 0

\* Attempts may pass what is allowed: the claim after a lapse counts one more.
PostRows == [status : {"none", "pending", "running", "succeeded", "dead"},
             attempts : Nat, allowed : Nat, token : Nat, lapsed : BOOLEAN]
JournalRows == [attempt : Nat \ {0}, outcome : Outcomes]
SenderRows == [pc : {"idle", "claimed", "prepared", "answered"}, post : SUBSET Posts,
               attempt : Nat, allowed : Nat, on : BOOLEAN, result : Outcomes \union {"none"}]

OutboxTypeOK ==
  /\ endpoint \in [Endpoints -> {"none", "enabled", "disabled"}]
  /\ published \subseteq Occurrences
  /\ outbox \in [Posts -> PostRows]
  /\ journal \in [Posts -> SUBSET JournalRows]
  /\ sender \in [Senders -> SenderRows]
  /\ requested \subseteq [post : Posts, attempt : Nat \ {0}] /\ received \subseteq Posts
  /\ revivals \in 0 .. MaxRevivals /\ lapses \in 0 .. MaxLapses

-----------------------------------------------------------------------------
\* The administrator and the publisher: one tenant transaction each.

CreateEndpoint(e) ==
  /\ endpoint[e] = "none"
  /\ Cardinality({f \in Endpoints : endpoint[f] # "none"}) < EndpointLimit
  /\ endpoint' = [endpoint EXCEPT ![e] = "enabled"]
  /\ UNCHANGED <<published, outbox, journal, sender, requested, received, revivals, lapses>>

SwitchEndpoint(e) ==
  /\ endpoint[e] # "none"
  /\ endpoint' = [endpoint EXCEPT ![e] = IF @ = "enabled" THEN "disabled" ELSE "enabled"]
  /\ UNCHANGED <<published, outbox, journal, sender, requested, received, revivals, lapses>>

Add(posts) == outbox' = [d \in Posts |-> IF d \in posts THEN NewPost ELSE outbox[d]]

\* enqueueEvent, in the transaction that publishes the event.
Publish(event) ==
  /\ event \notin published
  /\ published' = published \union {event}
  /\ Add({d \in Posts : /\ d.occasion = event
                        /\ event \in Wants[d.endpoint] /\ endpoint[d.endpoint] = "enabled"})
  /\ UNCHANGED <<endpoint, journal, sender, requested, received, revivals, lapses>>

TestEndpoint(d) ==
  /\ d.occasion \notin Occurrences /\ outbox[d].status = "none"
  /\ endpoint[d.endpoint] = "enabled"
  /\ Add({d})
  /\ UNCHANGED <<endpoint, published, journal, sender, requested, received, revivals, lapses>>

Revivable(d) == outbox[d].status = "dead"

Revive(d) ==
  /\ Revivable(d) /\ endpoint[d.endpoint] = "enabled"
  /\ revivals < MaxRevivals /\ revivals' = revivals + 1
  /\ outbox' = [outbox EXCEPT ![d].status = "pending", ![d].allowed = outbox[d].attempts + Allowance,
                              ![d].token = 0, ![d].lapsed = FALSE]
  /\ UNCHANGED <<endpoint, published, journal, sender, requested, received, lapses>>

-----------------------------------------------------------------------------
\* A worker: claim, prepare, send, settle.

Holds(w, d) == sender[w].pc # "idle" /\ sender[w].post = {d}
Current(w, d) == Holds(w, d) /\ outbox[d].status = "running" /\ outbox[d].token = sender[w].attempt
Rest(w) == sender' = [sender EXCEPT ![w] = IdleSender]

\* Mutant: a running delivery is left to the worker that claimed it.
ClaimablePending(d) == outbox[d].status = "pending"

Claimable(d) ==
  \/ outbox[d].status = "pending"
  \/ outbox[d].status = "running" /\ outbox[d].lapsed

ClaimPost(w, d) ==
  /\ sender[w].pc = "idle" /\ Claimable(d)
  /\ outbox' = [outbox EXCEPT ![d].status = "running", ![d].attempts = @ + 1,
                              ![d].token = outbox[d].attempts + 1, ![d].lapsed = FALSE]
  /\ sender' = [sender EXCEPT ![w] =
       [IdleSender EXCEPT !.pc = "claimed", !.post = {d}, !.attempt = outbox[d].attempts + 1,
                          !.allowed = outbox[d].allowed]]
  /\ UNCHANGED <<endpoint, published, journal, requested, received, revivals, lapses>>

Entries(d, n) == {j \in journal[d] : j.attempt = n}

\* The attempt before this one is journaled as unknown unless it has an entry.
PreparePost(w, d) ==
  /\ sender[w].pc = "claimed" /\ Holds(w, d)
  /\ LET n == sender[w].attempt - 1
     IN IF Current(w, d)
          THEN /\ journal' = [journal EXCEPT ![d] =
                    IF n > 0 /\ Entries(d, n) = {}
                      THEN @ \union {[attempt |-> n, outcome |-> "lease_expired_outcome_unknown"]}
                      ELSE @]
               /\ sender' = [sender EXCEPT ![w].pc = "prepared",
                                           ![w].on = endpoint[d.endpoint] = "enabled"]
          ELSE Rest(w) /\ UNCHANGED journal
  /\ UNCHANGED <<endpoint, published, outbox, requested, received, revivals, lapses>>

Spent(w) == sender[w].attempt > sender[w].allowed

Refuse(w, d) ==
  /\ sender[w].pc = "prepared" /\ Holds(w, d)
  /\ Spent(w) \/ ~sender[w].on
  /\ sender' = [sender EXCEPT ![w].pc = "answered",
       ![w].result = IF Spent(w) THEN "attempts_exhausted" ELSE "endpoint_disabled"]
  /\ UNCHANGED <<endpoint, published, outbox, journal, requested, received, revivals, lapses>>

\* The endpoint may have taken a request whose answer was lost.
PostOut(w, d) ==
  /\ sender[w].pc = "prepared" /\ Holds(w, d)
  /\ ~Spent(w) /\ sender[w].on
  /\ requested' = requested \union {[post |-> d, attempt |-> sender[w].attempt]}
  /\ \E result \in {"delivered", "refused", "transport_failed"}, arrives \in BOOLEAN :
       /\ arrives => result # "refused"
       /\ result = "delivered" => arrives
       /\ sender' = [sender EXCEPT ![w].pc = "answered", ![w].result = result]
       /\ received' = IF arrives THEN received \union {d} ELSE received
  /\ UNCHANGED <<endpoint, published, outbox, journal, revivals, lapses>>

\* Mutant: whoever comes back settles the delivery.
SettlesAny(w, d) == outbox[d].status # "none"

Settles(w, d) == Current(w, d)

Settled(w) ==
  CASE sender[w].result = "delivered" -> "succeeded"
    [] sender[w].result = "endpoint_disabled" -> "dead"
    [] OTHER -> IF sender[w].attempt >= sender[w].allowed THEN "dead" ELSE "pending"

\* The journal entry is inserted; its key is the delivery and the attempt.
SettlePost(w, d) ==
  /\ sender[w].pc = "answered" /\ Holds(w, d)
  /\ IF Settles(w, d)
       THEN /\ outbox' = [outbox EXCEPT ![d].status = Settled(w), ![d].token = 0,
                                        ![d].lapsed = FALSE]
            /\ journal' = [journal EXCEPT ![d] =
                 @ \union {[attempt |-> sender[w].attempt, outcome |-> sender[w].result]}]
       ELSE UNCHANGED <<outbox, journal>>
  /\ Rest(w)
  /\ UNCHANGED <<endpoint, published, requested, received, revivals, lapses>>

SenderDies(w) ==
  /\ sender[w].pc # "idle" /\ lapses < MaxLapses
  /\ lapses' = lapses + 1 /\ Rest(w)
  /\ UNCHANGED <<endpoint, published, outbox, journal, requested, received, revivals>>

\* Sixty seconds pass: for a worker that is gone, or for a slow one.
LeaseLapses(d) ==
  /\ outbox[d].status = "running" /\ ~outbox[d].lapsed
  /\ outbox' = [outbox EXCEPT ![d].lapsed = TRUE]
  /\ IF \E w \in Senders : Current(w, d)
       THEN lapses < MaxLapses /\ lapses' = lapses + 1
       ELSE UNCHANGED lapses
  /\ UNCHANGED <<endpoint, published, journal, sender, requested, received, revivals>>

SendPost(w) == \E d \in Posts : PreparePost(w, d) \/ Refuse(w, d) \/ PostOut(w, d) \/ SettlePost(w, d)

OutboxNext ==
  \/ \E e \in Endpoints : CreateEndpoint(e) \/ SwitchEndpoint(e)
  \/ \E event \in Occurrences : Publish(event)
  \/ \E d \in Posts : TestEndpoint(d) \/ Revive(d) \/ LeaseLapses(d)
  \/ \E w \in Senders : SendPost(w) \/ SenderDies(w)
  \/ \E w \in Senders, d \in Posts : ClaimPost(w, d)

OutboxSpec == OutboxInit /\ [][OutboxNext]_outboxVars

\* The lane's ticks claim the delivery that has been due longest, a worker
\* goes on with what it claimed, and leases run out.
OutboxFairness ==
  /\ \A d \in Posts :
       /\ WF_outboxVars(\E w \in Senders : ClaimPost(w, d))
       /\ WF_outboxVars(LeaseLapses(d) /\ \A w \in Senders : ~Current(w, d))
  /\ \A w \in Senders : WF_outboxVars(SendPost(w))

-----------------------------------------------------------------------------
\* A delivery is called a success only if an endpoint got it, one attempt has
\* at most one entry, and the last word of the journal is that of the row
\* (worker.ts:86-116): workers that come back late change nothing.
JournalIsTheTruth ==
  \A d \in Posts :
    /\ \A i, j \in journal[d] : i.attempt = j.attempt => i = j
    /\ outbox[d].status = "succeeded" =>
         d \in received /\ [attempt |-> outbox[d].attempts, outcome |-> "delivered"] \in journal[d]
    /\ outbox[d].status = "dead" =>
         \E j \in Entries(d, outbox[d].attempts) : j.outcome # "delivered"

\* Every delivery is received or given up in the end, if workers stop dying
\* (worker.ts:23: an expired lease is claimed again).
EveryPostEnds ==
  \A d \in Posts : (outbox[d].status = "pending") ~> (outbox[d].status \in {"succeeded", "dead"})

\* What docs/ZAPIER_INTEGRATION.md:315-322 promises of the history: an attempt
\* whose request was sent and that a later one replaced has an entry.
HistoryIsComplete ==
  \A r \in requested :
    r.attempt < outbox[r.post].attempts /\ outbox[r.post].status \in {"succeeded", "dead"} =>
      Entries(r.post, r.attempt) # {}
=============================================================================
