----------------------------- MODULE EventLedger -----------------------------
(***************************************************************************)
(* What the event pipeline promises to its callers, with no workers, no    *)
(* leases and no retries in sight: a published event is recorded once, its *)
(* handlers are applied together and once, and an event that could not be  *)
(* applied is parked whole until an operator reopens it.                    *)
(***************************************************************************)
CONSTANTS Keys,      \* idempotency keys of one organization and source
          Payloads,  \* payload hashes
          NoEvent,   \* the key has not been published
          Handlers,  \* identities in the handler registry
          Required   \* the handlers that every process has enabled

VARIABLES event,     \* [Keys -> Payloads \cup {NoEvent}]
          stage,     \* [Keys -> Stages]
          applied    \* [Keys -> SUBSET Handlers], whose effects are committed

ledgerVars == <<event, stage, applied>>

\* "recorded" events were published without a job and are never handled.
Stages == {"absent", "recorded", "open", "handled", "parked"}

LedgerInit ==
    /\ event = [k \in Keys |-> NoEvent]
    /\ stage = [k \in Keys |-> "absent"]
    /\ applied = [k \in Keys |-> {}]

Record(k) ==
    /\ stage[k] = "absent"
    /\ \E p \in Payloads : event' = [event EXCEPT ![k] = p]
    /\ \E s \in {"recorded", "open"} : stage' = [stage EXCEPT ![k] = s]
    /\ UNCHANGED applied

Handle(k) ==
    /\ stage[k] = "open"
    /\ applied[k] = {}
    /\ stage' = [stage EXCEPT ![k] = "handled"]
    /\ \E H \in SUBSET Handlers :
          /\ Required \subseteq H
          /\ applied' = [applied EXCEPT ![k] = H]
    /\ UNCHANGED event

Park(k) ==
    /\ stage[k] = "open"
    /\ stage' = [stage EXCEPT ![k] = "parked"]
    /\ UNCHANGED <<event, applied>>

Reopen(k) ==
    /\ stage[k] = "parked"
    /\ stage' = [stage EXCEPT ![k] = "open"]
    /\ UNCHANGED <<event, applied>>

LedgerNext == \E k \in Keys : Record(k) \/ Handle(k) \/ Park(k) \/ Reopen(k)

LedgerSpec == LedgerInit /\ [][LedgerNext]_ledgerVars
==============================================================================
