------------------------------- MODULE Inbound -------------------------------
(***************************************************************************)
(* People and their numbers (communications/service.ts, ledger.ts,         *)
(* safety.ts).  A text is kept for the one contact that has the number of  *)
(* its sender; a number that nobody or several have gets a contact of its  *)
(* own.  A text that asks to stop suppresses the number, and everything    *)
(* that was written to it before must not go out any more, whoever the     *)
(* number belongs to by then.  How a message is sent is in MessageDelivery;*)
(* here a send is queued, claimed or cancelled.                            *)
(***************************************************************************)
EXTENDS Naturals, FiniteSets

CONSTANTS
  People,    \* Contact rows there may be
  Numbers,      \* telephone numbers
  FirstNumber,  \* the number of each person at first; "new" without a row
  Incoming,        \* ids of texts the carrier delivers, each any number of times
  Sender,       \* the number each is from
  AsksToStop,   \* whether it asks to stop (isOptOut)
  Sends         \* messages members write

ASSUME InboundAssumption ==
  /\ FirstNumber \in [People -> Numbers \union {"new"}]
  /\ Sender \in [Incoming -> Numbers] /\ AsksToStop \in [Incoming -> BOOLEAN]

VARIABLES
  person,    \* [number, barred, archived, consent, open]
  suppressions,  \* CommunicationSuppression
  kept,        \* the contact each received text is kept for
  send,        \* [state, of, to, open]: open while its conversation is
  account,     \* the account: "none", "enabled" or "disabled"
  connected,      \* its connection is enabled
  refused      \* history: numbers that asked to stop

inboundVars == <<person, suppressions, kept, send, account, connected, refused>>

NoPerson == "nobody"
NoSend == [state |-> "none", of |-> NoPerson, to |-> "none", open |-> FALSE]
Person(n) == [number |-> n, barred |-> FALSE, archived |-> FALSE, consent |-> FALSE, open |-> FALSE]

InboundInit ==
  /\ person = [c \in People |-> Person(FirstNumber[c])]
  /\ suppressions = {} /\ refused = {}
  /\ kept = [t \in Incoming |-> NoPerson]
  /\ send = [s \in Sends |-> NoSend]
  /\ account = "none" /\ connected = FALSE

PersonRows == [number : Numbers \union {"new"}, barred : BOOLEAN, archived : BOOLEAN,
               consent : BOOLEAN, open : BOOLEAN]
SendRows == [state : {"none", "queued", "sending", "cancelled"}, of : People \union {NoPerson},
             to : Numbers \union {"none"}, open : BOOLEAN]
InboundTypeOK ==
  /\ person \in [People -> PersonRows]
  /\ suppressions \subseteq Numbers /\ refused \subseteq Numbers
  /\ kept \in [Incoming -> People \union {NoPerson}]
  /\ send \in [Sends -> SendRows]
  /\ account \in {"none", "enabled", "disabled"} /\ connected \in BOOLEAN

Known(c) == person[c].number # "new"

-----------------------------------------------------------------------------
(* The account of the organization.                                        *)

Configure ==
  /\ account = "none"
  /\ account' = "disabled" /\ connected' = TRUE
  /\ UNCHANGED <<person, suppressions, kept, send, refused>>

SetEnabled(state) ==
  /\ account \in {"enabled", "disabled"} \ {state}
  /\ account' = state
  /\ UNCHANGED <<person, suppressions, kept, send, connected, refused>>

SetConnection ==
  /\ account # "none" /\ connected' = ~connected
  /\ UNCHANGED <<person, suppressions, kept, send, account, refused>>

-----------------------------------------------------------------------------
(* Contacts (crm/service.ts): nothing takes "do not contact" back.  A      *)
(* number is replaced, never removed.                                      *)

ChangeNumber(c, n) ==
  /\ Known(c) /\ ~person[c].archived /\ n # person[c].number
  /\ person' = [person EXCEPT ![c].number = n]
  /\ UNCHANGED <<suppressions, kept, send, account, connected, refused>>

\* A contact with a conversation cannot be archived (record_has_active_dependents).
ArchiveCustomer(c) ==
  /\ Known(c) /\ ~person[c].archived /\ ~person[c].open
  /\ person' = [person EXCEPT ![c].archived = TRUE]
  /\ UNCHANGED <<suppressions, kept, send, account, connected, refused>>

OpenThread(c) ==
  /\ Known(c) /\ ~person[c].archived /\ ~person[c].open
  /\ person' = [person EXCEPT ![c].open = TRUE]
  /\ UNCHANGED <<suppressions, kept, send, account, connected, refused>>

ArchiveThread(c) ==
  /\ person[c].open /\ person' = [person EXCEPT ![c].open = FALSE]
  /\ send' = [s \in Sends |-> IF send[s].of = c THEN [send[s] EXCEPT !.open = FALSE] ELSE send[s]]
  /\ UNCHANGED <<suppressions, kept, account, connected, refused>>

-----------------------------------------------------------------------------
(* assertContactAllowed.                                                   *)

Reachable(c) ==
  LET n == person[c].number IN
  /\ ~person[c].archived /\ ~person[c].barred
  /\ n \in Numbers /\ n \notin suppressions
  /\ \A d \in People : person[d].barred => person[d].number # n
Contactable(c) == Reachable(c) /\ person[c].consent

RecordConsent(c, granted) ==
  /\ Known(c) /\ person[c].consent # granted
  /\ granted => Reachable(c)
  /\ person' = [person EXCEPT ![c].consent = granted]
  /\ UNCHANGED <<suppressions, kept, send, account, connected, refused>>

-----------------------------------------------------------------------------
(* processInboundMessage.                                                  *)

\* An ambiguous number is never put down to one of the customers.
Matching(n) == {c \in People : person[c].number = n /\ ~person[c].archived}
SenderOf(t) ==
  IF Cardinality(Matching(Sender[t])) = 1 THEN Matching(Sender[t])
  ELSE {CHOOSE c \in People : ~Known(c)}

\* suppress: the contact is barred, its consent withdrawn, its number
\* suppressed.
SuppressedWith(n) == suppressions \union {n}

\* The row of the person a text is kept for.
Heard(c, t) ==
  [person[c] EXCEPT !.number = Sender[t], !.open = TRUE,
                    !.barred = @ \/ AsksToStop[t], !.consent = @ /\ ~AsksToStop[t]]

Receive(t) ==
  /\ connected /\ kept[t] = NoPerson
  /\ Cardinality(Matching(Sender[t])) = 1 \/ \E c \in People : ~Known(c)
  /\ \E c \in SenderOf(t) :
       /\ person' = [person EXCEPT ![c] = Heard(c, t)]
       /\ kept' = [kept EXCEPT ![t] = c]
  /\ suppressions' = IF AsksToStop[t] THEN SuppressedWith(Sender[t]) ELSE suppressions
  /\ refused' = IF AsksToStop[t] THEN refused \union {Sender[t]} ELSE refused
  /\ UNCHANGED <<send, account, connected>>

-----------------------------------------------------------------------------
(* Messages of members.                                                    *)

AccountReady == account = "enabled" /\ connected

QueueSend(s, c) ==
  /\ send[s] = NoSend /\ person[c].open /\ Contactable(c) /\ AccountReady
  /\ send' = [send EXCEPT ![s] = [state |-> "queued", of |-> c, to |-> person[c].number, open |-> TRUE]]
  /\ UNCHANGED <<person, suppressions, kept, account, connected, refused>>

\* Mutant: the number it was written to is not compared.
SendableAnywhere(s) == Contactable(send[s].of) /\ AccountReady /\ send[s].open
Sendable(s) ==
  /\ Contactable(send[s].of) /\ send[s].to = person[send[s].of].number
  /\ AccountReady /\ send[s].open

ClaimQueued(s) ==
  /\ send[s].state = "queued"
  /\ send' = [send EXCEPT ![s].state = IF Sendable(s) THEN "sending" ELSE "cancelled"]
  /\ UNCHANGED <<person, suppressions, kept, account, connected, refused>>

-----------------------------------------------------------------------------
InboundNext ==
  \/ Configure \/ SetConnection
  \/ \E state \in {"enabled", "disabled"} : SetEnabled(state)
  \/ \E c \in People :
       \/ \E n \in Numbers : ChangeNumber(c, n)
       \/ ArchiveCustomer(c) \/ OpenThread(c) \/ ArchiveThread(c)
       \/ \E granted \in BOOLEAN : RecordConsent(c, granted)
  \/ \E t \in Incoming : Receive(t)
  \/ \E s \in Sends, c \in People : QueueSend(s, c)
  \/ \E s \in Sends : ClaimQueued(s)

InboundSpec == InboundInit /\ [][InboundNext]_inboundVars

-----------------------------------------------------------------------------
\* People share numbers, change them and write from numbers nobody knows: once
\* a number asked to stop, no message that was queued before or after goes to
\* it, also when the contact it was written to has another number by now
\* (safety.ts:60-126, worker.ts:178-186).
NumberStopStands ==
  [][\A s \in Sends :
       send[s].state = "queued" /\ send'[s].state = "sending" => send[s].to \notin refused]_inboundVars
=============================================================================
