------------------------------- MODULE Bookings -------------------------------
(***************************************************************************)
(* Appointments and texts of one business and one customer:                *)
(* services/bookings.ts, sms-booking.ts, missed-call.ts, vapi.ts,          *)
(* chatbot.ts, owner-notifications.ts, twilio-sms.ts with the webhooks     *)
(* that call them, and the projection of the texts into the message ledger *)
(* (communications/legacy.ts).                                             *)
(*                                                                         *)
(* A webhook may come several times and several are served at once.        *)
(* Nothing is a transaction but the projection; every text and every       *)
(* booking is fenced by a row with a unique key that is created first and  *)
(* stays, whatever happens to the call it guards.                          *)
(***************************************************************************)
EXTENDS Integers, FiniteSets

CONSTANTS
  Occasions,  \* [kind, id]: inbound texts, missed and answered calls, chats
  Word,       \* what an inbound text says, by its id: "stop", "halt", "start" or "text"
  Transfer,   \* of an answered call to the owner, by its id: "none", "done" or "failed"
  Scenarios,  \* [agenda, wanted, linked, queued, dryRun]: deployments, clients and what happens
  Servers,    \* requests and tasks being served
  MaxLosses   \* a bound on answers, writes and processes that are lost

VARIABLES
  agenda,      \* the occasions of this behaviour
  wanted,      \* the notifications the owner wants
  linked,      \* communications are enabled and an organization is linked to the client
  queued,      \* DURABLE_BACKGROUND_ENABLED: texts are processed by tasks
  dryRun,      \* BOOKING_DELIVERY_DRY_RUN: bookings succeed and no destination is asked
  sms,         \* SmsConversation.status of the customer, "none" without a row
  suppressed,  \* the organization's opt-out of the customer (DND and suppression)
  stopped,     \* history: an opt-out has been received, and no START after it
  stored,      \* inbound SmsMessage rows, by message sid
  smsTask,     \* the BackgroundTask of an inbound text
  attempt,     \* BookingAttempt by request id: [status, via]
  placed,      \* appointments the destinations made for a request
  told,        \* <<how, request>>: customers who were told that the request is booked
  text,        \* outbound texts by dedupe key: [row, booked, taken]
  ledger,      \* CommunicationDelivery of an outbound text
  callLog,     \* CallLog.outcome of an answered call
  server,      \* what each process is doing
  losses

bookingVars ==
  <<agenda, wanted, linked, queued, dryRun, sms, suppressed, stopped, stored, smsTask, attempt, placed,
    told, text, ledger, callLog, server, losses>>
setting == <<agenda, wanted, linked, queued, dryRun>>
customer == <<sms, suppressed, stopped, stored, smsTask>>
appointments == <<attempt, placed, told>>
messages == <<text, ledger>>

Ids == {o.id : o \in Occasions}
OwnerTexts == {"booking_success", "booking_follow_up", "missed_call", "transfer_failure",
               "unbooked_call"}
CustomerTexts == {"reply", "no_booking", "missed"}
Keys == (OwnerTexts \union CustomerTexts) \X Ids

NoServer == [pc |-> "idle", job |-> "none", id |-> "none", seen |-> "none", tries |-> 0,
             accepted |-> FALSE, key |-> <<>>, back |-> "none", heard |-> "none"]

BookingsInit ==
  /\ \E s \in Scenarios :
       /\ agenda = s.agenda /\ wanted = s.wanted /\ linked = s.linked /\ queued = s.queued
       /\ dryRun = s.dryRun
  /\ sms = "none" /\ suppressed = FALSE /\ stopped = FALSE /\ stored = {}
  /\ smsTask = [m \in Ids |-> "none"]
  /\ attempt = [r \in Ids |-> [status |-> "none", via |-> "none"]]
  /\ placed = [r \in Ids |-> 0]
  /\ told = {}
  /\ text = [k \in Keys |-> [row |-> "none", booked |-> FALSE, taken |-> 0]]
  /\ ledger = [k \in Keys |-> "none"]
  /\ callLog = [c \in Ids |-> "none"]
  /\ server = [p \in Servers |-> NoServer]
  /\ losses = 0

Awaits(kind, id) == [kind |-> kind, id |-> id] \in agenda
Waiting(p) == server[p].pc = "idle"
Is(p, pc) == server[p].pc = pc
Serve(p, job, id, pc) == [server EXCEPT ![p] = [NoServer EXCEPT !.pc = pc, !.job = job, !.id = id]]
GoOn(p, pc) == [server EXCEPT ![p].pc = pc]
Leave(p) == [server EXCEPT ![p] = NoServer]
Resume(p) ==
  IF server[p].back = "done" THEN Leave(p)
  ELSE [server EXCEPT ![p].pc = server[p].back, ![p].key = <<>>, ![p].back = "none",
                      ![p].heard = "none"]

\* Send the text with this key, and go on at back when it was taken.
SendText(p, key, back) ==
  [server EXCEPT ![p].pc = "fence", ![p].key = key, ![p].back = back]

-----------------------------------------------------------------------------
(* Sending a text (recordAndSend, sendOwnerNotification, the call log row  *)
(* of a missed call; sendSms).                                             *)

\* Mutant: a text that failed may be sent again.
FencedIfSent(key) == text[key].row = "sent"
Fenced(key) == text[key].row # "none"

Fence(p) ==
  LET key == server[p].key IN
  /\ Is(p, "fence")
  /\ IF Fenced(key)
       THEN /\ server' = IF key[1] = "missed" THEN Leave(p) ELSE Resume(p)
            /\ UNCHANGED text
       ELSE /\ text' = [text EXCEPT ![key].row = "pending",
                                    ![key].booked = key[1] = "reply" /\ server[p].accepted]
            /\ server' = GoOn(p, "check")
  /\ UNCHANGED <<setting, customer, appointments, ledger, callLog, losses>>

\* Mutant: only the conversation is looked at.
BlockedByConversation == sms = "opted_out"
Blocked == sms = "opted_out" \/ (linked /\ suppressed)

\* A failure is noted on the rows that have a place for it, and only the
\* error of a reply or a follow-up ends the job.
Failed(p) ==
  LET key == server[p].key IN
  /\ text' = [text EXCEPT ![key].row = IF key[1] \in {"reply", "no_booking"} THEN @ ELSE "failed"]
  /\ server' = IF key[1] \in {"reply", "no_booking"} THEN Leave(p) ELSE Resume(p)

\* legacySmsBlocked, and again when the ledger row is made.  The owner's
\* number is not the customer's.
MayText(p) == server[p].key[1] \in OwnerTexts \/ ~Blocked

Check(p) ==
  /\ Is(p, "check")
  /\ IF MayText(p)
       THEN /\ server' = GoOn(p, IF linked THEN "ledger" ELSE "transport")
            /\ UNCHANGED text
       ELSE Failed(p)
  /\ UNCHANGED <<setting, customer, appointments, ledger, callLog, losses>>

RecordOutbound(p) ==
  /\ Is(p, "ledger")
  /\ IF MayText(p)
       THEN /\ ledger' = [ledger EXCEPT ![server[p].key] = "sending"]
            /\ server' = GoOn(p, "transport")
            /\ UNCHANGED text
       ELSE Failed(p) /\ UNCHANGED ledger
  /\ UNCHANGED <<setting, customer, appointments, callLog, losses>>

Transport(p) ==
  LET key == server[p].key
      Hear(heard, taken) ==
        /\ text' = [text EXCEPT ![key].taken = @ + taken]
        /\ server' = [server EXCEPT ![p].pc = "heard", ![p].heard = heard]
  IN
  /\ Is(p, "transport")
  /\ \/ Hear("accepted", 1) /\ UNCHANGED losses
     \/ Hear("failed", 0) /\ UNCHANGED losses
     \/ key[1] \in CustomerTexts /\ Hear("opted_out", 0) /\ UNCHANGED losses
     \/ /\ losses < MaxLosses
        /\ losses' = losses + 1
        /\ \E taken \in 0..1 : Hear("unknown", taken)
  /\ UNCHANGED <<setting, customer, appointments, ledger, callLog>>

\* The provider's own opt-out stops the conversation; then the ledger and
\* the row of the text are written.
RecordText(p) ==
  LET key == server[p].key
      heard == server[p].heard
  IN
  /\ Is(p, "heard")
  /\ sms' = IF heard = "opted_out" THEN "opted_out" ELSE sms
  /\ suppressed' = (suppressed \/ (linked /\ heard = "opted_out"))
  /\ ledger' = [ledger EXCEPT ![key] =
       IF ~linked \/ @ # "sending" THEN @ ELSE IF heard = "opted_out" THEN "failed" ELSE heard]
  /\ IF heard = "accepted"
       THEN /\ text' = [text EXCEPT ![key].row = "sent"]
            /\ server' = Resume(p)
            /\ told' = IF text[key].booked THEN told \union {<<"sms", key[2]>>} ELSE told
       ELSE Failed(p) /\ UNCHANGED told
  /\ UNCHANGED <<setting, stopped, stored, smsTask, attempt, placed, callLog, losses>>

SendStep(p) == Fence(p) \/ Check(p) \/ RecordOutbound(p) \/ Transport(p) \/ RecordText(p)

-----------------------------------------------------------------------------
(* Booking (createBookingAttempt), for the request the server deals with.  *)

Accepted(r) == attempt[r].status = "success"

FindAttempt(p) ==
  LET r == server[p].id IN
  /\ Is(p, "find")
  /\ server' = IF attempt[r].status # "none"
                 THEN [server EXCEPT ![p].pc = "answer", ![p].accepted = Accepted(r)]
                 ELSE GoOn(p, "create")
  /\ UNCHANGED <<setting, customer, appointments, messages, callLog, losses>>

\* The request id is unique: a second process that found nothing throws.
CreateAttempt(p) ==
  LET r == server[p].id IN
  /\ Is(p, "create")
  /\ IF attempt[r].status # "none"
       THEN server' = Leave(p) /\ UNCHANGED attempt
       ELSE /\ attempt' = [attempt EXCEPT ![r].status = "pending"]
            /\ \E to \in {"primary", "fallback"} :
                 server' = GoOn(p, IF dryRun THEN "dry_run" ELSE to)
  /\ UNCHANGED <<setting, customer, placed, told, messages, callLog, losses>>

\* The destination of the client is tried twice, the safety net once; an
\* error may follow an appointment that was made.
AfterError(p) ==
  IF Is(p, "primary") /\ server[p].tries = 0 THEN [server EXCEPT ![p].tries = 1]
  ELSE [server EXCEPT ![p].pc = IF Is(p, "primary") THEN "fallback" ELSE "failure", ![p].tries = 0]

Place(p) ==
  LET r == server[p].id IN
  /\ server[p].pc \in {"primary", "fallback"}
  /\ \/ /\ placed' = [placed EXCEPT ![r] = @ + 1]
        /\ server' = [server EXCEPT ![p].pc = "success", ![p].seen = server[p].pc, ![p].tries = 0]
        /\ UNCHANGED losses
     \/ UNCHANGED <<placed, losses>> /\ server' = AfterError(p)
     \/ /\ losses < MaxLosses
        /\ losses' = losses + 1
        /\ placed' = [placed EXCEPT ![r] = @ + 1]
        /\ server' = AfterError(p)
  /\ UNCHANGED <<setting, customer, attempt, told, messages, callLog>>

\* The owner hears of it if the client wants that.
TellOwner(p, type, accepted) ==
  LET next == IF type \in wanted THEN SendText(p, <<type, server[p].id>>, "answer")
               ELSE GoOn(p, "answer")
  IN  server' = [next EXCEPT ![p].accepted = accepted, ![p].seen = "none"]

\* A dry run asks no destination and notes a success (bookings.ts:115-134).
RecordDryRun(p) ==
  /\ Is(p, "dry_run")
  /\ attempt' = [attempt EXCEPT ![server[p].id] = [status |-> "success", via |-> "primary"]]
  /\ TellOwner(p, "booking_success", TRUE)
  /\ UNCHANGED <<setting, customer, placed, told, messages, callLog, losses>>

\* When this write fails, the safety net's catch block notes a failure.
RecordSuccess(p) ==
  LET r == server[p].id
      via == server[p].seen
  IN
  /\ Is(p, "success")
  /\ \/ /\ attempt' = [attempt EXCEPT ![r] = [status |-> "success", via |-> via]]
        /\ TellOwner(p, IF via = "primary" THEN "booking_success" ELSE "booking_follow_up", TRUE)
        /\ UNCHANGED losses
     \/ /\ losses < MaxLosses
        /\ losses' = losses + 1
        /\ server' = IF via = "primary" THEN Leave(p) ELSE GoOn(p, "failure")
        /\ UNCHANGED attempt
  /\ UNCHANGED <<setting, customer, placed, told, messages, callLog>>

RecordFailure(p) ==
  /\ Is(p, "failure")
  /\ attempt' = [attempt EXCEPT ![server[p].id] = [status |-> "failed", via |-> "fallback"]]
  /\ TellOwner(p, "booking_follow_up", FALSE)
  /\ UNCHANGED <<setting, customer, placed, told, messages, callLog, losses>>

\* The answer: a text to the customer, or the result of the request.  A chat
\* session is marked booked and answered so whatever came of the booking
\* (chatbot.ts:75-100).
AnswerBooking(p) ==
  LET r == server[p].id IN
  /\ Is(p, "answer")
  /\ IF server[p].job = "sms"
       THEN server' = SendText(p, <<"reply", r>>, "mark") /\ UNCHANGED told
       ELSE /\ told' = IF server[p].accepted \/ server[p].job = "chat"
                         THEN told \union {<<server[p].job, r>>} ELSE told
            /\ server' = Leave(p)
  /\ UNCHANGED <<setting, customer, attempt, placed, messages, callLog, losses>>

\* Whatever the conversation is by now becomes booked.
MarkBooked(p) ==
  /\ Is(p, "mark")
  /\ sms' = IF server[p].accepted THEN "booked" ELSE sms
  /\ server' = Leave(p)
  /\ UNCHANGED <<setting, suppressed, stopped, stored, smsTask, appointments, messages, callLog,
                 losses>>

BookStep(p) ==
  \/ FindAttempt(p) \/ CreateAttempt(p) \/ RecordDryRun(p) \/ Place(p) \/ RecordSuccess(p)
  \/ RecordFailure(p) \/ AnswerBooking(p) \/ MarkBooked(p)

-----------------------------------------------------------------------------
(* Inbound texts.                                                          *)

\* An opt-out by safety.ts:3-11 is one for the conversation too; a stop word in
\* other punctuation ("Cancel?") is a command of the conversation and no opt-out.
OptsOut(m) == Word[m] = "stop"
Stops(m) == Word[m] \in {"stop", "halt"}

\* The projection of an inbound text takes an opt-out over for good.
Projected(m) == suppressed \/ (linked /\ OptsOut(m))

\* The webhook stores an opt-out before it answers; what it does not answer
\* is sent again.
ReceiveText(p, m, answered) ==
  /\ Awaits("sms", m)
  /\ Waiting(p)
  /\ sms' = IF OptsOut(m) THEN "opted_out" ELSE sms
  /\ suppressed' = Projected(m)
  /\ stopped' = IF Word[m] \in {"text", "halt"} THEN stopped ELSE OptsOut(m)
  /\ IF queued
       THEN /\ smsTask' = [smsTask EXCEPT ![m] = IF answered /\ @ = "none" THEN "pending" ELSE @]
            /\ UNCHANGED server
       ELSE /\ server' = IF answered THEN Serve(p, "sms", m, "conversation") ELSE server
            /\ UNCHANGED smsTask
  /\ UNCHANGED <<setting, stored, appointments, messages, callLog, losses>>

\* A task runs once (LeadPipeline.ClaimTask).
ClaimText(p, m) ==
  /\ Waiting(p)
  /\ smsTask[m] = "pending"
  /\ smsTask' = [smsTask EXCEPT ![m] = "claimed"]
  /\ server' = Serve(p, "sms", m, "conversation")
  /\ UNCHANGED <<setting, sms, suppressed, stopped, stored, appointments, messages, callLog,
                 losses>>

OpenConversation(p) ==
  /\ Is(p, "conversation")
  /\ sms' = IF sms = "none" THEN "active" ELSE sms
  /\ server' = [server EXCEPT ![p].pc = "store", ![p].seen = sms']
  /\ UNCHANGED <<setting, suppressed, stopped, stored, smsTask, appointments, messages, callLog,
                 losses>>

StoreText(p) ==
  LET m == server[p].id IN
  /\ Is(p, "store")
  /\ stored' = stored \union {m}
  /\ server' = IF m \in stored THEN Leave(p) ELSE GoOn(p, "command")
  /\ UNCHANGED <<setting, sms, suppressed, stopped, smsTask, appointments, messages, callLog,
                 losses>>

\* The status was read when the conversation was opened.
Command(p) ==
  LET m == server[p].id IN
  /\ Is(p, "command")
  /\ sms' = CASE Stops(m) -> "opted_out" [] Word[m] = "start" -> "active" [] OTHER -> sms
  /\ server' = IF Stops(m) \/ (server[p].seen = "opted_out" /\ Word[m] # "start")
                 THEN Leave(p) ELSE [server EXCEPT ![p].pc = "think", ![p].seen = "none"]
  /\ UNCHANGED <<setting, suppressed, stopped, stored, smsTask, appointments, messages, callLog,
                 losses>>

\* The model answers, or asks for a booking at a time that is free.
Think(p) ==
  /\ Is(p, "think")
  /\ \/ server' = SendText(p, <<"reply", server[p].id>>, "done")
     \/ server' = GoOn(p, "find")
     \/ server' = Leave(p)
  /\ UNCHANGED <<setting, customer, appointments, messages, callLog, losses>>

SmsStep(p) == OpenConversation(p) \/ StoreText(p) \/ Command(p) \/ Think(p)

-----------------------------------------------------------------------------
(* Calls and chats.                                                        *)

\* The text to a missed caller is sent, or not, before the owner is told.
MissedCall(p, c) ==
  /\ Awaits("missed", c)
  /\ Waiting(p)
  /\ server' = [Serve(p, "missed", c, "fence") EXCEPT ![p].key = <<"missed", c>>,
                                                      ![p].back = "tell_missed"]
  /\ UNCHANGED <<setting, customer, appointments, messages, callLog, losses>>

TellMissed(p) ==
  /\ Is(p, "tell_missed")
  /\ server' = IF "missed_call" \in wanted THEN SendText(p, <<"missed_call", server[p].id>>, "done")
               ELSE Leave(p)
  /\ UNCHANGED <<setting, customer, appointments, messages, callLog, losses>>

CallStarted(c) ==
  /\ Awaits("call", c)
  /\ callLog' = [callLog EXCEPT ![c] = IF @ = "none" THEN "no_answer" ELSE @]
  /\ UNCHANGED <<setting, customer, appointments, messages, server, losses>>

AskBooking(p, job, r) ==
  /\ Awaits(job, r)
  /\ Waiting(p)
  /\ server' = Serve(p, job, r, "find")
  /\ UNCHANGED <<setting, customer, appointments, messages, callLog, losses>>

\* A tool call of an answered call, for a time that is free.
AskByCall(p, r) == AskBooking(p, "call", r)

\* A chat message that asks for it; nothing reads the status of the session.
AskByChat(p, r) == AskBooking(p, "chat", r)

\* Both the status update and the report end a call.
CallEnded(p, c) ==
  /\ Awaits("call", c)
  /\ Waiting(p)
  /\ server' = [Serve(p, "ended", c, "log") EXCEPT ![p].accepted = Accepted(c)]
  /\ UNCHANGED <<setting, customer, appointments, messages, callLog, losses>>

LogCallEnded(p) ==
  LET c == server[p].id
      after == IF Transfer[c] = "none" THEN "follow" ELSE "done"
      notice == IF Transfer[c] = "failed" THEN "transfer_failure" ELSE "unbooked_call"
  IN
  /\ Is(p, "log")
  /\ callLog' = [callLog EXCEPT ![c] = IF server[p].accepted THEN "booked" ELSE "not_interested"]
  /\ server' = IF notice \in wanted /\ (~server[p].accepted \/ Transfer[c] = "failed")
                 THEN SendText(p, <<notice, c>>, IF server[p].accepted THEN "done" ELSE after)
               ELSE IF server[p].accepted \/ after = "done" THEN Leave(p)
               ELSE GoOn(p, "follow")
  /\ UNCHANGED <<setting, customer, appointments, messages, losses>>

FollowUp(p) ==
  /\ Is(p, "follow")
  /\ sms' = IF sms = "none" THEN "active" ELSE sms
  /\ server' = IF sms = "opted_out" THEN Leave(p)
               ELSE SendText(p, <<"no_booking", server[p].id>>, "done")
  /\ UNCHANGED <<setting, suppressed, stopped, stored, smsTask, appointments, messages, callLog,
                 losses>>

CallStep(p) == TellMissed(p) \/ LogCallEnded(p) \/ FollowUp(p)

ServerDies(p) ==
  /\ ~Waiting(p)
  /\ losses < MaxLosses
  /\ losses' = losses + 1
  /\ server' = Leave(p)
  /\ UNCHANGED <<setting, customer, appointments, messages, callLog>>

BookingsNext ==
  \/ \E p \in Servers :
       \/ \E m \in Ids : ClaimText(p, m) \/ \E answered \in BOOLEAN : ReceiveText(p, m, answered)
       \/ \E id \in Ids :
            MissedCall(p, id) \/ CallEnded(p, id) \/ AskByCall(p, id) \/ AskByChat(p, id)
       \/ SendStep(p) \/ BookStep(p) \/ SmsStep(p) \/ CallStep(p) \/ ServerDies(p)
  \/ \E c \in Ids : CallStarted(c)

-----------------------------------------------------------------------------
BookingsTypeOK ==
  /\ agenda \subseteq Occasions /\ linked \in BOOLEAN /\ queued \in BOOLEAN
  /\ sms \in {"none", "active", "booked", "opted_out"} /\ stored \subseteq Ids
  /\ \A r \in Ids : attempt[r].status \in {"none", "pending", "success", "failed"}
  /\ \A k \in Keys : text[k].row \in {"none", "pending", "sent", "failed"}
  /\ told \subseteq {"sms", "call", "chat"} \X Ids

(* The provider takes at most one text per inbound text, call and          *)
(* notification, although webhooks repeat, two servers deal with the same  *)
(* one, answers are lost and processes die (sms-booking.ts:78).            *)
TextsOnce == \A k \in Keys : text[k].taken <= 1

(* Nobody who texts or calls is told that an appointment is booked unless  *)
(* a destination made it or deliveries are a dry run, whichever of several *)
(* deliveries of the request answers and whatever is lost before.          *)
ToldIsPlaced == \A t \in told : t[1] = "chat" \/ dryRun \/ placed[t[2]] > 0

(* chatbot.ts:27: "never say a booking was accepted unless the tool        *)
(* succeeds": a chat is answered as booked when no destination made it.    *)
EveryToldIsPlaced == \A t \in told : dryRun \/ placed[t[2]] > 0

TextBegins(p) ==
  /\ server[p].pc = "check" /\ server'[p].pc \in {"ledger", "transport"}
  /\ server[p].key[1] \in CustomerTexts

(* With an organization linked, a customer who opted out gets no further   *)
(* text until START, whatever the other handlers make of the conversation. *)
LinkedStopStands ==
  [][\A p \in Servers : TextBegins(p) => ~(linked /\ stopped)]_bookingVars

(* README: "STOP opts the number out and START resumes it."                *)
StopStands == [][\A p \in Servers : TextBegins(p) => ~stopped]_bookingVars
=============================================================================
