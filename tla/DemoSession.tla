----------------------------- MODULE DemoSession -----------------------------
(***************************************************************************)
(* Live conversations of a sales demo (src/demo-engine/live-runtime.ts).   *)
(* Nothing here runs in a tenant transaction: a request is a sequence of   *)
(* single statements on the session's row with calls to the AI provider in *)
(* between, any number of requests and replicas work on one session, and a *)
(* watchdog hangs up what they leave behind.                                *)
(*                                                                          *)
(* Chat: a turn is claimed by a marker that frees itself after 30 seconds; *)
(* the provider is given 25.  Voice: one provider call per session, whose  *)
(* id is recorded so that whoever ends the session can hang it up.  A call  *)
(* whose creation is not answered carries no conversation (the browser has *)
(* not got its SDP) and is not counted.                                     *)
(***************************************************************************)
EXTENDS Naturals, FiniteSets, Sequences, SequencesExt

CONSTANTS Sessions,   \* SalesDemoSession rows the daily limits admit
          Requests,   \* HTTP requests being served, on any replica
          Watchdog,   \* the timer that sweeps voice calls
          NoSession,  \* a process serves no session
          MaxTurns,   \* MAX_TURNS (20)
          MaxActive,  \* concurrent sessions (4)
          MaxStalls,  \* bound: requests that outlive their turn's marker
          MaxFaults   \* bound: queries, sockets and processes that fail

ASSUME DemoAssumption ==
    /\ Watchdog \notin Requests
    /\ NoSession \notin Sessions
    /\ MaxTurns \in Nat \ {0}
    /\ MaxActive \in Nat /\ MaxStalls \in Nat /\ MaxFaults \in Nat

VARIABLES
    row,      \* the SalesDemoSession rows
    retired,  \* sessions whose demo was edited, published or archived since
    shown,    \* the demo is published, or previewed and not archived
    live,     \* [Sessions -> SUBSET Nat]: calls going on at the provider
    used,     \* [Sessions -> Nat]: replies asked of it or calls made
    socket,   \* the sideband of a call: "none", "open" or "closing"
    proc,     \* what each process is doing
    stalled,  \* sessions in which a request outlived its marker
    faults

showing == <<retired, shown>>
demoVars == <<row, showing, live, used, socket, proc, stalled, faults>>

Procs == Requests \cup {Watchdog}

\* busy is busyUntil: NULL, in the future, or over; call is providerCallId.
NoRow == [channel |-> "none", ended |-> FALSE, expired |-> FALSE, busy |-> "no",
          turns |-> 0, messages |-> <<>>, call |-> 0]
Rows == [channel : {"none", "chat", "voice"}, ended : BOOLEAN, expired : BOOLEAN,
         busy : {"no", "yes", "over"}, turns : 0..(MaxTurns + 1),
         messages : Seq(1..MaxTurns), call : Nat]

\* seen is the transcript a chat request extends, call the one it deals with.
Idle == [pc |-> "idle", session |-> NoSession, turn |-> 0, seen |-> <<>>, call |-> 0]
ChatSteps == {"checked", "claimed", "asking", "answered", "saving", "clearing"}
VoiceSteps == {"ringing", "creating", "recording", "recorded", "opening"}
EndSteps == {"ending", "hanging", "closing"}
ProcRecords == [pc : {"idle"} \cup ChatSteps \cup VoiceSteps \cup EndSteps,
                session : Sessions \cup {NoSession}, turn : 0..MaxTurns,
                seen : Seq(1..MaxTurns), call : Nat]

DemoTypeOK ==
    /\ row \in [Sessions -> Rows]
    /\ retired \subseteq Sessions
    /\ shown \in BOOLEAN
    /\ live \in [Sessions -> SUBSET Nat]
    /\ used \in [Sessions -> Nat]
    /\ socket \in [Sessions -> {"none", "open", "closing"}]
    /\ proc \in [Procs -> ProcRecords]
    /\ stalled \subseteq Sessions
    /\ faults \in 0..MaxFaults

DemoInit ==
    /\ row = [s \in Sessions |-> NoRow]
    /\ retired = {}
    /\ shown = TRUE
    /\ live = [s \in Sessions |-> {}]
    /\ used = [s \in Sessions |-> 0]
    /\ socket = [s \in Sessions |-> "none"]
    /\ proc = [p \in Procs |-> Idle]
    /\ stalled = {}
    /\ faults = 0

------------------------------------------------------------------------------
(* Sessions and their processes.                                            *)

Started(s) == row[s].channel # "none"

\* activeSession: not ended, not expired, and the demo is the one it showed.
Active(s) == Started(s) /\ ~row[s].ended /\ ~row[s].expired /\ s \notin retired

InUse == {s \in Sessions : Started(s) /\ ~row[s].ended /\ ~row[s].expired}

\* startSession, under the advisory lock.
StartSession(s, channel) ==
    /\ ~Started(s)
    /\ shown
    /\ Cardinality(InUse) < MaxActive
    /\ row' = [row EXCEPT ![s].channel = channel]
    /\ UNCHANGED <<showing, live, used, socket, proc, stalled, faults>>

At(p, pc) == proc[p].pc = pc
Begin(p, pc, s) == proc' = [proc EXCEPT ![p] = [Idle EXCEPT !.pc = pc, !.session = s]]
Move(p, pc) == proc' = [proc EXCEPT ![p].pc = pc]
Leave(p) == proc' = [proc EXCEPT ![p] = Idle]

------------------------------------------------------------------------------
(* sendChat.                                                                *)

CheckChat(p, s) ==
    /\ p \in Requests /\ At(p, "idle")
    /\ row[s].channel = "chat"
    /\ Active(s)
    /\ Begin(p, "checked", s)
    /\ UNCHANGED <<row, showing, live, used, socket, stalled, faults>>

\* Mutant: the marker of another request's turn is not looked at.
TurnFreeUnmarked(s) ==
    ~row[s].ended /\ ~row[s].expired /\ row[s].turns < MaxTurns

\* The where clause of the update that claims a turn.
TurnFree(s) ==
    ~row[s].ended /\ ~row[s].expired /\ row[s].turns < MaxTurns /\ row[s].busy # "yes"

ClaimTurn(p) ==
    LET s == proc[p].session IN
    /\ At(p, "checked")
    /\ TurnFree(s)
    /\ row' = [row EXCEPT ![s].busy = "yes", ![s].turns = @ + 1]
    /\ proc' = [proc EXCEPT ![p].pc = "claimed", ![p].turn = row[s].turns + 1]
    /\ UNCHANGED <<showing, live, used, socket, stalled, faults>>

TurnRefused(p) ==
    /\ At(p, "checked")
    /\ ~TurnFree(proc[p].session)
    /\ Leave(p)
    /\ UNCHANGED <<row, showing, live, used, socket, stalled, faults>>

\* The transcript is read after the claim, then the provider is asked.
AskProvider(p) ==
    LET s == proc[p].session IN
    /\ At(p, "claimed")
    /\ proc' = [proc EXCEPT ![p].pc = "asking", ![p].seen = row[s].messages]
    /\ used' = [used EXCEPT ![s] = @ + 1]
    /\ UNCHANGED <<row, showing, live, socket, stalled, faults>>

ProviderReplies(p) ==
    /\ At(p, "asking")
    /\ Move(p, "answered") \/ Move(p, "clearing")
    /\ UNCHANGED <<row, showing, live, used, socket, stalled, faults>>

\* Archive, edits and the end of the session take effect in flight.
RecheckChat(p) ==
    /\ At(p, "answered")
    /\ Move(p, IF Active(proc[p].session) THEN "saving" ELSE "clearing")
    /\ UNCHANGED <<row, showing, live, used, socket, stalled, faults>>

SaveReply(p) ==
    LET s == proc[p].session IN
    /\ At(p, "saving")
    /\ row' = [row EXCEPT ![s].messages = Append(proc[p].seen, proc[p].turn)]
    /\ Move(p, "clearing")
    /\ UNCHANGED <<showing, live, used, socket, stalled, faults>>

\* The finally block frees the session, whoever marked it last.
ClearBusy(p) ==
    /\ At(p, "clearing")
    /\ row' = [row EXCEPT ![proc[p].session].busy = "no"]
    /\ Leave(p)
    /\ UNCHANGED <<showing, live, used, socket, stalled, faults>>

------------------------------------------------------------------------------
(* connectVoice.                                                            *)

CheckVoice(p, s) ==
    /\ p \in Requests /\ At(p, "idle")
    /\ row[s].channel = "voice"
    /\ Active(s)
    /\ Begin(p, "ringing", s)
    /\ UNCHANGED <<row, showing, live, used, socket, stalled, faults>>

\* Mutant: any session that is not ended may call.
CallFreeAgain(s) == ~row[s].ended

\* The where clause of the update that claims the one call of a session.
CallFree(s) == row[s].turns = 0 /\ row[s].busy = "no" /\ ~row[s].ended

ClaimCall(p) ==
    LET s == proc[p].session IN
    /\ At(p, "ringing")
    /\ CallFree(s)
    /\ row' = [row EXCEPT ![s].busy = "yes", ![s].turns = 1]
    /\ Move(p, "creating")
    /\ UNCHANGED <<showing, live, used, socket, stalled, faults>>

CallRefused(p) ==
    /\ At(p, "ringing")
    /\ ~CallFree(proc[p].session)
    /\ Leave(p)
    /\ UNCHANGED <<row, showing, live, used, socket, stalled, faults>>

CallCreated(p) ==
    LET s == proc[p].session
        n == used[s] + 1 IN
    /\ At(p, "creating")
    /\ used' = [used EXCEPT ![s] = n]
    /\ live' = [live EXCEPT ![s] = @ \cup {n}]
    /\ proc' = [proc EXCEPT ![p].pc = "recording", ![p].call = n]
    /\ UNCHANGED <<row, showing, socket, stalled, faults>>

\* The catch block without a call id.
CallNotCreated(p) ==
    /\ At(p, "creating")
    /\ row' = [row EXCEPT ![proc[p].session].ended = TRUE]
    /\ Leave(p)
    /\ UNCHANGED <<showing, live, used, socket, stalled, faults>>

RecordCall(p) ==
    /\ At(p, "recording")
    /\ row' = [row EXCEPT ![proc[p].session].call = proc[p].call]
    /\ Move(p, "recorded")
    /\ UNCHANGED <<showing, live, used, socket, stalled, faults>>

\* Checked again; then the sideband is connected, or the catch block ends it.
RecheckVoice(p) ==
    LET s == proc[p].session IN
    /\ At(p, "recorded")
    /\ IF Active(s)
       THEN socket' = [socket EXCEPT ![s] = "open"] /\ Move(p, "opening")
       ELSE UNCHANGED socket /\ Move(p, "ending")
    /\ UNCHANGED <<row, showing, live, used, stalled, faults>>

VoiceOpened(p) ==
    /\ At(p, "opening")
    /\ Leave(p)
    /\ UNCHANGED <<row, showing, live, used, socket, stalled, faults>>

\* response.created on the sideband, handled one event after another.
VoiceResponse(s) ==
    /\ socket[s] = "open"
    /\ Active(s)
    /\ row[s].turns < MaxTurns
    /\ row' = [row EXCEPT ![s].turns = @ + 1]
    /\ UNCHANGED <<showing, live, used, socket, proc, stalled, faults>>

VoiceOverrun(s, p) ==
    /\ p \in Requests /\ At(p, "idle")
    /\ socket[s] = "open"
    /\ Active(s)
    /\ row[s].turns >= MaxTurns
    /\ row' = [row EXCEPT ![s].turns = @ + 1]
    /\ socket' = [socket EXCEPT ![s] = "closing"]
    /\ Begin(p, "ending", s)
    /\ UNCHANGED <<showing, live, used, stalled, faults>>

\* failClosed: the sideband closes, errs, or is told of a session that is over.
SocketFails(s, p) ==
    /\ p \in Requests /\ At(p, "idle")
    /\ socket[s] = "open"
    /\ socket' = [socket EXCEPT ![s] = "closing"]
    /\ Begin(p, "ending", s)
    /\ UNCHANGED <<row, showing, live, used, stalled, faults>>

------------------------------------------------------------------------------
(* endSession and the watchdog.                                             *)

\* The visitor ends it or leaves the page, or the server shuts down.
BeginEnd(p, s) ==
    /\ p \in Requests /\ At(p, "idle")
    /\ Started(s)
    /\ Begin(p, "ending", s)
    /\ UNCHANGED <<row, showing, live, used, socket, stalled, faults>>

\* Mutant: calls of expired sessions are left to the visitor.
SweepableEnded(s) == row[s].call # 0 /\ (row[s].ended \/ s \in retired)

Sweepable(s) ==
    row[s].call # 0 /\ (row[s].ended \/ row[s].expired \/ s \in retired)

\* sweepVoiceCalls, every two seconds.
Sweep(s) ==
    /\ At(Watchdog, "idle")
    /\ Sweepable(s)
    /\ Begin(Watchdog, "ending", s)
    /\ UNCHANGED <<row, showing, live, used, socket, stalled, faults>>

EndReads(p) ==
    LET call == row[proc[p].session].call IN
    /\ At(p, "ending")
    /\ proc' = [proc EXCEPT ![p].pc = IF call = 0 THEN "closing" ELSE "hanging",
                            ![p].call = call]
    /\ UNCHANGED <<row, showing, live, used, socket, stalled, faults>>

HangUp(p) ==
    LET s == proc[p].session IN
    /\ At(p, "hanging")
    /\ live' = [live EXCEPT ![s] = @ \ {proc[p].call}]
    /\ Move(p, "closing")
    /\ UNCHANGED <<row, showing, used, socket, stalled, faults>>

\* The provider is not available; the row keeps the call id.
HangUpFails(p) ==
    /\ At(p, "hanging")
    /\ Leave(p)
    /\ UNCHANGED <<row, showing, live, used, socket, stalled, faults>>

EndWrites(p) ==
    LET s == proc[p].session IN
    /\ At(p, "closing")
    /\ row' = [row EXCEPT ![s].ended = TRUE, ![s].call = 0]
    /\ socket' = [socket EXCEPT ![s] = "none"]
    /\ Leave(p)
    /\ UNCHANGED <<showing, live, used, stalled, faults>>

------------------------------------------------------------------------------
(* Administrators, time and faults.                                         *)

\* Edit, publish and archive all make a new version.
DemoChanges(value) ==
    /\ \E s \in Sessions \ retired : Started(s)
    /\ retired' = {s \in Sessions : Started(s)}
    /\ shown' = value
    /\ UNCHANGED <<row, live, used, socket, proc, stalled, faults>>

Expires(s) ==
    /\ Started(s) /\ ~row[s].expired
    /\ row' = [row EXCEPT ![s].expired = TRUE]
    /\ UNCHANGED <<showing, live, used, socket, proc, stalled, faults>>

Serving(s) ==
    {p \in Procs : proc[p].session = s /\ proc[p].pc \in ChatSteps \ {"checked"}}

\* 30 seconds pass.  A request still at work is slower than its timeout of 25.
MarkerEnds(s) ==
    /\ row[s].channel = "chat" /\ row[s].busy = "yes"
    /\ \/ Serving(s) = {} /\ UNCHANGED stalled
       \/ /\ Serving(s) # {} /\ s \notin stalled /\ Cardinality(stalled) < MaxStalls
          /\ stalled' = stalled \cup {s}
    /\ row' = [row EXCEPT ![s].busy = "over"]
    /\ UNCHANGED <<showing, live, used, socket, proc, faults>>

Fault == faults < MaxFaults /\ faults' = faults + 1

\* A query or the sideband fails, and the request's handler runs.
Throws(p) ==
    /\ Fault
    /\ \/ proc[p].pc \in {"claimed", "answered", "saving"} /\ Move(p, "clearing")
       \/ proc[p].pc \in {"recording", "recorded", "opening"} /\ Move(p, "ending")
       \/ proc[p].pc \in {"ending", "closing"} /\ Leave(p)
    /\ UNCHANGED <<row, showing, live, used, socket, stalled>>

\* The process stops; a sideband it had is gone without a word.
DemoCrash(p) ==
    /\ Fault
    /\ p \in Requests /\ ~At(p, "idle")
    /\ Leave(p)
    /\ socket' = [socket EXCEPT ![proc[p].session] = "none"]
    /\ UNCHANGED <<row, showing, live, used, stalled>>

------------------------------------------------------------------------------
Chat(p) ==
    \/ \E s \in Sessions : CheckChat(p, s)
    \/ ClaimTurn(p) \/ TurnRefused(p) \/ AskProvider(p) \/ ProviderReplies(p)
    \/ RecheckChat(p) \/ SaveReply(p) \/ ClearBusy(p)

Voice(p) ==
    \/ \E s \in Sessions : CheckVoice(p, s) \/ VoiceOverrun(s, p) \/ SocketFails(s, p)
    \/ ClaimCall(p) \/ CallRefused(p) \/ CallCreated(p) \/ CallNotCreated(p)
    \/ RecordCall(p) \/ RecheckVoice(p) \/ VoiceOpened(p)

End(p) ==
    \/ \E s \in Sessions : BeginEnd(p, s)
    \/ EndReads(p) \/ HangUp(p) \/ HangUpFails(p) \/ EndWrites(p)

DemoNext ==
    \/ \E p \in Procs : Chat(p) \/ Voice(p) \/ End(p) \/ Throws(p) \/ DemoCrash(p)
    \/ \E s \in Sessions, channel \in {"chat", "voice"} : StartSession(s, channel)
    \/ \E s \in Sessions : VoiceResponse(s) \/ Sweep(s) \/ Expires(s) \/ MarkerEnds(s)
    \/ \E value \in BOOLEAN : DemoChanges(value)

DemoSpec == DemoInit /\ [][DemoNext]_demoVars

\* Sessions expire, one watchdog keeps running, and the provider does not
\* refuse to hang up for ever.  Nothing is assumed of visitors and requests.
DemoFairness ==
    /\ \A s \in Sessions : WF_demoVars(Expires(s)) /\ WF_demoVars(Sweep(s))
    /\ WF_demoVars(EndReads(Watchdog)) /\ WF_demoVars(EndWrites(Watchdog))
    /\ SF_demoVars(HangUp(Watchdog))

DemoFairSpec == DemoSpec /\ DemoFairness

------------------------------------------------------------------------------
(* Properties.                                                              *)

\* "A session authorizes exactly one provider call, including across retries
\* and replicas" (live-runtime.ts:272), and a chat never asks for more replies
\* than its turns, even when two requests overlap after a marker ran out.
UsageBounded ==
    \A s \in Sessions :
        used[s] <= IF row[s].channel = "voice" THEN 1 ELSE MaxTurns

\* A reply never makes the transcript lose an earlier one, whatever requests
\* overlap, fail or stop, as long as none outlived its marker.
TranscriptsGrow ==
    [][\A s \in Sessions \ stalled' :
          IsPrefix(row[s].messages, row'[s].messages)]_demoVars

\* A recorded call does not stay on its row: although visitors vanish, hangups
\* fail and processes stop, its session is closed.
RecordedCallsEnd ==
    \A s \in Sessions : (row[s].call # 0) ~> (row[s].call = 0)

\* live-runtime.ts:181: "Retain call ID for watchdog retries if the provider is
\* temporarily unavailable."  A call goes on only while its row, or the
\* request that makes it, knows its id.
CallsAreKnown ==
    \A s \in Sessions : \A n \in live[s] :
        \/ row[s].call = n
        \/ \E p \in Requests : proc[p].session = s /\ proc[p].call = n
==============================================================================
