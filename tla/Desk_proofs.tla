----------------------------- MODULE Desk_proofs -----------------------------
(***************************************************************************)
(* Proofs about what people of an organization decide and what is said to  *)
(* its customers: who owns it and who may change its members (Tenancy),    *)
(* which numbers are written to (Inbound), which knowledge is said         *)
(* (Knowledge), that a text is sent once and an appointment confirmed only *)
(* when it was made (Bookings), and that an agent is put in force as it    *)
(* was read, and no wider than its blueprint (AgentBuilder).               *)
(***************************************************************************)
EXTENDS Tenancy, Inbound, Knowledge, Bookings, AgentBuilder, FiniteSetTheorems,
        WellFoundedInduction, TLAPS

-----------------------------------------------------------------------------
(* Tenancy: types.                                                         *)

LEMMA TenancyTypeInit == TenancyInit => TenancyTypeOK
<1> SUFFICES ASSUME TenancyInit
             PROVE  TenancyTypeOK
  OBVIOUS
<1>1. /\ membership \in [Members -> [role : Roles \union {"none"}, active : BOOLEAN]]
      /\ connection \in [Connections -> {"none", "enabled", "disabled"}]
      /\ request \in [Requests -> [by : Credentials \union {"nobody", "platform-operator"},
                                   role : Roles \union {"none"}]]
  BY DEF TenancyInit, Roles, Nobody
<1>2. credential \in [Credentials -> [of : Members \union Connections \union {"nobody"},
                                      state : {"none", "live", "revoked", "expired"}]]
  BY TenancyAssumption DEF TenancyInit, NoCredential
<1>3. QED
  BY <1>1, <1>2 DEF TenancyTypeOK

LEMMA TenancyTypeStep == TenancyTypeOK /\ [TenancyNext]_tenancyVars => TenancyTypeOK'
<1> SUFFICES ASSUME TenancyTypeOK, [TenancyNext]_tenancyVars
             PROVE  TenancyTypeOK'
  OBVIOUS
<1>1. ASSUME NEW q \in Requests
      PROVE  /\ [request EXCEPT ![q] = Nobody] \in
                  [Requests -> [by : Credentials \union {"nobody", "platform-operator"},
                                role : Roles \union {"none"}]]
  BY DEF TenancyTypeOK, Nobody, Roles
<1>2. ASSUME NEW c \in Credentials, CredentialExpires(c)
      PROVE  TenancyTypeOK'
  BY <1>2 DEF TenancyTypeOK, CredentialExpires
<1>3. ASSUME NEW q \in Requests, NEW c \in Credentials, Authenticate(q, c)
      PROVE  TenancyTypeOK'
  <2>1. RoleOf(c) \in Roles \union {"none"}
    BY DEF RoleOf, TenancyTypeOK
  <2>2. QED
    BY <1>3, <2>1 DEF TenancyTypeOK, Authenticate
<1>4. ASSUME NEW q \in Requests, OperatorAsks(q) \/ Refuse(q)
      PROVE  TenancyTypeOK'
  BY <1>1, <1>4 DEF TenancyTypeOK, OperatorAsks, Refuse, Answered, Roles
<1>5. ASSUME NEW q \in Requests, NEW m \in Members, NEW role \in Roles, NEW active \in BOOLEAN,
             AddMember(q, m, role) \/ UpdateMember(q, m, role, active)
      PROVE  TenancyTypeOK'
  <2>1. \A a \in BOOLEAN : [role |-> role, active |-> a] \in
                             [role : Roles \union {"none"}, active : BOOLEAN]
    OBVIOUS
  <2>2. CASE AddMember(q, m, role)
    BY <1>1, <2>1, <2>2 DEF TenancyTypeOK, AddMember, Answered
  <2>3. CASE UpdateMember(q, m, role, active)
    BY <1>1, <2>1, <2>3 DEF TenancyTypeOK, UpdateMember, Answered
  <2>4. QED
    BY <1>5, <2>2, <2>3
<1>6. ASSUME NEW q \in Requests, NEW x \in Connections, NEW enabled \in BOOLEAN,
             Connect(q, x) \/ UpdateConnection(q, x, enabled)
      PROVE  TenancyTypeOK'
  BY <1>1, <1>6 DEF TenancyTypeOK, Connect, UpdateConnection, Answered
<1>7. ASSUME NEW q \in Requests, NEW x \in Connections, NEW c \in Credentials,
             CreateConnection(q, x, c) \/ IssueForConnection(q, x, c) \/ RouteIntegrates(q, x, c)
      PROVE  TenancyTypeOK'
  <2>1. Issued(c, x) => credential' \in
          [Credentials -> [of : Members \union Connections \union {"nobody"},
                           state : {"none", "live", "revoked", "expired"}]]
    BY DEF Issued, TenancyTypeOK
  <2>2. CASE CreateConnection(q, x, c)
    BY <1>1, <2>1, <2>2 DEF TenancyTypeOK, CreateConnection, Answered
  <2>3. CASE IssueForConnection(q, x, c)
    BY <1>1, <2>1, <2>3 DEF TenancyTypeOK, IssueForConnection, Answered
  <2>4. CASE RouteIntegrates(q, x, c)
    BY <1>1, <2>1, <2>4 DEF TenancyTypeOK, RouteIntegrates, Answered
  <2>5. QED
    BY <1>7, <2>2, <2>3, <2>4
<1>8. ASSUME NEW q \in Requests, NEW c \in Credentials,
             RevokeForConnection(q, c) \/ RouteRevokes(q, c)
      PROVE  TenancyTypeOK'
  BY <1>1, <1>8 DEF TenancyTypeOK, RevokeForConnection, RouteRevokes, Answered
<1>9. ASSUME NEW q \in Requests, NEW c \in Credentials, NEW d \in Credentials, RouteRotates(q, c, d)
      PROVE  TenancyTypeOK'
  BY <1>1, <1>9 DEF TenancyTypeOK, RouteRotates, Answered
<1>10. CASE UNCHANGED tenancyVars
  BY <1>10 DEF TenancyTypeOK, tenancyVars
<1>11. QED
  BY <1>2, <1>3, <1>4, <1>5, <1>6, <1>7, <1>8, <1>9, <1>10
     DEF TenancyNext, OfMembers, OfConnections, OfCredentials

\* Members, connections, credentials and requests keep their types.
THEOREM TenancyTypes == TenancySpec => []TenancyTypeOK
BY TenancyTypeInit, TenancyTypeStep, PTL DEF TenancySpec

-----------------------------------------------------------------------------
(* Tenancy: who changes members, and who is left.                          *)

\* Only the two operations on members change one, and each changes only its own.
LEMMA MembersChange ==
  ASSUME TenancyTypeOK, [TenancyNext]_tenancyVars
  PROVE  \/ membership' = membership
         \/ \E q \in Requests, m \in Members, role \in Roles :
              \/ AddMember(q, m, role)
              \/ \E active \in BOOLEAN : UpdateMember(q, m, role, active)
<1>1. ASSUME NEW q \in Requests, OfConnections(q) \/ OfCredentials(q)
      PROVE  membership' = membership
  BY <1>1 DEF OfConnections, OfCredentials, Connect, UpdateConnection, CreateConnection,
     IssueForConnection, RouteIntegrates, RevokeForConnection, RouteRevokes, RouteRotates
<1>2. QED
  BY <1>1 DEF TenancyNext, OfMembers, CredentialExpires, Authenticate, OperatorAsks, Refuse,
              tenancyVars

\* An owner who goes leaves another one behind.
LEMMA OwnerLeft ==
  ASSUME TenancyTypeOK, AlwaysAnOwner, NEW m \in Members, NEW role \in Roles,
         NEW active \in BOOLEAN, ~LastOwner(m, role, active),
         membership' = [membership EXCEPT ![m] = [role |-> role, active |-> active]]
  PROVE  AlwaysAnOwner'
<1>1. \A n \in Members : n # m => membership'[n] = membership[n]
  BY DEF TenancyTypeOK
<1>2. membership'[m] = [role |-> role, active |-> active]
  BY DEF TenancyTypeOK
<1>3. CASE m \notin ActiveOwners \/ (active /\ role = "owner")
  <2>1. PICK n \in Members : membership[n].active /\ membership[n].role = "owner"
    BY DEF AlwaysAnOwner, ActiveOwners
  <2>2. CASE n # m
    BY <1>1, <2>1, <2>2 DEF AlwaysAnOwner, ActiveOwners
  <2>3. CASE n = m
    <3>1. active /\ role = "owner"
      BY <1>3, <2>1, <2>3 DEF ActiveOwners
    <3>2. QED
      BY <1>2, <3>1 DEF AlwaysAnOwner, ActiveOwners
  <2>4. QED
    BY <2>2, <2>3
<1>4. CASE m \in ActiveOwners /\ (~active \/ role # "owner")
  <2>1. ~(Cardinality(ActiveOwners) <= 1)
    BY <1>4 DEF LastOwner
  <2>2. Cardinality({m}) = 1
    BY FS_Singleton
  <2>3. ActiveOwners # {m}
    BY <2>1, <2>2
  <2>4. PICK n \in ActiveOwners : n # m
    BY <1>4, <2>3
  <2>5. QED
    BY <1>1, <2>4 DEF AlwaysAnOwner, ActiveOwners
<1>5. QED
  BY <1>3, <1>4

LEMMA OwnerStep == TenancyTypeOK /\ AlwaysAnOwner /\ [TenancyNext]_tenancyVars => AlwaysAnOwner'
<1> SUFFICES ASSUME TenancyTypeOK, AlwaysAnOwner, [TenancyNext]_tenancyVars
             PROVE  AlwaysAnOwner'
  OBVIOUS
<1>1. CASE membership' = membership
  BY <1>1 DEF AlwaysAnOwner, ActiveOwners
<1>2. ASSUME NEW q \in Requests, NEW m \in Members, NEW role \in Roles, AddMember(q, m, role)
      PROVE  AlwaysAnOwner'
  <2>1. membership' = [membership EXCEPT ![m] = [role |-> role, active |-> TRUE]]
        /\ membership[m].role = "none"
    BY <1>2 DEF AddMember
  <2>2. ~LastOwner(m, role, TRUE)
    BY <2>1 DEF LastOwner, ActiveOwners
  <2>3. QED
    BY <2>1, <2>2, OwnerLeft
<1>3. ASSUME NEW q \in Requests, NEW m \in Members, NEW role \in Roles, NEW active \in BOOLEAN,
             UpdateMember(q, m, role, active)
      PROVE  AlwaysAnOwner'
  BY <1>3, OwnerLeft DEF UpdateMember
<1>4. QED
  BY <1>1, <1>2, <1>3, MembersChange

\* crm/service.ts updateMember: over any requests of any members, an active
\* owner is left.
THEOREM OwnerAlways == TenancySpec => []AlwaysAnOwner
<1>1. TenancyInit => AlwaysAnOwner
  BY TenancyAssumption DEF TenancyInit, AlwaysAnOwner, ActiveOwners
<1>2. QED
  BY <1>1, OwnerStep, TenancyTypes, PTL DEF TenancySpec

\* CrmService.transaction and updateMember: a request that waited changes a
\* member only as what its credential is then.
THEOREM ChangedInOffice == TenancySpec => MembersChangeInOffice
<1> DEFINE InOfficeThen(q, m) ==
             /\ request[q] # Nobody /\ request'[q] = Nobody
             /\ \/ ByOperator(q)
                \/ LET c == request[q].by IN
                     /\ c \in Credentials /\ credential[c].state = "live" /\ InOffice(c)
                     /\ RoleOf(c) \in {"owner", "admin"}
                     /\ Promotes(m) => RoleOf(c) = "owner"
           Step == \A m \in Members : membership'[m] # membership[m] =>
                     \E q \in Requests : InOfficeThen(q, m)
<1>1. ASSUME TenancyTypeOK, NEW q \in Requests, Administers(q), StillCurrent(q), Answered(q)
      PROVE  /\ request[q] # Nobody /\ request'[q] = Nobody
             /\ \/ ByOperator(q)
                \/ LET c == request[q].by IN
                     /\ c \in Credentials /\ credential[c].state = "live" /\ InOffice(c)
                     /\ RoleOf(c) \in {"owner", "admin"} /\ RoleOf(c) = request[q].role
  BY <1>1 DEF Administers, StillCurrent, Answered, Nobody, TenancyTypeOK
<1>2. TenancyTypeOK /\ [TenancyNext]_tenancyVars => Step
  <2> SUFFICES ASSUME TenancyTypeOK, [TenancyNext]_tenancyVars, NEW n \in Members,
                      membership'[n] # membership[n]
               PROVE  \E q \in Requests : InOfficeThen(q, n)
    OBVIOUS
  <2>1. ASSUME NEW q \in Requests, NEW m \in Members, NEW role \in Roles, AddMember(q, m, role)
        PROVE  InOfficeThen(q, n)
    <3>1. n = m /\ membership[n].role = "none" /\ membership'[n].role = role
          /\ role \in {"member", "viewer"}
      BY <2>1 DEF AddMember, TenancyTypeOK
    <3>2. ~Promotes(n)
      BY <3>1 DEF Promotes
    <3>3. QED
      BY <1>1, <2>1, <3>2 DEF AddMember
  <2>2. ASSUME NEW q \in Requests, NEW m \in Members, NEW role \in Roles, NEW active \in BOOLEAN,
               UpdateMember(q, m, role, active)
        PROVE  InOfficeThen(q, n)
    <3>1. n = m /\ membership'[n].role = role
      BY <2>2 DEF UpdateMember, TenancyTypeOK
    <3>2. Promotes(n) => request[q].role = "owner"
      BY <2>2, <3>1 DEF UpdateMember, Promotes
    <3>3. QED
      BY <1>1, <2>2, <3>2 DEF UpdateMember
  <2>3. QED
    BY <2>1, <2>2, MembersChange
<1>3. QED
  BY <1>2, TenancyTypes, PTL DEF TenancySpec, MembersChangeInOffice

-----------------------------------------------------------------------------
(* Inbound: a number that asked to stop is suppressed, and nothing lifts   *)
(* that.                                                                   *)

LEMMA InboundTypeInit == InboundInit => InboundTypeOK
<1>1. \A c \in People : Person(FirstNumber[c]) \in PersonRows
  BY InboundAssumption DEF Person, PersonRows
<1>2. NoSend \in SendRows
  BY DEF NoSend, SendRows
<1>3. QED
  BY <1>1, <1>2 DEF InboundInit, InboundTypeOK

\* A row of a person or a message that changes keeps the type.
LEMMA InboundRows ==
  ASSUME InboundTypeOK
  PROVE  /\ \A c \in People : /\ person[c] \in PersonRows
                             /\ \A r \in PersonRows : [person EXCEPT ![c] = r] \in [People -> PersonRows]
         /\ \A s \in Sends : /\ send[s] \in SendRows
                            /\ \A r \in SendRows : [send EXCEPT ![s] = r] \in [Sends -> SendRows]
BY DEF InboundTypeOK

LEMMA InboundTypeStep == InboundTypeOK /\ [InboundNext]_inboundVars => InboundTypeOK'
<1> SUFFICES ASSUME InboundTypeOK, [InboundNext]_inboundVars
             PROVE  InboundTypeOK'
  OBVIOUS
<1>1. CASE Configure \/ SetConnection \/ UNCHANGED inboundVars
  BY <1>1 DEF InboundTypeOK, Configure, SetConnection, inboundVars
<1>2. ASSUME NEW state \in {"enabled", "disabled"}, SetEnabled(state)
      PROVE  InboundTypeOK'
  BY <1>2 DEF InboundTypeOK, SetEnabled
<1>3. ASSUME NEW c \in People, NEW n \in Numbers, ChangeNumber(c, n)
      PROVE  InboundTypeOK'
  BY <1>3 DEF InboundTypeOK, ChangeNumber, PersonRows
<1>4. ASSUME NEW c \in People, ArchiveCustomer(c) \/ OpenThread(c)
      PROVE  InboundTypeOK'
  <2> DEFINE r == [person[c] EXCEPT !.archived = TRUE]
             q == [person[c] EXCEPT !.open = TRUE]
  <2>1. r \in PersonRows /\ q \in PersonRows
    BY InboundRows DEF PersonRows
  <2>2. person' \in {[person EXCEPT ![c] = r], [person EXCEPT ![c] = q]}
    BY <1>4 DEF ArchiveCustomer, OpenThread, InboundTypeOK
  <2>3. person' \in [People -> PersonRows]
    BY <2>1, <2>2, InboundRows
  <2>4. QED
    BY <1>4, <2>3 DEF InboundTypeOK, ArchiveCustomer, OpenThread
<1>5. ASSUME NEW c \in People, ArchiveThread(c)
      PROVE  InboundTypeOK'
  <2>1. \A r \in PersonRows : [r EXCEPT !.open = FALSE] \in PersonRows
    BY DEF PersonRows
  <2>2. \A r \in SendRows : [r EXCEPT !.open = FALSE] \in SendRows
    BY DEF SendRows
  <2>3. person' = [person EXCEPT ![c] = [person[c] EXCEPT !.open = FALSE]]
    BY <1>5 DEF ArchiveThread, InboundTypeOK
  <2>4. person' \in [People -> PersonRows]
    BY <2>1, <2>3, InboundRows
  <2>5. send' \in [Sends -> SendRows]
    BY <1>5, <2>2 DEF ArchiveThread, InboundTypeOK
  <2>6. QED
    BY <1>5, <2>4, <2>5 DEF InboundTypeOK, ArchiveThread
<1>6. ASSUME NEW c \in People, NEW granted \in BOOLEAN, RecordConsent(c, granted)
      PROVE  InboundTypeOK'
  BY <1>6 DEF InboundTypeOK, RecordConsent, PersonRows
<1>7. ASSUME NEW t \in Incoming, Receive(t)
      PROVE  InboundTypeOK'
  <2>1. SenderOf(t) \subseteq People
    BY <1>7 DEF Receive, SenderOf, Matching
  <2>2. PICK c \in SenderOf(t) : /\ person' = [person EXCEPT ![c] = Heard(c, t)]
                                 /\ kept' = [kept EXCEPT ![t] = c]
    BY <1>7 DEF Receive
  <2>3. Sender[t] \in Numbers
    BY InboundAssumption
  <2>4. c \in People
    BY <2>1
  <2>5. person' \in [People -> PersonRows]
    <3>1. Heard(c, t) \in PersonRows
      BY <2>3, <2>4, InboundRows DEF PersonRows, Heard
    <3>2. QED
      BY <2>2, <2>4, <3>1, InboundRows
  <2>6. kept' \in [Incoming -> People \union {NoPerson}]
    BY <2>2, <2>4 DEF InboundTypeOK
  <2>7. suppressions' \subseteq Numbers /\ refused' \subseteq Numbers
    BY <1>7, <2>3 DEF Receive, SuppressedWith, InboundTypeOK
  <2>8. QED
    BY <1>7, <2>5, <2>6, <2>7 DEF Receive, InboundTypeOK
<1>8. ASSUME NEW s \in Sends, NEW c \in People, QueueSend(s, c)
      PROVE  InboundTypeOK'
  BY <1>8 DEF InboundTypeOK, QueueSend, Contactable, Reachable, SendRows
<1>9. ASSUME NEW s \in Sends, ClaimQueued(s)
      PROVE  InboundTypeOK'
  BY <1>9 DEF InboundTypeOK, ClaimQueued, SendRows
<1>10. QED
  BY <1>1, <1>2, <1>3, <1>4, <1>5, <1>6, <1>7, <1>8, <1>9 DEF InboundNext

\* People, texts and sends keep their types.
THEOREM InboundTypes == InboundSpec => []InboundTypeOK
BY InboundTypeInit, InboundTypeStep, PTL DEF InboundSpec

\* safety.ts suppress: whoever asked to stop is on the list of suppressions.
RefusedAreSuppressed == refused \subseteq suppressions

\* processInboundMessage suppresses the number in the transaction that keeps
\* the text, and no operation takes a suppression away.
LEMMA Suppressed == InboundSpec => []RefusedAreSuppressed
<1>1. InboundInit => RefusedAreSuppressed
  BY DEF InboundInit, RefusedAreSuppressed
<1>2. RefusedAreSuppressed /\ [InboundNext]_inboundVars => RefusedAreSuppressed'
  <2> SUFFICES ASSUME RefusedAreSuppressed, [InboundNext]_inboundVars
               PROVE  RefusedAreSuppressed'
    OBVIOUS
  <2>1. CASE UNCHANGED <<refused, suppressions>>
    BY <2>1 DEF RefusedAreSuppressed
  <2>2. ASSUME NEW t \in Incoming, Receive(t)
        PROVE  RefusedAreSuppressed'
    BY <2>2 DEF Receive, SuppressedWith, RefusedAreSuppressed
  <2>3. QED
    BY <2>1, <2>2 DEF InboundNext, Configure, SetConnection, SetEnabled, ChangeNumber,
       ArchiveCustomer, OpenThread, ArchiveThread, RecordConsent, QueueSend, ClaimQueued,
       inboundVars
<1>3. QED
  BY <1>1, <1>2, PTL DEF InboundSpec

\* worker.ts, the checks when a message is claimed: whatever people share,
\* change and write, a number that asked to stop is not written to.
THEOREM StopStandsForNumbers == InboundSpec => NumberStopStands
<1> DEFINE Step == \A s \in Sends :
                     send[s].state = "queued" /\ send'[s].state = "sending" => send[s].to \notin refused
<1>1. InboundTypeOK /\ RefusedAreSuppressed /\ [InboundNext]_inboundVars => Step
  <2> SUFFICES ASSUME InboundTypeOK, RefusedAreSuppressed, [InboundNext]_inboundVars,
                      NEW s \in Sends, send[s].state = "queued", send'[s].state = "sending"
               PROVE  send[s].to \notin refused
    OBVIOUS
  <2>1. send' # send
    OBVIOUS
  <2>2. ASSUME NEW c \in People, ArchiveThread(c)
        PROVE  FALSE
    BY <2>2 DEF ArchiveThread, InboundTypeOK, SendRows
  <2>3. ASSUME NEW r \in Sends, NEW c \in People, QueueSend(r, c)
        PROVE  FALSE
    BY <2>3 DEF QueueSend, InboundTypeOK, SendRows
  <2>4. ASSUME NEW r \in Sends, ClaimQueued(r)
        PROVE  send[s].to \notin refused
    <3>1. r = s /\ Sendable(s)
      BY <2>4 DEF ClaimQueued, InboundTypeOK, SendRows
    <3>2. send[s].to \notin suppressions
      BY <3>1 DEF Sendable, Contactable, Reachable
    <3>3. QED
      BY <3>2 DEF RefusedAreSuppressed
  <2>5. QED
    BY <2>1, <2>2, <2>3, <2>4 DEF InboundNext, Configure, SetConnection, SetEnabled, ChangeNumber,
       ArchiveCustomer, OpenThread, RecordConsent, Receive, inboundVars
<1>2. QED
  BY <1>1, InboundTypes, Suppressed, PTL DEF InboundSpec, NumberStopStands

-----------------------------------------------------------------------------
(* Knowledge: an entry that was withdrawn, by itself or with what it comes *)
(* from, is said again only by a member who has seen that.  The invariant  *)
(* says why: a screen read before the withdrawal shows an older revision   *)
(* of whatever stands in the way, and every operation compares revisions.  *)

SourcesOf(e) == Provenance[e].documents \union {Provenance[e].source}
\* The entry itself stands in nobody's way.
Standing(e) == entry[e].active /\ entry[e].approved > 0 /\ entry[e].approved = entry[e].latest

ScreensAreOld ==
  /\ \A e \in Entries : gone[e] <= revision
  /\ \A m \in Readers : /\ screen[m].at <= revision
                        /\ \A x \in Shelved : screen[m].shelf[x] <= shelf[x].revision
                        /\ \A e \in Entries : screen[m].entry[e].revision <= entry[e].revision
RowsAreThere ==
  /\ \A x \in Shelved : shelf[x].active => shelf[x].revision > 0
  /\ \A e \in Entries : entry[e].approved > 0 => \A x \in SourcesOf(e) : shelf[x].revision > 0
DecidedOnThis ==
  /\ decision.at <= revision
  /\ decision.at = revision => decision.said = Sayable
BarredFor(e, m) ==
  /\ ~Standing(e) => screen[m].entry[e].revision < entry[e].revision
  /\ \A x \in SourcesOf(e) : ~shelf[x].active => screen[m].shelf[x] < shelf[x].revision
OldScreensAreBarred ==
  \A e \in Entries, m \in Readers :
    e \notin Retrieved /\ screen[m].at < gone[e] => BarredFor(e, m)

KnowledgeInv == KnowledgeTypeOK /\ ScreensAreOld /\ RowsAreThere /\ DecidedOnThis /\ OldScreensAreBarred

LEMMA SourcesTyped == \A e \in Entries : SourcesOf(e) \subseteq Shelved
BY KnowledgeAssumption DEF SourcesOf, Shelved

\* retrieval.ts and repository.ts, in one condition.
LEMMA RetrievedMeans ==
  /\ \A e \in Entries : e \in Retrieved <=> Standing(e) /\ \A x \in SourcesOf(e) : shelf[x].active
  /\ \A e \in Entries : e \in Retrieved' <=> Standing(e)' /\ \A x \in SourcesOf(e) : shelf'[x].active
BY DEF Retrieved, Standing, SourcesOf, Current

\* What a change does: one row has another revision, the organization too.
ShelfChange(x) ==
  /\ x \in Shelved
  /\ shelf'[x].revision = shelf[x].revision + 1
  /\ \A y \in Shelved \ {x} : shelf'[y] = shelf[y]
  /\ UNCHANGED <<entry, version, screen, decision>> /\ Record
EntryChange(e) ==
  /\ e \in Entries
  /\ entry'[e].revision = entry[e].revision + 1
  /\ \A f \in Entries \ {e} : entry'[f] = entry[f]
  /\ UNCHANGED <<shelf, screen, decision>> /\ Record
\* The pages that are shown and the decisions made change nothing else.
Looks == UNCHANGED <<shelf, entry, version, revision, gone>>

LEMMA KnowledgeTypeInit == KnowledgeInit => KnowledgeTypeOK
<1> SUFFICES ASSUME KnowledgeInit
             PROVE  KnowledgeTypeOK
  OBVIOUS
<1>1. NoEntry \in EntryRows /\ NoEntry.latest = 0 /\ NoEntry.approved = 0
  BY DEF NoEntry, EntryRows
<1>2. NoScreen \in [at : 0 .. MaxRevision, shelf : [Shelved -> Nat], entry : [Entries -> EntryRows]]
  BY <1>1, KnowledgeAssumption DEF NoScreen
<1>3. /\ shelf \in [Shelved -> [active : BOOLEAN, revision : Nat]]
      /\ entry \in [Entries -> EntryRows]
      /\ version \in [Entries -> Seq({"general", "restricted"})]
      /\ revision \in 0 .. MaxRevision /\ gone \in [Entries -> 0 .. MaxRevision]
  BY <1>1, KnowledgeAssumption DEF KnowledgeInit, Absent
<1>4. \A e \in Entries : entry[e].latest = Len(version[e]) /\ entry[e].approved <= entry[e].latest
  BY <1>1 DEF KnowledgeInit
<1>5. decision.at \in -1 .. MaxRevision
  BY KnowledgeAssumption DEF KnowledgeInit, NoDecision
<1>6. QED
  BY <1>2, <1>3, <1>4, <1>5 DEF KnowledgeInit, KnowledgeTypeOK

\* Every revision is one more than the last, and a withdrawal keeps its own.
LEMMA Recorded ==
  ASSUME KnowledgeTypeOK, Record
  PROVE  /\ revision < MaxRevision /\ revision' = revision + 1
         /\ revision' \in 0 .. MaxRevision /\ gone' \in [Entries -> 0 .. MaxRevision]
         /\ \A e \in Entries : gone'[e] = IF e \in Retrieved /\ e \notin Retrieved'
                                          THEN revision + 1 ELSE gone[e]
<1>1. revision < MaxRevision /\ revision' = revision + 1 /\ revision' \in 0 .. MaxRevision
  BY KnowledgeAssumption DEF Record, KnowledgeTypeOK
<1>2. \A e \in Entries : gone'[e] = IF e \in Retrieved /\ e \notin Retrieved'
                                    THEN revision + 1 ELSE gone[e]
  BY DEF Record
<1>3. gone' \in [Entries -> 0 .. MaxRevision]
  BY <1>1 DEF Record, KnowledgeTypeOK
<1>4. QED
  BY <1>1, <1>2, <1>3

LEMMA ShelfTypes ==
  ASSUME KnowledgeTypeOK, NEW x \in Shelved, NEW b \in BOOLEAN,
         shelf' = [shelf EXCEPT ![x] = [active |-> b, revision |-> shelf[x].revision + 1]],
         UNCHANGED <<entry, version, screen, decision>>, Record
  PROVE  KnowledgeTypeOK' /\ ShelfChange(x)
<1>1. shelf[x].revision + 1 \in Nat
  BY DEF KnowledgeTypeOK
<1>2. shelf' \in [Shelved -> [active : BOOLEAN, revision : Nat]]
  BY <1>1 DEF KnowledgeTypeOK
<1>3. shelf'[x].revision = shelf[x].revision + 1 /\ \A y \in Shelved \ {x} : shelf'[y] = shelf[y]
  BY DEF KnowledgeTypeOK
<1>4. QED
  BY <1>2, <1>3, Recorded DEF KnowledgeTypeOK, ShelfChange

LEMMA EntryTypes ==
  ASSUME KnowledgeTypeOK, NEW e \in Entries, NEW r \in EntryRows,
         r.revision = entry[e].revision + 1, r.approved <= r.latest,
         entry' = [entry EXCEPT ![e] = r],
         version' \in [Entries -> Seq({"general", "restricted"})],
         r.latest = Len(version'[e]), \A f \in Entries \ {e} : version'[f] = version[f],
         UNCHANGED <<shelf, screen, decision>>, Record
  PROVE  KnowledgeTypeOK' /\ EntryChange(e) /\ entry'[e] = r
<1>1. entry' \in [Entries -> EntryRows] /\ entry'[e] = r
  BY DEF KnowledgeTypeOK
<1>2. \A f \in Entries \ {e} : entry'[f] = entry[f]
  BY DEF KnowledgeTypeOK
<1>3. \A f \in Entries : entry'[f].latest = Len(version'[f]) /\ entry'[f].approved <= entry'[f].latest
  BY <1>1, <1>2 DEF KnowledgeTypeOK
<1>4. QED
  BY <1>1, <1>2, <1>3, Recorded DEF KnowledgeTypeOK, EntryChange

-----------------------------------------------------------------------------
(* The operations, one lemma each.                                         *)

LEMMA DoSave ==
  ASSUME KnowledgeTypeOK, NEW m \in Readers, NEW e \in Entries,
         NEW risk \in {"general", "restricted"}, SaveEntry(m, e, risk)
  PROVE  /\ KnowledgeTypeOK' /\ EntryChange(e) /\ entry'[e].approved = 0
         /\ \A x \in SourcesOf(e) : shelf[x].revision > 0
<1> DEFINE n == entry[e].latest + 1
           k == entry[e].revision + 1
           r == [latest |-> n, approved |-> 0, active |-> FALSE, revision |-> k]
<1>1. n \in Nat /\ k \in Nat /\ 0 <= n
  BY DEF KnowledgeTypeOK, EntryRows
<1>2. /\ entry' = [entry EXCEPT ![e] = r] /\ version' = [version EXCEPT ![e] = Append(version[e], risk)]
      /\ UNCHANGED <<shelf, screen, decision>> /\ Record
  BY DEF SaveEntry
<1>3. /\ version' \in [Entries -> Seq({"general", "restricted"})]
      /\ n = Len(version'[e]) /\ \A f \in Entries \ {e} : version'[f] = version[f]
  BY <1>2 DEF KnowledgeTypeOK
<1> HIDE DEF n, k
<1>4. r \in EntryRows /\ r.revision = k /\ r.approved = 0 /\ r.latest = n
  BY <1>1 DEF EntryRows
<1> HIDE DEF r
<1>5. KnowledgeTypeOK' /\ EntryChange(e) /\ entry'[e] = r
  BY <1>1, <1>2, <1>3, <1>4, EntryTypes DEF k
<1>6. QED
  BY <1>4, <1>5 DEF SaveEntry, SourcesOf

LEMMA DoApprove ==
  ASSUME KnowledgeTypeOK, NEW m \in Readers, NEW e \in Entries, Approve(m, e)
  PROVE  /\ KnowledgeTypeOK' /\ EntryChange(e)
         /\ entry[e].revision = screen[m].entry[e].revision
         /\ \A x \in SourcesOf(e) : shelf[x].active
<1> DEFINE n == screen[m].entry[e].latest
           k == entry[e].revision + 1
           r == [latest |-> entry[e].latest, approved |-> n, active |-> TRUE, revision |-> k]
<1>1. n \in Nat /\ k \in Nat /\ n = entry[e].latest
  BY DEF KnowledgeTypeOK, EntryRows, Approve
<1>2. entry' = [entry EXCEPT ![e] = r]
  <2>1. entry' = [entry EXCEPT ![e].active = TRUE, ![e].approved = n, ![e].revision = @ + 1]
    BY DEF Approve
  <2>2. entry[e] \in EntryRows /\ entry \in [Entries -> EntryRows]
    BY DEF KnowledgeTypeOK
  <2>3. QED
    BY <2>1, <2>2 DEF EntryRows
<1>3. /\ version' \in [Entries -> Seq({"general", "restricted"})] /\ version' = version
      /\ n = Len(version'[e]) /\ UNCHANGED <<shelf, screen, decision>> /\ Record
  BY <1>1 DEF KnowledgeTypeOK, Approve
<1> HIDE DEF n, k
<1>4. r \in EntryRows /\ r.revision = k /\ r.approved <= r.latest /\ r.latest = n
  BY <1>1 DEF EntryRows
<1> HIDE DEF r
<1>5. KnowledgeTypeOK' /\ EntryChange(e) /\ entry'[e] = r
  BY <1>2, <1>3, <1>4, EntryTypes DEF k
<1>6. QED
  BY <1>5 DEF Approve, SameRevision, SourcesOf

LEMMA DoToggleEntry ==
  ASSUME KnowledgeTypeOK, NEW m \in Readers, NEW e \in Entries, NEW b \in BOOLEAN, ToggleEntry(m, e, b)
  PROVE  /\ KnowledgeTypeOK' /\ EntryChange(e)
         /\ entry[e].revision = screen[m].entry[e].revision
         /\ entry'[e].approved = entry[e].approved /\ entry'[e].latest = entry[e].latest
<1> DEFINE k == entry[e].revision + 1
           r == [latest |-> entry[e].latest, approved |-> entry[e].approved, active |-> b, revision |-> k]
<1>1. /\ k \in Nat /\ entry[e].latest \in Nat /\ entry[e].approved \in Nat
      /\ entry[e].approved <= entry[e].latest
  BY DEF KnowledgeTypeOK, EntryRows
<1>2. entry' = [entry EXCEPT ![e] = r]
  <2>1. entry' = [entry EXCEPT ![e].active = b, ![e].revision = @ + 1]
    BY DEF ToggleEntry
  <2>2. entry[e] \in EntryRows /\ entry \in [Entries -> EntryRows]
    BY DEF KnowledgeTypeOK
  <2>3. QED
    BY <2>1, <2>2 DEF EntryRows
<1>3. /\ version' \in [Entries -> Seq({"general", "restricted"})] /\ version' = version
      /\ entry[e].latest = Len(version'[e]) /\ UNCHANGED <<shelf, screen, decision>> /\ Record
  BY DEF KnowledgeTypeOK, ToggleEntry
<1> HIDE DEF k
<1>4. /\ r \in EntryRows /\ r.revision = k /\ r.approved <= r.latest
      /\ r.latest = entry[e].latest /\ r.approved = entry[e].approved
  BY <1>1 DEF EntryRows
<1> HIDE DEF r
<1>5. KnowledgeTypeOK' /\ EntryChange(e) /\ entry'[e] = r
  BY <1>2, <1>3, <1>4, EntryTypes DEF k
<1>6. QED
  BY <1>4, <1>5 DEF ToggleEntry

LEMMA DoShelf ==
  ASSUME KnowledgeTypeOK, NEW x \in Shelved
  PROVE  /\ x \in Sources /\ AddSource(x) => KnowledgeTypeOK' /\ ShelfChange(x)
         /\ x \in Documents /\ AddDocument(x) => KnowledgeTypeOK' /\ ShelfChange(x)
         /\ \A m \in Readers, b \in BOOLEAN :
              ToggleShelf(m, x, b) =>
                KnowledgeTypeOK' /\ ShelfChange(x) /\ shelf[x].revision = screen[m].shelf[x]
<1>1. ASSUME AddSource(x) \/ AddDocument(x)
      PROVE  KnowledgeTypeOK' /\ ShelfChange(x)
  <2>1. shelf' = [shelf EXCEPT ![x] = [active |-> TRUE, revision |-> shelf[x].revision + 1]]
    BY <1>1 DEF AddSource, AddDocument
  <2>2. UNCHANGED <<entry, version, screen, decision>> /\ Record
    BY <1>1 DEF AddSource, AddDocument
  <2>3. QED
    BY <2>1, <2>2, ShelfTypes
<1>2. ASSUME NEW m \in Readers, NEW b \in BOOLEAN, ToggleShelf(m, x, b)
      PROVE  KnowledgeTypeOK' /\ ShelfChange(x) /\ shelf[x].revision = screen[m].shelf[x]
  <2>1. shelf' = [shelf EXCEPT ![x] = [active |-> b, revision |-> shelf[x].revision + 1]]
    BY <1>2 DEF ToggleShelf
  <2>2. UNCHANGED <<entry, version, screen, decision>> /\ Record
    BY <1>2 DEF ToggleShelf
  <2>3. KnowledgeTypeOK' /\ ShelfChange(x)
    BY <2>1, <2>2, ShelfTypes
  <2>4. QED
    BY <1>2, <2>3 DEF ToggleShelf
<1>3. QED
  BY <1>1, <1>2

LEMMA DoLook ==
  ASSUME KnowledgeTypeOK, (\E m \in Readers : Read(m)) \/ Decide \/ CarryOut \/ UNCHANGED knowledgeVars
  PROVE  KnowledgeTypeOK' /\ Looks /\ Retrieved' = Retrieved /\ Sayable' = Sayable
<1>1. Looks
  BY DEF Read, Decide, CarryOut, knowledgeVars, Looks
<1>2. Retrieved' = Retrieved /\ Sayable' = Sayable
  BY <1>1 DEF Looks, Retrieved, Current, Sayable
<1>3. decision'.at \in -1 .. MaxRevision
  BY KnowledgeAssumption DEF Read, Decide, CarryOut, knowledgeVars, NoDecision, KnowledgeTypeOK
<1>4. screen' \in [Readers -> [at : 0 .. MaxRevision, shelf : [Shelved -> Nat],
                               entry : [Entries -> EntryRows]]]
  <2>1. [x \in Shelved |-> shelf[x].revision] \in [Shelved -> Nat]
    BY DEF KnowledgeTypeOK
  <2> DEFINE r == [at |-> revision, shelf |-> [x \in Shelved |-> shelf[x].revision], entry |-> entry]
  <2>2. r \in [at : 0 .. MaxRevision, shelf : [Shelved -> Nat], entry : [Entries -> EntryRows]]
    BY <2>1 DEF KnowledgeTypeOK
  <2>3. \A m \in Readers : Read(m) => screen' = [screen EXCEPT ![m] = r]
    BY DEF Read
  <2> HIDE DEF r
  <2>4. QED
    BY <2>2, <2>3 DEF KnowledgeTypeOK, Decide, CarryOut, knowledgeVars
<1>5. QED
  BY <1>1, <1>2, <1>3, <1>4 DEF Looks, KnowledgeTypeOK

-----------------------------------------------------------------------------
(* The invariant.                                                          *)

LEMMA KnowledgeInvInit == KnowledgeInit => KnowledgeInv
<1> SUFFICES ASSUME KnowledgeInit
             PROVE  KnowledgeInv
  OBVIOUS
<1>1. KnowledgeTypeOK
  BY KnowledgeTypeInit
<1>2. /\ revision = 0 /\ decision.at = -1
      /\ \A e \in Entries : gone[e] = 0 /\ entry[e] = NoEntry
      /\ \A x \in Shelved : shelf[x] = Absent
      /\ \A m \in Readers : /\ screen[m].at = 0
                            /\ \A x \in Shelved : screen[m].shelf[x] = 0
                            /\ \A e \in Entries : screen[m].entry[e] = NoEntry
  BY DEF KnowledgeInit, NoScreen, NoDecision
<1>3. ScreensAreOld /\ DecidedOnThis /\ OldScreensAreBarred
  BY <1>2 DEF ScreensAreOld, DecidedOnThis, OldScreensAreBarred, NoEntry, Absent
<1>4. RowsAreThere
  BY <1>2 DEF RowsAreThere, NoEntry, Absent
<1>5. QED
  BY <1>1, <1>3, <1>4 DEF KnowledgeInv

\* Revisions only grow, so a screen and a decision are of the past.
LEMMA RevisionsGrow ==
  ASSUME KnowledgeInv, KnowledgeTypeOK',
         (\E x \in Shelved : ShelfChange(x)) \/ (\E e \in Entries : EntryChange(e))
  PROVE  /\ ScreensAreOld' /\ DecidedOnThis' /\ UNCHANGED <<screen, decision>> /\ Record
         /\ \A x \in Shelved : shelf'[x].revision >= shelf[x].revision
         /\ \A e \in Entries : entry'[e].revision >= entry[e].revision
<1>1. UNCHANGED <<screen, decision>> /\ Record
  BY DEF ShelfChange, EntryChange
<1>2. /\ \A x \in Shelved : shelf'[x].revision >= shelf[x].revision
      /\ \A e \in Entries : entry'[e].revision >= entry[e].revision
  <2>1. /\ \A x \in Shelved : shelf[x].revision \in Nat
        /\ \A e \in Entries : entry[e].revision \in Nat
    BY DEF KnowledgeInv, KnowledgeTypeOK, EntryRows
  <2>2. ASSUME NEW y \in Shelved, ShelfChange(y)
        PROVE  /\ \A x \in Shelved : shelf'[x].revision >= shelf[x].revision
               /\ entry' = entry
    <3>1. ASSUME NEW x \in Shelved
          PROVE  shelf'[x].revision = shelf[x].revision \/ shelf'[x].revision = shelf[x].revision + 1
      BY <2>2 DEF ShelfChange
    <3>2. QED
      BY <2>1, <2>2, <3>1 DEF ShelfChange
  <2>3. ASSUME NEW f \in Entries, EntryChange(f)
        PROVE  /\ \A e \in Entries : entry'[e].revision >= entry[e].revision
               /\ shelf' = shelf
    <3>1. ASSUME NEW e \in Entries
          PROVE  entry'[e].revision = entry[e].revision \/ entry'[e].revision = entry[e].revision + 1
      BY <2>3 DEF EntryChange
    <3>2. QED
      BY <2>1, <2>3, <3>1 DEF EntryChange
  <2>4. QED
    BY <2>1, <2>2, <2>3
<1>3. revision' = revision + 1 /\ \A e \in Entries : gone'[e] <= revision'
  <2>1. revision \in Nat
    BY KnowledgeAssumption DEF KnowledgeInv, KnowledgeTypeOK
  <2>2. \A e \in Entries : gone[e] \in Nat /\ gone[e] <= revision
    BY KnowledgeAssumption DEF KnowledgeInv, KnowledgeTypeOK, ScreensAreOld
  <2>3. revision' = revision + 1 /\ \A e \in Entries : gone'[e] \in {gone[e], revision + 1}
    BY <1>1, Recorded DEF KnowledgeInv
  <2>4. QED
    BY <2>1, <2>2, <2>3
<1>4. ScreensAreOld'
  <2>1. ASSUME NEW m \in Readers
        PROVE  screen'[m].at <= revision'
    BY <1>1, <1>3, KnowledgeAssumption DEF KnowledgeInv, KnowledgeTypeOK, ScreensAreOld
  <2>2. ASSUME NEW m \in Readers, NEW x \in Shelved
        PROVE  screen'[m].shelf[x] <= shelf'[x].revision
    <3>1. /\ screen[m].shelf[x] \in Nat /\ shelf[x].revision \in Nat /\ shelf'[x].revision \in Nat
          /\ screen[m].shelf[x] <= shelf[x].revision
      BY DEF KnowledgeInv, KnowledgeTypeOK, ScreensAreOld
    <3>2. QED
      BY <1>1, <1>2, <3>1
  <2>3. ASSUME NEW m \in Readers, NEW e \in Entries
        PROVE  screen'[m].entry[e].revision <= entry'[e].revision
    <3>1. /\ screen[m].entry[e].revision \in Nat /\ entry[e].revision \in Nat
          /\ entry'[e].revision \in Nat /\ screen[m].entry[e].revision <= entry[e].revision
      BY DEF KnowledgeInv, KnowledgeTypeOK, ScreensAreOld, EntryRows
    <3>2. QED
      BY <1>1, <1>2, <3>1
  <2>4. QED
    BY <1>3, <2>1, <2>2, <2>3 DEF ScreensAreOld
<1>5. DecidedOnThis'
  <2>1. decision.at \in Int /\ decision.at <= revision /\ revision \in Nat
    BY KnowledgeAssumption DEF KnowledgeInv, KnowledgeTypeOK, DecidedOnThis
  <2>2. decision'.at <= revision' /\ decision'.at # revision'
    BY <1>1, <1>3, <2>1
  <2>3. QED
    BY <2>2 DEF DecidedOnThis
<1>6. QED
  BY <1>1, <1>2, <1>4, <1>5

\* A source, a document, or its switch.
LEMMA ShelfKeeps ==
  ASSUME KnowledgeInv, KnowledgeTypeOK', NEW x \in Shelved, ShelfChange(x)
  PROVE  KnowledgeInv'
<1>1. ScreensAreOld' /\ DecidedOnThis' /\ screen' = screen /\ entry' = entry /\ Record
  BY RevisionsGrow DEF ShelfChange
<1>2. /\ shelf'[x].revision = shelf[x].revision + 1 /\ shelf[x].revision \in Nat
      /\ \A y \in Shelved \ {x} : shelf'[y] = shelf[y]
  BY DEF ShelfChange, KnowledgeInv, KnowledgeTypeOK
<1>3. RowsAreThere'
  <2>1. \A y \in Shelved : shelf'[y].revision > 0 \/ shelf'[y] = shelf[y]
    BY <1>2
  <2>2. QED
    BY <1>1, <2>1, SourcesTyped DEF RowsAreThere, KnowledgeInv
<1>4. OldScreensAreBarred'
  <2> SUFFICES ASSUME NEW e \in Entries, NEW m \in Readers, e \notin Retrieved', screen[m].at < gone'[e]
               PROVE  BarredFor(e, m)'
    BY <1>1 DEF OldScreensAreBarred
  <2>1. /\ screen[m].shelf[x] <= shelf[x].revision /\ screen[m].shelf[x] \in Nat
        /\ Standing(e)' = Standing(e)
    BY <1>1 DEF KnowledgeInv, ScreensAreOld, KnowledgeTypeOK, Standing
  <2>2. CASE e \in Retrieved
    BY <1>1, <1>2, <2>1, <2>2, RetrievedMeans, SourcesTyped DEF BarredFor
  <2>3. CASE e \notin Retrieved
    <3>1. BarredFor(e, m)
      BY <1>1, <2>3, Recorded DEF KnowledgeInv, OldScreensAreBarred
    <3>2. QED
      BY <1>1, <1>2, <2>1, <3>1, SourcesTyped DEF BarredFor
  <2>4. QED
    BY <2>2, <2>3
<1>5. QED
  BY <1>1, <1>3, <1>4 DEF KnowledgeInv

\* A version, a review, or the switch of an entry.
LEMMA EntryKeeps ==
  ASSUME KnowledgeInv, KnowledgeTypeOK', NEW e \in Entries, EntryChange(e),
         entry'[e].approved > 0 => \A x \in SourcesOf(e) : shelf[x].revision > 0
  PROVE  KnowledgeInv'
<1>1. ScreensAreOld' /\ DecidedOnThis' /\ screen' = screen /\ shelf' = shelf /\ Record
  BY RevisionsGrow DEF EntryChange
<1>2. /\ entry'[e].revision = entry[e].revision + 1 /\ entry[e].revision \in Nat
      /\ \A f \in Entries \ {e} : entry'[f] = entry[f]
  BY DEF EntryChange, KnowledgeInv, KnowledgeTypeOK, EntryRows
<1>3. RowsAreThere'
  BY <1>1, <1>2 DEF RowsAreThere, KnowledgeInv
<1>4. OldScreensAreBarred'
  <2> SUFFICES ASSUME NEW f \in Entries, NEW m \in Readers, f \notin Retrieved', screen[m].at < gone'[f]
               PROVE  BarredFor(f, m)'
    BY <1>1 DEF OldScreensAreBarred
  <2>1. screen[m].entry[e].revision <= entry[e].revision /\ screen[m].entry[e].revision \in Nat
    <3>1. screen[m].entry[e] \in EntryRows
      BY DEF KnowledgeInv, KnowledgeTypeOK
    <3>2. screen[m].entry[e].revision <= entry[e].revision
      BY DEF KnowledgeInv, ScreensAreOld
    <3>3. QED
      BY <3>1, <3>2 DEF EntryRows
  <2>2. f # e => Standing(f)' = Standing(f)
    BY <1>2 DEF Standing
  <2>3. CASE f \in Retrieved
    BY <1>1, <1>2, <2>1, <2>2, <2>3, RetrievedMeans DEF BarredFor
  <2>4. CASE f \notin Retrieved
    <3>1. BarredFor(f, m)
      BY <1>1, <2>4, Recorded DEF KnowledgeInv, OldScreensAreBarred
    <3>2. QED
      BY <1>1, <1>2, <2>1, <2>2, <3>1 DEF BarredFor
  <2>5. QED
    BY <2>3, <2>4
<1>5. QED
  BY <1>1, <1>3, <1>4 DEF KnowledgeInv

LEMMA LookKeeps ==
  ASSUME KnowledgeInv, (\E m \in Readers : Read(m)) \/ Decide \/ CarryOut \/ UNCHANGED knowledgeVars
  PROVE  KnowledgeInv'
<1>1. KnowledgeTypeOK' /\ Looks /\ Retrieved' = Retrieved /\ Sayable' = Sayable
  BY DoLook DEF KnowledgeInv
<1>2. revision \in Nat /\ \A e \in Entries : gone[e] \in Nat /\ gone[e] <= revision
  BY KnowledgeAssumption DEF KnowledgeInv, KnowledgeTypeOK, ScreensAreOld
<1>3. \A n \in Readers :
        \/ screen'[n] = screen[n]
        \/ screen'[n] = [at |-> revision, shelf |-> [x \in Shelved |-> shelf[x].revision], entry |-> entry]
  BY DEF Read, Decide, CarryOut, knowledgeVars, KnowledgeInv, KnowledgeTypeOK
<1>4. ScreensAreOld'
  <2>1. /\ \A x \in Shelved : shelf[x].revision \in Nat
        /\ \A e \in Entries : entry[e].revision \in Nat
    BY DEF KnowledgeInv, KnowledgeTypeOK, EntryRows
  <2>2. ASSUME NEW m \in Readers
        PROVE  /\ screen'[m].at <= revision
               /\ \A x \in Shelved : screen'[m].shelf[x] <= shelf[x].revision
               /\ \A e \in Entries : screen'[m].entry[e].revision <= entry[e].revision
    <3>1. CASE screen'[m] = screen[m]
      BY <3>1 DEF KnowledgeInv, ScreensAreOld
    <3>2. CASE screen'[m] = [at |-> revision, shelf |-> [x \in Shelved |-> shelf[x].revision],
                             entry |-> entry]
      BY <1>2, <2>1, <3>2
    <3>3. QED
      BY <1>3, <3>1, <3>2
  <2>3. QED
    BY <1>1, <1>2, <2>2 DEF ScreensAreOld, Looks
<1>5. RowsAreThere'
  BY <1>1 DEF RowsAreThere, KnowledgeInv, Looks
<1>6. DecidedOnThis'
  BY <1>1, <1>2 DEF DecidedOnThis, KnowledgeInv, Looks, Read, Decide, CarryOut, knowledgeVars, NoDecision
<1>7. OldScreensAreBarred'
  <2> SUFFICES ASSUME NEW e \in Entries, NEW m \in Readers, e \notin Retrieved, screen'[m].at < gone[e]
               PROVE  BarredFor(e, m)'
    BY <1>1 DEF OldScreensAreBarred, Looks
  <2>1. screen'[m] = screen[m]
    <3>1. revision \in Nat /\ gone[e] \in Nat /\ gone[e] <= revision
      BY <1>2
    <3>2. screen'[m].at # revision
      BY <3>1
    <3>3. CASE screen'[m] = [at |-> revision, shelf |-> [x \in Shelved |-> shelf[x].revision],
                             entry |-> entry]
      BY <3>2, <3>3
    <3>4. QED
      BY <1>3, <3>3
  <2>2. BarredFor(e, m)
    BY <2>1 DEF KnowledgeInv, OldScreensAreBarred
  <2>3. QED
    BY <1>1, <2>1, <2>2 DEF BarredFor, Looks, Standing
<1>8. QED
  BY <1>1, <1>4, <1>5, <1>6, <1>7 DEF KnowledgeInv

LEMMA KnowledgeInvStep == KnowledgeInv /\ [KnowledgeNext]_knowledgeVars => KnowledgeInv'
<1> SUFFICES ASSUME KnowledgeInv, [KnowledgeNext]_knowledgeVars
             PROVE  KnowledgeInv'
  OBVIOUS
<1> USE DEF KnowledgeInv
<1>1. CASE (\E m \in Readers : Read(m)) \/ Decide \/ CarryOut \/ UNCHANGED knowledgeVars
  BY <1>1, LookKeeps
<1>2. ASSUME NEW m \in Readers, NEW e \in Entries, Approve(m, e)
      PROVE  KnowledgeInv'
  BY <1>2, DoApprove, EntryKeeps, SourcesTyped DEF RowsAreThere
<1>3. ASSUME NEW m \in Readers, NEW e \in Entries, NEW risk \in {"general", "restricted"},
             SaveEntry(m, e, risk)
      PROVE  KnowledgeInv'
  BY <1>3, DoSave, EntryKeeps
<1>4. ASSUME NEW m \in Readers, NEW e \in Entries, NEW b \in BOOLEAN, ToggleEntry(m, e, b)
      PROVE  KnowledgeInv'
  BY <1>4, DoToggleEntry, EntryKeeps DEF RowsAreThere
<1>5. ASSUME NEW x \in Shelved,
             \/ \E m \in Readers, b \in BOOLEAN : ToggleShelf(m, x, b)
             \/ x \in Sources /\ AddSource(x)
             \/ x \in Documents /\ AddDocument(x)
      PROVE  KnowledgeInv'
  BY <1>5, DoShelf, ShelfKeeps
<1>6. QED
  BY <1>1, <1>2, <1>3, <1>4, <1>5 DEF KnowledgeNext, Shelved

\* service.ts, under the lock of the organization: revisions only grow, and a
\* screen that is older than a withdrawal shows an older revision of what
\* was withdrawn.
THEOREM KnowledgeInductive == KnowledgeSpec => []KnowledgeInv
BY KnowledgeInvInit, KnowledgeInvStep, PTL DEF KnowledgeSpec

-----------------------------------------------------------------------------
\* What changes whether an entry is said.
LEMMA SaidAgain ==
  ASSUME KnowledgeInv, KnowledgeNext, NEW e \in Entries, e \in Retrieved', e \notin Retrieved
  PROVE  \E m \in Readers : Reviews(m) /\ screen[m].at >= gone[e]
<1> DEFINE Seen == \E m \in Readers : Reviews(m) /\ screen[m].at >= gone[e]
<1> SUFFICES Seen
  OBVIOUS
<1> USE DEF KnowledgeInv
<1>1. ASSUME NEW m \in Readers, ~BarredFor(e, m)
      PROVE  screen[m].at >= gone[e]
  <2>1. screen[m].at \in Nat /\ gone[e] \in Nat
    BY KnowledgeAssumption DEF KnowledgeTypeOK
  <2>2. QED
    BY <1>1, <2>1 DEF OldScreensAreBarred
<1>2. ASSUME (\E m \in Readers : Read(m)) \/ Decide \/ CarryOut
      PROVE  Seen
  BY <1>2, DoLook
<1>3. ASSUME NEW f \in Entries, EntryChange(f)
      PROVE  f = e /\ shelf' = shelf /\ Standing(e)' /\ ~Standing(e)
  BY <1>3, RetrievedMeans DEF EntryChange, Standing
<1>4. ASSUME NEW x \in Shelved, ShelfChange(x)
      PROVE  x \in SourcesOf(e) /\ ~shelf[x].active /\ Standing(e)
  BY <1>4, RetrievedMeans, SourcesTyped DEF ShelfChange, Standing, KnowledgeTypeOK
<1>5. ASSUME NEW m \in Readers, NEW f \in Entries, Approve(m, f) \/ \E b \in BOOLEAN : ToggleEntry(m, f, b)
      PROVE  Seen
  <2>1. EntryChange(f) /\ entry[f].revision = screen[m].entry[f].revision
    BY <1>5, DoApprove, DoToggleEntry
  <2>2. f = e /\ ~Standing(e)
    BY <1>3, <2>1
  <2>3. ~BarredFor(e, m)
    BY <2>1, <2>2 DEF BarredFor, KnowledgeTypeOK, EntryRows
  <2>4. Reviews(m)
    BY <1>5 DEF Reviews
  <2>5. QED
    BY <1>1, <2>3, <2>4
<1>6. ASSUME NEW m \in Readers, NEW f \in Entries, NEW risk \in {"general", "restricted"},
             SaveEntry(m, f, risk)
      PROVE  Seen
  BY <1>3, <1>6, DoSave DEF Standing
<1>7. ASSUME NEW m \in Readers, NEW x \in Shelved, NEW b \in BOOLEAN, ToggleShelf(m, x, b)
      PROVE  Seen
  <2>1. ShelfChange(x) /\ shelf[x].revision = screen[m].shelf[x]
    BY <1>7, DoShelf
  <2>2. ~BarredFor(e, m)
    BY <1>4, <2>1 DEF BarredFor, KnowledgeTypeOK
  <2>3. Reviews(m)
    BY <1>7 DEF Reviews
  <2>4. QED
    BY <1>1, <2>2, <2>3
<1>8. ASSUME NEW x \in Shelved, ShelfChange(x), shelf[x].revision = 0
      PROVE  Seen
  <2>1. x \in SourcesOf(e) /\ entry[e].approved > 0
    BY <1>4, <1>8 DEF Standing
  <2>2. QED
    BY <1>8, <2>1 DEF RowsAreThere
<1>9. ASSUME NEW x \in Sources, AddSource(x)
      PROVE  Seen
  BY <1>8, <1>9, DoShelf DEF AddSource, Shelved
<1>10. ASSUME NEW x \in Documents, AddDocument(x)
      PROVE  Seen
  BY <1>8, <1>10, DoShelf DEF AddDocument, Shelved
<1> HIDE DEF Seen
<1>11. QED
  BY <1>2, <1>5, <1>6, <1>7, <1>9, <1>10 DEF KnowledgeNext

\* A decision that is carried out was made with the knowledge that still holds.
LEMMA CarriedOut ==
  ASSUME KnowledgeInv, [KnowledgeNext]_knowledgeVars, decision.at >= 0, decision' = NoDecision
  PROVE  decision.said = Sayable
<1> USE DEF KnowledgeInv
<1>1. decision' # decision
  BY DEF NoDecision
<1>2. ~Decide
  BY KnowledgeAssumption DEF Decide, NoDecision, KnowledgeTypeOK
<1>3. CarryOut
  <2>1. \A m \in Readers : ~Read(m)
    BY <1>1 DEF Read
  <2>2. \A m \in Readers, e \in Entries : ~Approve(m, e)
    BY <1>1 DEF Approve
  <2>3. \A m \in Readers, e \in Entries, risk \in {"general", "restricted"} : ~SaveEntry(m, e, risk)
    BY <1>1 DEF SaveEntry
  <2>4. \A m \in Readers, e \in Entries, b \in BOOLEAN : ~ToggleEntry(m, e, b)
    BY <1>1 DEF ToggleEntry
  <2>5. \A m \in Readers, x \in Shelved, b \in BOOLEAN : ~ToggleShelf(m, x, b)
    BY <1>1 DEF ToggleShelf
  <2>6. (\A s \in Sources : ~AddSource(s)) /\ \A d \in Documents : ~AddDocument(d)
    BY <1>1 DEF AddSource, AddDocument
  <2>7. decision' = decision \/ KnowledgeNext
    BY DEF knowledgeVars
  <2>8. QED
    BY <1>1, <1>2, <2>1, <2>2, <2>3, <2>4, <2>5, <2>6, <2>7 DEF KnowledgeNext
<1>4. QED
  BY <1>3 DEF CarryOut, DecidedOnThis

\* service.ts and context.ts: withdrawn knowledge is said again only by a
\* member whose page is not older than the withdrawal, and a decision is
\* carried out only on the knowledge it was made with.
THEOREM WithdrawnIsNotSaid == KnowledgeSpec => WithdrawnStaysOut
<1> DEFINE Step ==
      /\ \A e \in Retrieved' \ Retrieved : \E m \in Readers : Reviews(m) /\ screen[m].at >= gone[e]
      /\ decision.at >= 0 /\ decision' = NoDecision => decision.said = Sayable
<1>1. KnowledgeInv /\ [KnowledgeNext]_knowledgeVars => Step
  <2> SUFFICES ASSUME KnowledgeInv, [KnowledgeNext]_knowledgeVars
               PROVE  Step
    OBVIOUS
  <2>1. Retrieved' \subseteq Entries
    BY DEF Retrieved
  <2>2. UNCHANGED knowledgeVars => Retrieved' = Retrieved
    BY DEF knowledgeVars, Retrieved, Current
  <2>3. QED
    BY <2>1, <2>2, SaidAgain, CarriedOut
<1>2. QED
  BY <1>1, KnowledgeInductive, PTL DEF KnowledgeSpec, WithdrawnStaysOut

-----------------------------------------------------------------------------
(* Bookings: the row of a text is made before the text is sent, and stays. *)

BookingsSpec == BookingsInit /\ [][BookingsNext]_bookingVars

SmsStatuses == {"none", "active", "booked", "opted_out"}
Kinds == OwnerTexts \union CustomerTexts
HoldSteps == {"check", "ledger", "transport", "heard"}
SendSteps == {"fence"} \union HoldSteps
BackSteps == {"done", "answer", "mark", "tell_missed", "follow"}
OtherSteps == {"idle", "find", "create", "primary", "fallback", "success", "failure", "answer", "mark",
               "conversation", "store", "command", "think", "tell_missed", "log", "follow", "dry_run"}
Jobs == {"none", "sms", "missed", "call", "chat", "ended"}
Hearings == {"none", "accepted", "failed", "opted_out", "unknown"}
ServerRecords ==
  [pc : SendSteps \union OtherSteps, job : Jobs, id : Ids \union {"none"},
   seen : SmsStatuses \union {"primary", "fallback"}, tries : {0, 1}, accepted : BOOLEAN,
   key : Keys \union {<<>>}, back : BackSteps \union {"none"}, heard : Hearings]
AttemptRecords ==
  [status : {"none", "pending", "success", "failed"}, via : SmsStatuses \union {"primary", "fallback"}]
TextRecords == [row : {"none", "pending", "sent", "failed"}, booked : BOOLEAN, taken : Nat]

\* What a server at work remembers is about the request it deals with.
Stands(x) ==
  /\ x.pc # "idle" => x.id \in Ids
  /\ x.pc \in SendSteps => x.key \in Keys /\ x.key[2] = x.id /\ x.back \in BackSteps
  /\ x.accepted \/ x.pc \in {"success", "dry_run"} => x.id \in Ids /\ (dryRun \/ placed[x.id] > 0)

\* A text that was sent has its row, and the appointment it confirms exists.
TextSound(k) ==
  /\ text[k].taken <= 1
  /\ text[k].row = "none" => text[k].taken = 0
  /\ text[k].booked => (dryRun \/ placed[k[2]] > 0)

\* A server past the fence holds the text alone and has not sent it yet.
Holds(p) == server[p].pc \in HoldSteps
HoldSound(p) ==
  Holds(p) =>
    /\ text[server[p].key].row # "none"
    /\ server[p].pc # "heard" => text[server[p].key].taken = 0
    /\ \A q \in Servers : Holds(q) /\ server[q].key = server[p].key => q = p

BookingsTypes ==
  /\ sms \in SmsStatuses
  /\ server \in [Servers -> ServerRecords]
  /\ attempt \in [Ids -> AttemptRecords]
  /\ placed \in [Ids -> Nat]
  /\ text \in [Keys -> TextRecords]
  /\ told \subseteq Jobs \X Ids

BookedInv ==
  /\ \A r \in Ids : attempt[r].status = "success" => (dryRun \/ placed[r] > 0)
  /\ \A t \in told : t[1] = "chat" \/ dryRun \/ placed[t[2]] > 0

\* An opt-out of a linked organization is suppressed for good.
StopInv == linked /\ stopped => suppressed

BookingsInv ==
  /\ BookingsTypes
  /\ \A p \in Servers : Stands(server[p])
  /\ \A k \in Keys : TextSound(k)
  /\ \A p \in Servers : HoldSound(p)
  /\ BookedInv
  /\ StopInv

\* The server leaves the texts alone: it is at no step between fence and answer.
Elsewhere(p) ==
  \E new \in ServerRecords :
    server' = [server EXCEPT ![p] = new] /\ Stands(new) /\ new.pc \notin HoldSteps

LEMMA KeysOfKinds ==
  /\ \A t \in Kinds, r \in Ids : <<t, r>> \in Keys /\ <<t, r>>[2] = r
  /\ \A k \in Keys : k[1] \in Kinds /\ k[2] \in Ids /\ k # <<>>
BY DEF Keys, Kinds

LEMMA NoServerRecord ==
  NoServer \in ServerRecords /\ NoServer.pc = "idle" /\ NoServer.accepted = FALSE
BY DEF NoServer, ServerRecords, SmsStatuses, OtherSteps, Jobs, Hearings

LEMMA BookingsInitInv == BookingsInit => BookingsInv
<1> SUFFICES ASSUME BookingsInit PROVE BookingsInv
  OBVIOUS
<1>1. BookingsTypes
  BY NoServerRecord DEF BookingsInit, BookingsTypes, SmsStatuses, AttemptRecords, TextRecords
<1>2. \A p \in Servers : server[p].pc = "idle" /\ ~server[p].accepted
  BY NoServerRecord DEF BookingsInit
<1>3. \A p \in Servers : Stands(server[p]) /\ HoldSound(p)
  BY <1>2 DEF Stands, HoldSound, Holds, HoldSteps, SendSteps
<1>4. \A k \in Keys : TextSound(k)
  BY DEF BookingsInit, TextSound
<1>5. BookedInv /\ StopInv
  BY DEF BookingsInit, BookedInv, StopInv
<1>6. QED
  BY <1>1, <1>3, <1>4, <1>5 DEF BookingsInv

LEMMA LeaveElsewhere ==
  ASSUME BookingsInv, NEW p \in Servers, server' = Leave(p)
  PROVE  Elsewhere(p)
BY NoServerRecord DEF Leave, Elsewhere, Stands, HoldSteps, SendSteps

LEMMA GoOnElsewhere ==
  ASSUME BookingsInv, NEW p \in Servers, NEW step \in OtherSteps \ {"idle", "success"},
         step = "dry_run" => dryRun, server[p].pc # "idle", server' = GoOn(p, step)
  PROVE  Elsewhere(p)
<1> DEFINE new == [server[p] EXCEPT !.pc = step]
<1>1. server[p] \in ServerRecords /\ Stands(server[p])
  BY DEF BookingsInv, BookingsTypes
<1>2. /\ new \in ServerRecords /\ new.pc = step /\ new.id = server[p].id
      /\ new.accepted = server[p].accepted
  BY <1>1 DEF ServerRecords
<1>3. server' = [server EXCEPT ![p] = new]
  BY DEF GoOn
<1> HIDE DEF new
<1>4. Stands(new) /\ new.pc \notin HoldSteps
  BY <1>1, <1>2 DEF Stands, OtherSteps, SendSteps, HoldSteps
<1>5. QED
  BY <1>2, <1>3, <1>4 DEF Elsewhere

LEMMA SendElsewhere ==
  ASSUME BookingsInv, NEW p \in Servers, NEW t \in Kinds, NEW back \in BackSteps,
         server[p].pc # "idle", server' = SendText(p, <<t, server[p].id>>, back)
  PROVE  Elsewhere(p)
<1> DEFINE key == <<t, server[p].id>>
           new == [server[p] EXCEPT !.pc = "fence", !.key = key, !.back = back]
<1>1. server[p] \in ServerRecords /\ Stands(server[p]) /\ server[p].id \in Ids
  BY DEF BookingsInv, BookingsTypes, Stands
<1>2. key \in Keys /\ key[2] = server[p].id
  BY <1>1, KeysOfKinds
<1>3. server' = [server EXCEPT ![p] = new]
  BY <1>1 DEF SendText, BookingsInv, BookingsTypes, ServerRecords
<1> HIDE DEF key
<1>4. /\ new \in ServerRecords /\ new.pc = "fence" /\ new.id = server[p].id
      /\ new.accepted = server[p].accepted /\ new.key = key /\ new.back = back
  BY <1>1, <1>2 DEF ServerRecords, SendSteps, BackSteps
<1> HIDE DEF new
<1>5. Stands(new) /\ new.pc \notin HoldSteps
  BY <1>1, <1>2, <1>4 DEF Stands, HoldSteps
<1>6. QED
  BY <1>3, <1>4, <1>5 DEF Elsewhere

LEMMA ResumeElsewhere ==
  ASSUME BookingsInv, NEW p \in Servers, server[p].pc \in SendSteps, server' = Resume(p)
  PROVE  Elsewhere(p)
<1>1. server[p] \in ServerRecords /\ Stands(server[p]) /\ server[p].pc # "idle" /\ server[p].back \in BackSteps
  BY DEF BookingsInv, BookingsTypes, Stands, SendSteps, HoldSteps
<1>2. CASE server[p].back = "done"
  BY <1>2, LeaveElsewhere DEF Resume
<1>3. CASE server[p].back # "done"
  <2> DEFINE step == server[p].back
             new == [server[p] EXCEPT !.pc = step, !.key = <<>>, !.back = "none", !.heard = "none"]
  <2>1. step \in OtherSteps \ {"idle", "success", "dry_run"} /\ step \notin SendSteps
    BY <1>1, <1>3 DEF BackSteps, OtherSteps, SendSteps, HoldSteps
  <2>2. server' = [server EXCEPT ![p] = new]
    BY <1>1, <1>3 DEF Resume, BookingsInv, BookingsTypes, ServerRecords
  <2> HIDE DEF step
  <2>3. /\ new \in ServerRecords /\ new.pc = step /\ new.id = server[p].id
        /\ new.accepted = server[p].accepted
    BY <1>1, <2>1 DEF ServerRecords, Hearings
  <2> HIDE DEF new
  <2>4. Stands(new) /\ new.pc \notin HoldSteps
    BY <1>1, <2>1, <2>3 DEF Stands, SendSteps
  <2>5. QED
    BY <2>2, <2>3, <2>4 DEF Elsewhere
<1>4. QED
  BY <1>2, <1>3

LEMMA ServeElsewhere ==
  ASSUME BookingsInv, NEW p \in Servers, NEW job \in Jobs, NEW id \in Ids,
         NEW step \in {"conversation", "find"}, server' = Serve(p, job, id, step)
  PROVE  Elsewhere(p)
<1> DEFINE new == [NoServer EXCEPT !.pc = step, !.job = job, !.id = id]
<1>1. new \in ServerRecords /\ new.pc = step /\ new.id = id /\ new.accepted = FALSE
  BY NoServerRecord DEF ServerRecords, OtherSteps
<1>2. server' = [server EXCEPT ![p] = new]
  BY DEF Serve
<1> HIDE DEF new
<1>3. Stands(new) /\ new.pc \notin HoldSteps
  BY <1>1 DEF Stands, SendSteps, HoldSteps
<1>4. QED
  BY <1>1, <1>2, <1>3 DEF Elsewhere

\* A server that holds no text, or still holds the same one.
LEMMA ServerMoves ==
  ASSUME BookingsInv, NEW p \in Servers, NEW new \in ServerRecords,
         server' = [server EXCEPT ![p] = new], text' = text, sms' \in SmsStatuses,
         placed' \in [Ids -> Nat], \A r \in Ids : placed[r] <= placed'[r],
         attempt' \in [Ids -> AttemptRecords], told' \subseteq Jobs \X Ids, BookedInv', StopInv', dryRun' = dryRun,
         new.pc # "idle" => new.id \in Ids,
         new.pc \in SendSteps => new.key \in Keys /\ new.key[2] = new.id /\ new.back \in BackSteps,
         new.accepted \/ new.pc \in {"success", "dry_run"} => new.id \in Ids /\ (dryRun' \/ placed'[new.id] > 0),
         new.pc \in HoldSteps =>
           Holds(p) /\ new.key = server[p].key /\ (server[p].pc = "heard" => new.pc = "heard")
  PROVE  BookingsInv'
<1>1. server'[p] = new /\ \A q \in Servers \ {p} : server'[q] = server[q]
  BY DEF BookingsInv, BookingsTypes
<1>2. BookingsTypes'
  BY DEF BookingsInv, BookingsTypes
<1>3. ASSUME NEW q \in Servers PROVE Stands(server[q])'
  <2>1. CASE q = p
    BY <1>1, <2>1 DEF Stands
  <2>2. CASE q # p
    <3>1. server'[q] = server[q] /\ Stands(server[q])
      BY <1>1, <2>2 DEF BookingsInv
    <3>2. server[q].id \in Ids => placed[server[q].id] \in Nat /\ placed'[server[q].id] \in Nat
                                  /\ placed[server[q].id] <= placed'[server[q].id]
      BY DEF BookingsInv, BookingsTypes
    <3>3. QED
      BY <3>1, <3>2 DEF Stands
  <2>3. QED
    BY <2>1, <2>2
<1>4. ASSUME NEW k \in Keys PROVE TextSound(k)'
  <2>1. TextSound(k) /\ k[2] \in Ids
    BY KeysOfKinds DEF BookingsInv
  <2>2. placed[k[2]] \in Nat /\ placed'[k[2]] \in Nat /\ placed[k[2]] <= placed'[k[2]]
    BY <2>1 DEF BookingsInv, BookingsTypes
  <2>3. QED
    BY <2>1, <2>2 DEF TextSound
<1>5. \A q \in Servers : server'[q].pc \in HoldSteps =>
         Holds(q) /\ server'[q].key = server[q].key /\ (server[q].pc = "heard" => server'[q].pc = "heard")
  BY <1>1 DEF Holds
<1>6. ASSUME NEW q \in Servers PROVE HoldSound(q)'
  BY <1>5 DEF BookingsInv, HoldSound, Holds
<1>7. QED
  BY <1>2, <1>3, <1>4, <1>6 DEF BookingsInv

\* A server that does something else leaves every text as it is.
LEMMA QuietServers ==
  ASSUME BookingsInv, NEW p \in Servers, Elsewhere(p), UNCHANGED <<text, placed, attempt, told>>,
         sms' \in SmsStatuses, StopInv', dryRun' = dryRun
  PROVE  BookingsInv'
<1>1. PICK new \in ServerRecords :
        server' = [server EXCEPT ![p] = new] /\ Stands(new) /\ new.pc \notin HoldSteps
  BY DEF Elsewhere
<1>2. /\ placed' \in [Ids -> Nat] /\ attempt' \in [Ids -> AttemptRecords] /\ told' \subseteq Jobs \X Ids
      /\ \A r \in Ids : placed[r] <= placed'[r]
  BY DEF BookingsInv, BookingsTypes
<1>3. BookedInv'
  BY DEF BookingsInv, BookedInv
<1>4. /\ new.pc # "idle" => new.id \in Ids
      /\ new.pc \in SendSteps => new.key \in Keys /\ new.key[2] = new.id /\ new.back \in BackSteps
      /\ new.accepted \/ new.pc \in {"success", "dry_run"} => new.id \in Ids /\ (dryRun' \/ placed'[new.id] > 0)
  BY <1>1 DEF Stands
<1>5. QED
  BY <1>1, <1>2, <1>3, <1>4, ServerMoves

\* The one server that may change a text.
WritesText(p, new, key, row) ==
  /\ new \in ServerRecords /\ Stands(new) /\ server' = [server EXCEPT ![p] = new]
  /\ key \in Keys /\ row \in TextRecords /\ text' = [text EXCEPT ![key] = row]
  /\ row.row # "none" /\ row.taken <= 1 /\ (row.booked => (dryRun \/ placed[key[2]] > 0))
  /\ \A q \in Servers \ {p} : Holds(q) => server[q].key # key
  /\ new.pc \in HoldSteps => new.key = key /\ (new.pc # "heard" => row.taken = 0)

LEMMA TextMoves ==
  ASSUME BookingsInv, NEW p \in Servers, NEW new, NEW key, NEW row, WritesText(p, new, key, row),
         placed' = placed, attempt' = attempt, sms' \in SmsStatuses, told' \subseteq Jobs \X Ids, BookedInv', StopInv', dryRun' = dryRun
  PROVE  BookingsInv'
<1> USE DEF WritesText
<1>1. server'[p] = new /\ \A q \in Servers \ {p} : server'[q] = server[q]
  BY DEF BookingsInv, BookingsTypes
<1>2. text'[key] = row /\ \A k \in Keys \ {key} : text'[k] = text[k]
  BY DEF BookingsInv, BookingsTypes
<1>3. BookingsTypes'
  BY DEF BookingsInv, BookingsTypes
<1>4. ASSUME NEW q \in Servers PROVE Stands(server[q])'
  BY <1>1 DEF BookingsInv, Stands
<1>5. ASSUME NEW k \in Keys PROVE TextSound(k)'
  BY <1>2 DEF BookingsInv, TextSound
<1>6. ASSUME NEW q \in Servers PROVE HoldSound(q)'
  <2>1. CASE q = p
    BY <1>1, <1>2, <2>1 DEF HoldSound, Holds
  <2>2. CASE q # p
    <3>1. server'[q] = server[q] /\ HoldSound(q) /\ Stands(server[q]) /\ (Holds(q) => server[q].key # key)
      BY <1>1, <2>2 DEF BookingsInv
    <3>2. Holds(q) => server[q].key \in Keys \ {key}
      BY <3>1 DEF Holds, Stands, SendSteps
    <3>3. Holds(q) => text'[server[q].key] = text[server[q].key]
      BY <3>2, <1>2
    <3>4. Holds(q) => \A o \in Servers : server'[o].pc \in HoldSteps /\ server'[o].key = server[q].key => o = q
      BY <3>1, <1>1 DEF HoldSound, Holds
    <3>5. QED
      BY <3>1, <3>3, <3>4 DEF HoldSound, Holds
  <2>3. QED
    BY <2>1, <2>2
<1>7. QED
  BY <1>3, <1>4, <1>5, <1>6 DEF BookingsInv

\* No server holds a text that has no row, and a text is held by one.
LEMMA NobodyElse ==
  ASSUME BookingsInv, NEW p \in Servers, NEW key \in Keys,
         text[key].row = "none" \/ (Holds(p) /\ server[p].key = key)
  PROVE  \A q \in Servers \ {p} : Holds(q) => server[q].key # key
BY DEF BookingsInv, HoldSound

\* Nothing changes a deployment.
LEMMA SameSetting == [BookingsNext]_bookingVars => UNCHANGED setting
<1> SUFFICES ASSUME [BookingsNext]_bookingVars PROVE UNCHANGED setting
  OBVIOUS
<1>1. ASSUME NEW p \in Servers, SendStep(p) \/ ServerDies(p)
      PROVE  UNCHANGED setting
  BY <1>1 DEF SendStep, Fence, Check, RecordOutbound, Transport, RecordText, ServerDies
<1>2. ASSUME NEW p \in Servers, BookStep(p)
      PROVE  UNCHANGED setting
  BY <1>2 DEF BookStep, FindAttempt, CreateAttempt, RecordDryRun, Place, RecordSuccess, RecordFailure,
     AnswerBooking, MarkBooked
<1>3. ASSUME NEW p \in Servers, SmsStep(p) \/ CallStep(p)
      PROVE  UNCHANGED setting
  BY <1>3 DEF SmsStep, OpenConversation, StoreText, Command, Think, CallStep, TellMissed, LogCallEnded,
     FollowUp
<1>4. ASSUME NEW p \in Servers, NEW m \in Ids, NEW answered \in BOOLEAN,
             ClaimText(p, m) \/ ReceiveText(p, m, answered)
      PROVE  UNCHANGED setting
  BY <1>4 DEF ClaimText, ReceiveText
<1>5. ASSUME NEW p \in Servers, NEW id \in Ids,
             \/ MissedCall(p, id) \/ CallEnded(p, id) \/ AskByCall(p, id) \/ AskByChat(p, id)
             \/ CallStarted(id)
      PROVE  UNCHANGED setting
  BY <1>5 DEF MissedCall, CallEnded, AskByCall, AskByChat, AskBooking, CallStarted
<1>6. CASE UNCHANGED bookingVars
  BY <1>6 DEF bookingVars, setting
<1>7. ASSUME NEW p \in Servers,
             \/ \E m \in Ids : ClaimText(p, m) \/ \E answered \in BOOLEAN : ReceiveText(p, m, answered)
             \/ \E id \in Ids :
                  MissedCall(p, id) \/ CallEnded(p, id) \/ AskByCall(p, id) \/ AskByChat(p, id)
             \/ SendStep(p) \/ BookStep(p) \/ SmsStep(p) \/ CallStep(p) \/ ServerDies(p)
      PROVE  UNCHANGED setting
  BY <1>1, <1>2, <1>3, <1>4, <1>5, <1>7
<1>8. CASE \E c \in Ids : CallStarted(c)
  BY <1>5, <1>8 DEF CallStarted
<1>9. QED
  BY <1>6, <1>7, <1>8 DEF BookingsNext

LEMMA StopsStay == StopInv /\ [BookingsNext]_bookingVars => StopInv'
<1> SUFFICES ASSUME StopInv, [BookingsNext]_bookingVars PROVE StopInv'
  OBVIOUS
<1>1. CASE UNCHANGED <<linked, suppressed, stopped>>
  BY <1>1 DEF StopInv
<1>2. ASSUME NEW p \in Servers, NEW m \in Ids, NEW answered \in BOOLEAN, ReceiveText(p, m, answered)
      PROVE  StopInv'
  BY <1>2 DEF ReceiveText, Projected, OptsOut, setting, StopInv
<1>3. ASSUME NEW p \in Servers, RecordText(p)
      PROVE  StopInv'
  BY <1>3 DEF RecordText, setting, StopInv
<1>4. ASSUME NEW p \in Servers, SendStep(p) \/ BookStep(p) \/ SmsStep(p) \/ CallStep(p) \/ ServerDies(p)
      PROVE  StopInv'
  <2>1. CASE Fence(p) \/ Check(p) \/ RecordOutbound(p) \/ Transport(p) \/ ServerDies(p)
    BY <1>1, <2>1 DEF Fence, Check, RecordOutbound, Transport, ServerDies, setting, customer
  <2>2. CASE BookStep(p)
    BY <1>1, <2>2 DEF BookStep, FindAttempt, CreateAttempt, RecordDryRun, Place, RecordSuccess, RecordFailure, AnswerBooking,
       MarkBooked, setting, customer
  <2>3. CASE SmsStep(p)
    BY <1>1, <2>3 DEF SmsStep, OpenConversation, StoreText, Command, Think, setting, customer
  <2>4. CASE CallStep(p)
    BY <1>1, <2>4 DEF CallStep, TellMissed, LogCallEnded, FollowUp, setting, customer
  <2>5. QED
    BY <1>3, <1>4, <2>1, <2>2, <2>3, <2>4 DEF SendStep
<1>5. ASSUME NEW p \in Servers, NEW id \in Ids,
             ClaimText(p, id) \/ MissedCall(p, id) \/ CallEnded(p, id) \/ AskByCall(p, id) \/ AskByChat(p, id)
      PROVE  StopInv'
  BY <1>1, <1>5 DEF ClaimText, MissedCall, CallEnded, AskByCall, AskByChat, AskBooking, setting, customer
<1>6. ASSUME NEW c \in Ids, CallStarted(c)
      PROVE  StopInv'
  BY <1>1, <1>6 DEF CallStarted, setting, customer
<1>7. CASE UNCHANGED bookingVars
  BY <1>1, <1>7 DEF bookingVars
<1>8. QED
  BY <1>2, <1>4, <1>5, <1>6, <1>7 DEF BookingsNext

LEMMA FailedText ==
  ASSUME BookingsInv, NEW p \in Servers, server[p].pc \in HoldSteps, Failed(p),
         UNCHANGED <<placed, attempt, told>>, sms' \in SmsStatuses, StopInv', dryRun' = dryRun
  PROVE  BookingsInv'
<1> DEFINE key == server[p].key
           quiet == key[1] \in {"reply", "no_booking"}
           new == [text[key] EXCEPT !.row = IF quiet THEN @ ELSE "failed"]
<1>1. key \in Keys /\ server[p].pc \in SendSteps /\ Holds(p)
  BY DEF BookingsInv, Stands, SendSteps, Holds
<1>2. text[key] \in TextRecords /\ text[key].row # "none" /\ TextSound(key)
  BY <1>1 DEF BookingsInv, BookingsTypes, HoldSound
<1>3. text' = [text EXCEPT ![key] = new]
  BY <1>1, <1>2 DEF Failed, BookingsInv, BookingsTypes, TextRecords
<1>4. Elsewhere(p)
  <2>1. server' = Leave(p) \/ server' = Resume(p)
    BY DEF Failed
  <2>2. QED
    BY <1>1, <2>1, LeaveElsewhere, ResumeElsewhere
<1>5. PICK mine \in ServerRecords :
        server' = [server EXCEPT ![p] = mine] /\ Stands(mine) /\ mine.pc \notin HoldSteps
  BY <1>4 DEF Elsewhere
<1>6. /\ new \in TextRecords /\ new.row # "none" /\ new.taken <= 1
      /\ new.booked => (dryRun \/ placed[key[2]] > 0)
  BY <1>2 DEF TextRecords, TextSound
<1>7. \A q \in Servers \ {p} : Holds(q) => server[q].key # key
  BY <1>1, NobodyElse
<1>8. BookedInv' /\ told' \subseteq Jobs \X Ids /\ placed' = placed /\ attempt' = attempt
  BY DEF BookingsInv, BookedInv, BookingsTypes
<1> HIDE DEF new, key
<1>9. QED
  <2>1. WritesText(p, mine, key, new)
    BY <1>1, <1>3, <1>5, <1>6, <1>7 DEF WritesText
  <2>2. QED
    BY <1>8, <2>1, TextMoves

LEMMA FenceStep ==
  ASSUME BookingsInv, NEW p \in Servers, Fence(p), StopInv', dryRun' = dryRun
  PROVE  BookingsInv'
<1> DEFINE key == server[p].key
           booked == key[1] = "reply" /\ server[p].accepted
           row == [text[key] EXCEPT !.row = "pending", !.booked = booked]
           new == [server[p] EXCEPT !.pc = "check"]
<1>1. /\ server[p] \in ServerRecords /\ Stands(server[p]) /\ server[p].pc = "fence" /\ server[p].pc \in SendSteps
      /\ key \in Keys /\ key[2] = server[p].id
  BY DEF Fence, Is, BookingsInv, BookingsTypes, Stands, SendSteps
<1>2. /\ placed' = placed /\ attempt' = attempt /\ told' = told /\ sms' \in SmsStatuses /\ told' \subseteq Jobs \X Ids /\ BookedInv'
  BY DEF Fence, appointments, customer, BookingsInv, BookingsTypes, BookedInv
<1>3. CASE Fenced(key)
  <2>1. text' = text /\ (server' = Leave(p) \/ server' = Resume(p))
    BY <1>3 DEF Fence
  <2>2. QED
    BY <1>1, <1>2, <2>1, LeaveElsewhere, ResumeElsewhere, QuietServers
<1>4. CASE ~Fenced(key)
  <2>1. text[key] \in TextRecords /\ text[key].row = "none" /\ TextSound(key)
    BY <1>1, <1>4 DEF Fenced, BookingsInv, BookingsTypes
  <2>2. text' = [text EXCEPT ![key] = row]
    BY <1>1, <1>4, <2>1 DEF Fence, TextRecords, BookingsInv, BookingsTypes
  <2>3. server' = [server EXCEPT ![p] = new]
    BY <1>4 DEF Fence, GoOn
  <2>4. booked \in BOOLEAN /\ (booked => (dryRun \/ placed[key[2]] > 0))
    BY <1>1 DEF Stands
  <2> HIDE DEF booked
  <2>5. row \in TextRecords /\ row.row # "none" /\ row.taken = 0 /\ row.taken <= 1 /\ row.booked = booked
    BY <2>1, <2>4 DEF TextRecords, TextSound
  <2>6. /\ new \in ServerRecords /\ new.pc = "check" /\ new.key = key /\ new.id = server[p].id
        /\ new.back = server[p].back /\ new.accepted = server[p].accepted
    BY <1>1 DEF ServerRecords, SendSteps, HoldSteps
  <2>7. \A q \in Servers \ {p} : Holds(q) => server[q].key # key
    BY <1>1, <2>1, NobodyElse
  <2>11. key = server[p].key
    OBVIOUS
  <2> HIDE DEF new, row, key
  <2>8. Stands(new)
    BY <1>1, <2>6, <2>11 DEF Stands
  <2>9. row.booked => (dryRun \/ placed[key[2]] > 0)
    BY <2>4, <2>5
  <2>10. new.pc \in HoldSteps => new.key = key /\ (new.pc # "heard" => row.taken = 0)
    BY <2>5, <2>6
  <2>12. key \in Keys /\ new \in ServerRecords /\ row \in TextRecords /\ row.row # "none" /\ row.taken <= 1
    BY <1>1, <2>5, <2>6
  <2>13. WritesText(p, new, key, row)
    BY <2>2, <2>3, <2>7, <2>8, <2>9, <2>10, <2>12 DEF WritesText
  <2>14. QED
    BY <1>2, <2>13, TextMoves
<1>5. QED
  BY <1>3, <1>4

\* A text that is held goes on, or it fails.
LEMMA HeldGoesOn ==
  ASSUME BookingsInv, NEW p \in Servers, server[p].pc \in {"check", "ledger"},
         NEW step \in {"ledger", "transport"}, server' = GoOn(p, step),
         UNCHANGED <<text, placed, attempt, told, sms>>, StopInv', dryRun' = dryRun
  PROVE  BookingsInv'
<1> DEFINE new == [server[p] EXCEPT !.pc = step]
<1>1. server[p] \in ServerRecords /\ Stands(server[p])
  BY DEF BookingsInv, BookingsTypes
<1>2. /\ new \in ServerRecords /\ new.pc = step /\ new.id = server[p].id /\ new.key = server[p].key
      /\ new.back = server[p].back /\ new.accepted = server[p].accepted
  BY <1>1 DEF ServerRecords, SendSteps, HoldSteps
<1>3. server' = [server EXCEPT ![p] = new]
  BY DEF GoOn
<1> HIDE DEF new
<1>4. /\ new.pc # "idle" => new.id \in Ids
      /\ new.pc \in SendSteps => new.key \in Keys /\ new.key[2] = new.id /\ new.back \in BackSteps
      /\ new.accepted \/ new.pc \in {"success", "dry_run"} => new.id \in Ids /\ (dryRun' \/ placed'[new.id] > 0)
      /\ Holds(p) /\ new.key = server[p].key /\ server[p].pc # "heard"
  BY <1>1, <1>2 DEF Stands, SendSteps, HoldSteps, Holds
<1>5. /\ placed' \in [Ids -> Nat] /\ attempt' \in [Ids -> AttemptRecords] /\ told' \subseteq Jobs \X Ids
      /\ sms' \in SmsStatuses /\ BookedInv' /\ \A r \in Ids : placed[r] <= placed'[r]
  BY DEF BookingsInv, BookingsTypes, BookedInv
<1>6. QED
  BY <1>2, <1>3, <1>4, <1>5, ServerMoves

LEMMA CheckStep ==
  ASSUME BookingsInv, NEW p \in Servers, Check(p) \/ RecordOutbound(p), StopInv', dryRun' = dryRun
  PROVE  BookingsInv'
<1>1. /\ server[p].pc \in {"check", "ledger"} /\ server[p].pc \in HoldSteps
      /\ UNCHANGED <<placed, attempt, told, sms>> /\ sms' \in SmsStatuses
  BY DEF Check, RecordOutbound, Is, HoldSteps, customer, appointments, BookingsInv, BookingsTypes
<1>2. Failed(p) \/ (text' = text /\ \E step \in {"ledger", "transport"} : server' = GoOn(p, step))
  BY DEF Check, RecordOutbound
<1>3. QED
  BY <1>1, <1>2, FailedText, HeldGoesOn

LEMMA TransportStep ==
  ASSUME BookingsInv, NEW p \in Servers, Transport(p), StopInv', dryRun' = dryRun
  PROVE  BookingsInv'
<1>1. PICK heard \in Hearings, taken \in 0..1 :
        /\ text' = [text EXCEPT ![server[p].key].taken = @ + taken]
        /\ server' = [server EXCEPT ![p].pc = "heard", ![p].heard = heard]
  BY SMTT(20) DEF Transport, Hearings
<1> DEFINE key == server[p].key
           row == [text[key] EXCEPT !.taken = @ + taken]
           new == [server[p] EXCEPT !.pc = "heard", !.heard = heard]
<1>2. /\ server[p] \in ServerRecords /\ Stands(server[p]) /\ server[p].pc = "transport" /\ server[p].pc \in SendSteps
      /\ Holds(p) /\ key \in Keys
  BY DEF Transport, Is, Holds, BookingsInv, BookingsTypes, Stands, SendSteps, HoldSteps
<1>3. /\ placed' = placed /\ attempt' = attempt /\ told' = told /\ sms' \in SmsStatuses /\ told' \subseteq Jobs \X Ids /\ BookedInv'
  BY DEF Transport, appointments, customer, BookingsInv, BookingsTypes, BookedInv
<1>4. text[key] \in TextRecords /\ text[key].row # "none" /\ text[key].taken = 0 /\ TextSound(key)
  BY <1>2 DEF BookingsInv, BookingsTypes, HoldSound
<1>5. text' = [text EXCEPT ![key] = row]
  BY <1>1, <1>2, <1>4 DEF TextRecords, BookingsInv, BookingsTypes
<1>6. server' = [server EXCEPT ![p] = new]
  BY <1>1, <1>2 DEF ServerRecords, BookingsInv, BookingsTypes
<1>7. row \in TextRecords /\ row.row # "none" /\ row.taken <= 1 /\ (row.booked => (dryRun \/ placed[key[2]] > 0))
  BY <1>4 DEF TextRecords, TextSound
<1>8. /\ new \in ServerRecords /\ new.pc = "heard" /\ new.key = key /\ new.id = server[p].id
      /\ new.back = server[p].back /\ new.accepted = server[p].accepted
  BY <1>2 DEF ServerRecords, SendSteps, HoldSteps
<1>9. \A q \in Servers \ {p} : Holds(q) => server[q].key # key
  BY <1>2, NobodyElse
<1>12. key = server[p].key
  OBVIOUS
<1> HIDE DEF new, row, key
<1>10. Stands(new)
  BY <1>2, <1>8, <1>12 DEF Stands
<1>11. new.pc \in HoldSteps => new.key = key /\ (new.pc # "heard" => row.taken = 0)
  BY <1>8
<1>13. key \in Keys /\ new \in ServerRecords
  BY <1>2, <1>8
<1>14. WritesText(p, new, key, row)
  BY <1>5, <1>6, <1>7, <1>9, <1>10, <1>11, <1>13 DEF WritesText
<1>15. QED
  BY <1>3, <1>14, TextMoves

LEMMA RecordTextStep ==
  ASSUME BookingsInv, NEW p \in Servers, RecordText(p), StopInv', dryRun' = dryRun
  PROVE  BookingsInv'
<1> DEFINE key == server[p].key
           row == [text[key] EXCEPT !.row = "sent"]
<1>1. /\ server[p].pc \in HoldSteps /\ server[p].pc \in SendSteps /\ Holds(p) /\ key \in Keys /\ key[2] \in Ids
      /\ placed' = placed /\ attempt' = attempt
  BY KeysOfKinds DEF RecordText, Is, HoldSteps, SendSteps, Holds, BookingsInv, Stands
<1>2. sms' \in SmsStatuses
  BY DEF RecordText, BookingsInv, BookingsTypes, SmsStatuses
<1>3. CASE server[p].heard # "accepted"
  <2>1. Failed(p) /\ told' = told
    BY <1>3 DEF RecordText
  <2>2. QED
    BY <1>1, <1>2, <2>1, FailedText
<1>4. CASE server[p].heard = "accepted"
  <2>1. text[key] \in TextRecords /\ TextSound(key)
    BY <1>1 DEF BookingsInv, BookingsTypes
  <2>2. text' = [text EXCEPT ![key] = row]
    BY <1>1, <1>4, <2>1 DEF RecordText, TextRecords, BookingsInv, BookingsTypes
  <2>3. row \in TextRecords /\ row.row # "none" /\ row.taken <= 1 /\ (row.booked => (dryRun \/ placed[key[2]] > 0))
    BY <2>1 DEF TextRecords, TextSound
  <2>4. server' = Resume(p)
    BY <1>4 DEF RecordText
  <2>5. PICK new \in ServerRecords :
          server' = [server EXCEPT ![p] = new] /\ Stands(new) /\ new.pc \notin HoldSteps
    BY <1>1, <2>4, ResumeElsewhere DEF Elsewhere
  <2>6. \A q \in Servers \ {p} : Holds(q) => server[q].key # key
    BY <1>1, NobodyElse
  <2>7. told' = told \/ (text[key].booked /\ told' = told \union {<<"sms", key[2]>>})
    BY <1>4 DEF RecordText
  <2>8. told' \subseteq Jobs \X Ids /\ BookedInv'
    <3>1. <<"sms", key[2]>> \in Jobs \X Ids
      BY <1>1 DEF Jobs
    <3>2. told' \subseteq Jobs \X Ids
      BY <2>7, <3>1 DEF BookingsInv, BookingsTypes
    <3>3. \A t \in told' : t \in told \/ (t[2] = key[2] /\ (dryRun \/ placed[key[2]] > 0))
      BY <2>1, <2>7 DEF TextSound
    <3>4. QED
      BY <1>1, <3>2, <3>3 DEF BookingsInv, BookedInv
  <2> HIDE DEF row, key
  <2>9. WritesText(p, new, key, row)
    BY <1>1, <2>2, <2>3, <2>5, <2>6 DEF WritesText
  <2>10. QED
    BY <1>1, <1>2, <2>8, <2>9, TextMoves
<1>5. QED
  BY <1>3, <1>4

LEMMA SendStepInv ==
  ASSUME BookingsInv, NEW p \in Servers, SendStep(p), StopInv', dryRun' = dryRun
  PROVE  BookingsInv'
BY FenceStep, CheckStep, TransportStep, RecordTextStep DEF SendStep

\* Deciding what to tell the owner changes nothing but what the server does.
LEMMA TellsOwner ==
  ASSUME BookingsInv, NEW p \in Servers, NEW type \in OwnerTexts, NEW accepted \in BOOLEAN,
         server[p].pc \in {"success", "failure", "dry_run"}, TellOwner(p, type, accepted)
  PROVE  \E new \in ServerRecords :
           /\ server' = [server EXCEPT ![p] = new] /\ new.pc \in {"fence", "answer"}
           /\ new.id = server[p].id /\ new.accepted = accepted
           /\ new.pc = "fence" => new.key \in Keys /\ new.key[2] = new.id /\ new.back \in BackSteps
<1> DEFINE key == <<type, server[p].id>>
           asked == [server[p] EXCEPT !.pc = "fence", !.key = key, !.back = "answer",
                                      !.accepted = accepted, !.seen = "none"]
           not == [server[p] EXCEPT !.pc = "answer", !.accepted = accepted, !.seen = "none"]
<1>1. server[p] \in ServerRecords /\ server[p].id \in Ids
  BY DEF BookingsInv, BookingsTypes, Stands
<1>2. key \in Keys /\ key[2] = server[p].id
  BY <1>1, KeysOfKinds DEF Kinds
<1>3. server' = [server EXCEPT ![p] = asked] \/ server' = [server EXCEPT ![p] = not]
  <2>1. CASE type \in wanted
    <3>1. server' = [SendText(p, key, "answer") EXCEPT ![p].accepted = accepted, ![p].seen = "none"]
      BY <2>1 DEF TellOwner
    <3>2. QED
      BY <1>1, <3>1 DEF SendText, BookingsInv, BookingsTypes, ServerRecords
  <2>2. CASE type \notin wanted
    <3>1. server' = [GoOn(p, "answer") EXCEPT ![p].accepted = accepted, ![p].seen = "none"]
      BY <2>2 DEF TellOwner
    <3>2. QED
      BY <1>1, <3>1 DEF GoOn, BookingsInv, BookingsTypes, ServerRecords
  <2>3. QED
    BY <2>1, <2>2
<1> HIDE DEF key
<1>4. /\ asked \in ServerRecords /\ asked.pc = "fence" /\ asked.id = server[p].id /\ asked.accepted = accepted
      /\ asked.key = key /\ asked.back = "answer"
  BY <1>1, <1>2 DEF ServerRecords, SendSteps, BackSteps, SmsStatuses
<1>5. not \in ServerRecords /\ not.pc = "answer" /\ not.id = server[p].id /\ not.accepted = accepted
  BY <1>1 DEF ServerRecords, OtherSteps, SmsStatuses
<1> HIDE DEF asked, not
<1>6. "answer" \in BackSteps
  BY DEF BackSteps
<1>7. QED
  BY <1>2, <1>3, <1>4, <1>5, <1>6

LEMMA PlaceStep ==
  ASSUME BookingsInv, NEW p \in Servers, Place(p), StopInv', dryRun' = dryRun
  PROVE  BookingsInv'
<1> DEFINE r == server[p].id
<1>1. /\ server[p] \in ServerRecords /\ Stands(server[p]) /\ r \in Ids /\ server[p].pc \in {"primary", "fallback"}
      /\ text' = text /\ attempt' = attempt /\ told' = told /\ sms' = sms
  BY DEF Place, BookingsInv, BookingsTypes, Stands, messages, customer
<1>2. placed' = placed \/ placed' = [placed EXCEPT ![r] = @ + 1]
  BY DEF Place
<1>3. placed[r] \in Nat /\ placed[r] + 1 \in Nat
  BY <1>1 DEF BookingsInv, BookingsTypes
<1>4. placed' \in [Ids -> Nat] /\ \A o \in Ids : placed[o] <= placed'[o]
  BY <1>1, <1>2, <1>3 DEF BookingsInv, BookingsTypes
<1>5. BookedInv'
  BY <1>1, <1>4 DEF BookingsInv, BookingsTypes, BookedInv
<1>6. PICK new \in ServerRecords :
        /\ server' = [server EXCEPT ![p] = new] /\ new.id = r /\ new.accepted = server[p].accepted
        /\ new.pc \in {"primary", "fallback", "failure", "success"}
        /\ new.pc = "success" => (dryRun' \/ placed'[r] > 0)
  <2>1. CASE server' = AfterError(p)
    <3> DEFINE again == [server[p] EXCEPT !.tries = 1]
               next == IF Is(p, "primary") THEN "fallback" ELSE "failure"
               last == [server[p] EXCEPT !.pc = next, !.tries = 0]
    <3>1. again \in ServerRecords /\ again.pc = server[p].pc /\ again.id = r /\ again.accepted = server[p].accepted
      BY <1>1 DEF ServerRecords
    <3>2. next \in {"fallback", "failure"} /\ next \in OtherSteps
      BY DEF OtherSteps
    <3>3. server' = [server EXCEPT ![p] = again] \/ server' = [server EXCEPT ![p] = last]
      BY <1>1, <2>1 DEF AfterError, BookingsInv, BookingsTypes, ServerRecords
    <3> HIDE DEF next, again
    <3>4. last \in ServerRecords /\ last.pc = next /\ last.id = r /\ last.accepted = server[p].accepted
      BY <1>1, <3>2 DEF ServerRecords
    <3> HIDE DEF last
    <3>5. QED
      BY <1>1, <3>1, <3>2, <3>3, <3>4
  <2>2. CASE /\ placed' = [placed EXCEPT ![r] = @ + 1]
             /\ server' = [server EXCEPT ![p].pc = "success", ![p].seen = server[p].pc, ![p].tries = 0]
    <3> DEFINE made == [server[p] EXCEPT !.pc = "success", !.seen = server[p].pc, !.tries = 0]
    <3>1. /\ made \in ServerRecords /\ made.pc = "success" /\ made.id = r /\ made.accepted = server[p].accepted
      BY <1>1 DEF ServerRecords, OtherSteps
    <3>2. server' = [server EXCEPT ![p] = made]
      BY <1>1, <2>2 DEF BookingsInv, BookingsTypes, ServerRecords
    <3>3. (dryRun' \/ placed'[r] > 0)
      BY <1>1, <1>3, <2>2 DEF BookingsInv, BookingsTypes
    <3> HIDE DEF made
    <3>4. QED
      BY <3>1, <3>2, <3>3
  <2>3. QED
    BY <2>1, <2>2 DEF Place
<1>7. /\ new.pc # "idle" => new.id \in Ids
      /\ new.pc \notin SendSteps /\ new.pc \notin HoldSteps
      /\ new.accepted \/ new.pc \in {"success", "dry_run"} => new.id \in Ids /\ (dryRun' \/ placed'[new.id] > 0)
  BY <1>1, <1>3, <1>4, <1>6 DEF Stands, SendSteps, HoldSteps
<1>8. attempt' \in [Ids -> AttemptRecords] /\ told' \subseteq Jobs \X Ids /\ sms' \in SmsStatuses
  BY <1>1 DEF BookingsInv, BookingsTypes
<1> HIDE DEF r
<1>9. QED
  BY <1>1, <1>4, <1>5, <1>6, <1>7, <1>8, ServerMoves

\* An outcome is written, and the owner may hear of it.
LEMMA OutcomeWritten ==
  ASSUME BookingsInv, NEW p \in Servers, server[p].pc \in {"success", "failure", "dry_run"},
         NEW type \in OwnerTexts, NEW accepted \in BOOLEAN, TellOwner(p, type, accepted),
         NEW rec \in AttemptRecords, attempt' = [attempt EXCEPT ![server[p].id] = rec],
         accepted \/ rec.status = "success" => server[p].pc \in {"success", "dry_run"},
         UNCHANGED <<text, placed, told, sms>>, StopInv', dryRun' = dryRun
  PROVE  BookingsInv'
<1>1. server[p].id \in Ids /\ Stands(server[p])
  BY DEF BookingsInv, Stands
<1>2. PICK new \in ServerRecords :
        /\ server' = [server EXCEPT ![p] = new] /\ new.pc \in {"fence", "answer"}
        /\ new.id = server[p].id /\ new.accepted = accepted
        /\ new.pc = "fence" => new.key \in Keys /\ new.key[2] = new.id /\ new.back \in BackSteps
  BY TellsOwner
<1>3. accepted \/ rec.status = "success" => (dryRun \/ placed[server[p].id] > 0)
  BY <1>1 DEF Stands
<1>4. /\ attempt' \in [Ids -> AttemptRecords] /\ placed' \in [Ids -> Nat] /\ told' \subseteq Jobs \X Ids
      /\ sms' \in SmsStatuses /\ \A r \in Ids : placed[r] <= placed'[r]
  BY <1>1 DEF BookingsInv, BookingsTypes
<1>5. BookedInv'
  BY <1>1, <1>3 DEF BookingsInv, BookingsTypes, BookedInv
<1>6. /\ new.pc # "idle" => new.id \in Ids
      /\ new.pc \in SendSteps => new.key \in Keys /\ new.key[2] = new.id /\ new.back \in BackSteps
      /\ new.accepted \/ new.pc \in {"success", "dry_run"} => new.id \in Ids /\ (dryRun' \/ placed'[new.id] > 0)
      /\ new.pc \notin HoldSteps
  BY <1>1, <1>2, <1>3 DEF SendSteps, HoldSteps
<1>7. QED
  BY <1>2, <1>4, <1>5, <1>6, ServerMoves

LEMMA RecordSuccessStep ==
  ASSUME BookingsInv, NEW p \in Servers, RecordSuccess(p), StopInv', dryRun' = dryRun
  PROVE  BookingsInv'
<1>1. /\ server[p] \in ServerRecords /\ server[p].pc = "success" /\ UNCHANGED <<text, placed, told, sms>>
      /\ sms' \in SmsStatuses
  BY DEF RecordSuccess, Is, customer, messages, BookingsInv, BookingsTypes
<1>2. CASE attempt' = attempt /\ (server' = Leave(p) \/ server' = GoOn(p, "failure"))
  <2>1. Elsewhere(p)
    BY <1>1, <1>2, LeaveElsewhere, GoOnElsewhere DEF OtherSteps
  <2>2. QED
    BY <1>1, <1>2, <2>1, QuietServers
<1>3. ASSUME NEW type \in OwnerTexts, TellOwner(p, type, TRUE),
             attempt' = [attempt EXCEPT ![server[p].id] = [status |-> "success", via |-> server[p].seen]]
      PROVE  BookingsInv'
  <2> DEFINE rec == [status |-> "success", via |-> server[p].seen]
  <2>1. rec \in AttemptRecords /\ rec.status = "success"
    BY <1>1 DEF ServerRecords, AttemptRecords
  <2>2. attempt' = [attempt EXCEPT ![server[p].id] = rec]
    BY <1>3
  <2> HIDE DEF rec
  <2>3. QED
    BY <1>1, <1>3, <2>1, <2>2, OutcomeWritten
<1>4. QED
  BY <1>2, <1>3 DEF RecordSuccess, OwnerTexts

LEMMA RecordFailureStep ==
  ASSUME BookingsInv, NEW p \in Servers, RecordFailure(p), StopInv', dryRun' = dryRun
  PROVE  BookingsInv'
<1> DEFINE rec == [status |-> "failed", via |-> "fallback"]
<1>1. rec \in AttemptRecords /\ rec.status = "failed"
  BY DEF AttemptRecords
<1>2. /\ server[p].pc = "failure" /\ UNCHANGED <<text, placed, told, sms>>
      /\ attempt' = [attempt EXCEPT ![server[p].id] = rec]
      /\ TellOwner(p, "booking_follow_up", FALSE) /\ "booking_follow_up" \in OwnerTexts
  BY DEF RecordFailure, Is, customer, messages, OwnerTexts
<1> HIDE DEF rec
<1>3. QED
  BY <1>1, <1>2, OutcomeWritten

LEMMA DryRunStep ==
  ASSUME BookingsInv, NEW p \in Servers, RecordDryRun(p), StopInv', dryRun' = dryRun
  PROVE  BookingsInv'
<1> DEFINE rec == [status |-> "success", via |-> "primary"]
<1>1. rec \in AttemptRecords /\ rec.status = "success"
  BY DEF AttemptRecords
<1>2. /\ server[p].pc = "dry_run" /\ UNCHANGED <<text, placed, told, sms>>
      /\ attempt' = [attempt EXCEPT ![server[p].id] = rec]
      /\ TellOwner(p, "booking_success", TRUE) /\ "booking_success" \in OwnerTexts
  BY DEF RecordDryRun, Is, customer, messages, OwnerTexts
<1> HIDE DEF rec
<1>3. QED
  BY <1>1, <1>2, OutcomeWritten

LEMMA CreateAttemptStep ==
  ASSUME BookingsInv, NEW p \in Servers, CreateAttempt(p), StopInv', dryRun' = dryRun
  PROVE  BookingsInv'
<1> DEFINE r == server[p].id
           rec == [attempt[r] EXCEPT !.status = "pending"]
<1>1. /\ server[p] \in ServerRecords /\ Stands(server[p]) /\ server[p].pc = "create" /\ r \in Ids
      /\ UNCHANGED <<text, placed, told, sms>> /\ sms' \in SmsStatuses
  BY DEF CreateAttempt, Is, customer, messages, BookingsInv, BookingsTypes, Stands
<1>2. CASE server' = Leave(p) /\ attempt' = attempt
  BY <1>1, <1>2, LeaveElsewhere, QuietServers
<1>3. ASSUME NEW to \in {"primary", "fallback", "dry_run"}, to = "dry_run" => dryRun, server' = GoOn(p, to),
             attempt' = [attempt EXCEPT ![r].status = "pending"]
      PROVE  BookingsInv'
  <2>1. rec \in AttemptRecords /\ rec.status = "pending"
    BY <1>1 DEF AttemptRecords, BookingsInv, BookingsTypes
  <2>2. attempt' = [attempt EXCEPT ![r] = rec]
    BY <1>1, <1>3 DEF AttemptRecords, BookingsInv, BookingsTypes
  <2> HIDE DEF rec
  <2>3. Elsewhere(p)
    BY <1>1, <1>3, GoOnElsewhere DEF OtherSteps
  <2>4. PICK new \in ServerRecords :
          server' = [server EXCEPT ![p] = new] /\ Stands(new) /\ new.pc \notin HoldSteps
    BY <2>3 DEF Elsewhere
  <2>5. /\ attempt' \in [Ids -> AttemptRecords] /\ placed' \in [Ids -> Nat] /\ told' \subseteq Jobs \X Ids
        /\ \A o \in Ids : placed[o] <= placed'[o]
    BY <1>1, <2>1, <2>2 DEF BookingsInv, BookingsTypes
  <2>6. BookedInv'
    BY <1>1, <2>1, <2>2 DEF BookingsInv, BookingsTypes, BookedInv
  <2>7. /\ new.pc # "idle" => new.id \in Ids
        /\ new.pc \in SendSteps => new.key \in Keys /\ new.key[2] = new.id /\ new.back \in BackSteps
        /\ new.accepted \/ new.pc \in {"success", "dry_run"} => new.id \in Ids /\ (dryRun' \/ placed'[new.id] > 0)
    BY <1>1, <2>4 DEF Stands
  <2> HIDE DEF r
  <2>8. QED
    BY <1>1, <2>4, <2>5, <2>6, <2>7, ServerMoves
<1>4. QED
  BY <1>2, <1>3 DEF CreateAttempt

\* A server that learns whether a request is booked.
LEMMA LearnsBooking ==
  ASSUME BookingsInv, NEW p \in Servers, NEW new \in ServerRecords, server' = [server EXCEPT ![p] = new],
         new.pc \in {"answer", "log"}, new.id \in Ids, new.accepted = Accepted(new.id),
         UNCHANGED <<text, placed, attempt, told, sms>>, StopInv', dryRun' = dryRun
  PROVE  BookingsInv'
<1>1. Stands(new) /\ new.pc \notin HoldSteps
  BY DEF Stands, SendSteps, HoldSteps, Accepted, BookingsInv, BookedInv
<1>2. Elsewhere(p) /\ sms' \in SmsStatuses
  BY <1>1 DEF Elsewhere, BookingsInv, BookingsTypes
<1>3. QED
  BY <1>2, QuietServers

LEMMA FindAttemptStep ==
  ASSUME BookingsInv, NEW p \in Servers, FindAttempt(p), StopInv', dryRun' = dryRun
  PROVE  BookingsInv'
<1> DEFINE new == [server[p] EXCEPT !.pc = "answer", !.accepted = Accepted(server[p].id)]
<1>1. /\ server[p] \in ServerRecords /\ Stands(server[p]) /\ server[p].pc = "find" /\ server[p].id \in Ids
      /\ UNCHANGED <<text, placed, attempt, told, sms>> /\ sms' \in SmsStatuses
  BY DEF FindAttempt, Is, customer, messages, appointments, BookingsInv, BookingsTypes, Stands
<1>2. CASE server' = GoOn(p, "create")
  BY <1>1, <1>2, GoOnElsewhere, QuietServers DEF OtherSteps
<1>3. CASE server' = [server EXCEPT ![p].pc = "answer", ![p].accepted = Accepted(server[p].id)]
  <2>1. Accepted(server[p].id) \in BOOLEAN
    BY DEF Accepted
  <2>2. server' = [server EXCEPT ![p] = new]
    BY <1>1, <1>3 DEF BookingsInv, BookingsTypes, ServerRecords
  <2>3. new \in ServerRecords /\ new.pc = "answer" /\ new.id = server[p].id /\ new.accepted = Accepted(server[p].id)
    BY <1>1, <2>1 DEF ServerRecords, OtherSteps
  <2> HIDE DEF new
  <2>4. QED
    BY <1>1, <2>2, <2>3, LearnsBooking
<1>4. QED
  BY <1>2, <1>3 DEF FindAttempt

LEMMA AnswerBookingStep ==
  ASSUME BookingsInv, NEW p \in Servers, AnswerBooking(p), StopInv', dryRun' = dryRun
  PROVE  BookingsInv'
<1> DEFINE r == server[p].id
<1>1. /\ server[p] \in ServerRecords /\ Stands(server[p]) /\ server[p].pc = "answer" /\ r \in Ids
      /\ UNCHANGED <<text, placed, attempt, sms>> /\ sms' \in SmsStatuses
  BY DEF AnswerBooking, Is, customer, messages, BookingsInv, BookingsTypes, Stands
<1>2. /\ server' = SendText(p, <<"reply", r>>, "mark") \/ server' = Leave(p)
      /\ told' = told
         \/ (told' = told \union {<<server[p].job, r>>} /\ (server[p].accepted \/ server[p].job = "chat"))
  BY DEF AnswerBooking
<1>3. "reply" \in Kinds /\ "mark" \in BackSteps
  BY DEF Kinds, CustomerTexts, BackSteps
<1>4. Elsewhere(p)
  BY <1>1, <1>2, <1>3, SendElsewhere, LeaveElsewhere
<1>5. PICK new \in ServerRecords :
        server' = [server EXCEPT ![p] = new] /\ Stands(new) /\ new.pc \notin HoldSteps
  BY <1>4 DEF Elsewhere
<1>6. told' \subseteq Jobs \X Ids /\ BookedInv'
  <2>1. server[p].job \in Jobs /\ <<server[p].job, r>> \in Jobs \X Ids
    BY <1>1 DEF ServerRecords
  <2>2. told' \subseteq Jobs \X Ids
    BY <1>2, <2>1 DEF BookingsInv, BookingsTypes
  <2>3. \A t \in told' : t \in told \/ (t[2] = r /\ (t[1] = "chat" \/ dryRun \/ placed[r] > 0))
    BY <1>1, <1>2 DEF Stands
  <2>4. QED
    BY <1>1, <2>2, <2>3 DEF BookingsInv, BookedInv
<1>7. /\ attempt' \in [Ids -> AttemptRecords] /\ placed' \in [Ids -> Nat]
      /\ \A o \in Ids : placed[o] <= placed'[o]
  BY <1>1 DEF BookingsInv, BookingsTypes
<1>8. /\ new.pc # "idle" => new.id \in Ids
      /\ new.pc \in SendSteps => new.key \in Keys /\ new.key[2] = new.id /\ new.back \in BackSteps
      /\ new.accepted \/ new.pc \in {"success", "dry_run"} => new.id \in Ids /\ (dryRun' \/ placed'[new.id] > 0)
  BY <1>1, <1>5 DEF Stands
<1> HIDE DEF r
<1>9. QED
  BY <1>1, <1>5, <1>6, <1>7, <1>8, ServerMoves

\* A server that reads the status of the conversation, or forgets it.
LEMMA SeesElsewhere ==
  ASSUME BookingsInv, NEW p \in Servers, NEW step \in {"store", "think"}, NEW seen \in SmsStatuses,
         server[p].pc # "idle", server' = [server EXCEPT ![p].pc = step, ![p].seen = seen]
  PROVE  Elsewhere(p)
<1> DEFINE new == [server[p] EXCEPT !.pc = step, !.seen = seen]
<1>1. server[p] \in ServerRecords /\ Stands(server[p])
  BY DEF BookingsInv, BookingsTypes
<1>2. /\ new \in ServerRecords /\ new.pc = step /\ new.id = server[p].id
      /\ new.accepted = server[p].accepted
  BY <1>1 DEF ServerRecords, OtherSteps
<1>3. server' = [server EXCEPT ![p] = new]
  BY <1>1 DEF BookingsInv, BookingsTypes, ServerRecords
<1> HIDE DEF new
<1>4. Stands(new) /\ new.pc \notin HoldSteps
  BY <1>1, <1>2 DEF Stands, SendSteps, HoldSteps
<1>5. QED
  BY <1>2, <1>3, <1>4 DEF Elsewhere

LEMMA SmsStepInv ==
  ASSUME BookingsInv, NEW p \in Servers, SmsStep(p) \/ MarkBooked(p), StopInv', dryRun' = dryRun
  PROVE  BookingsInv'
<1>1. server[p].pc # "idle" /\ UNCHANGED <<text, placed, attempt, told>> /\ sms' \in SmsStatuses
  BY DEF SmsStep, OpenConversation, StoreText, Command, Think, MarkBooked, Is, appointments, messages, customer,
     BookingsInv, BookingsTypes, SmsStatuses
<1>2. CASE server' = Leave(p)
  BY <1>1, <1>2, LeaveElsewhere, QuietServers
<1>3. ASSUME NEW step \in {"command", "find"}, server' = GoOn(p, step)
      PROVE  BookingsInv'
  <2>1. step \in OtherSteps \ {"idle", "success", "dry_run"}
    BY DEF OtherSteps
  <2>2. QED
    BY <1>1, <1>3, <2>1, GoOnElsewhere, QuietServers
<1>4. CASE server' = SendText(p, <<"reply", server[p].id>>, "done")
  <2>1. "reply" \in Kinds /\ "done" \in BackSteps
    BY DEF Kinds, CustomerTexts, BackSteps
  <2>2. QED
    BY <1>1, <1>4, <2>1, SendElsewhere, QuietServers
<1>5. ASSUME NEW step \in {"store", "think"}, NEW seen \in SmsStatuses,
             server' = [server EXCEPT ![p].pc = step, ![p].seen = seen]
      PROVE  BookingsInv'
  BY <1>1, <1>5, SeesElsewhere, QuietServers
<1>6. CASE OpenConversation(p)
  BY <1>1, <1>5, <1>6 DEF OpenConversation
<1>7. CASE Command(p)
  <2>1. server' = Leave(p) \/ server' = [server EXCEPT ![p].pc = "think", ![p].seen = "none"]
    BY <1>7 DEF Command
  <2>2. "none" \in SmsStatuses
    BY DEF SmsStatuses
  <2>3. QED
    BY <1>2, <1>5, <2>1, <2>2
<1>8. CASE StoreText(p) \/ Think(p) \/ MarkBooked(p)
  BY <1>2, <1>3, <1>4, <1>8 DEF StoreText, Think, MarkBooked
<1>9. QED
  BY <1>6, <1>7, <1>8 DEF SmsStep

LEMMA CallStepInv ==
  ASSUME BookingsInv, NEW p \in Servers, CallStep(p), StopInv', dryRun' = dryRun
  PROVE  BookingsInv'
<1>1. server[p].pc # "idle" /\ UNCHANGED <<text, placed, attempt, told>> /\ sms' \in SmsStatuses
  BY DEF CallStep, TellMissed, LogCallEnded, FollowUp, Is, appointments, messages, customer,
     BookingsInv, BookingsTypes, SmsStatuses
<1>2. CASE server' = Leave(p)
  BY <1>1, <1>2, LeaveElsewhere, QuietServers
<1>3. CASE server' = GoOn(p, "follow")
  BY <1>1, <1>3, GoOnElsewhere, QuietServers DEF OtherSteps
<1>4. ASSUME NEW t \in Kinds, NEW back \in BackSteps, server' = SendText(p, <<t, server[p].id>>, back)
      PROVE  BookingsInv'
  BY <1>1, <1>4, SendElsewhere, QuietServers
<1>5. CASE TellMissed(p)
  <2>1. "missed_call" \in Kinds /\ "done" \in BackSteps
    BY DEF Kinds, OwnerTexts, BackSteps
  <2>2. QED
    BY <1>2, <1>4, <1>5, <2>1 DEF TellMissed
<1>6. CASE FollowUp(p)
  <2>1. "no_booking" \in Kinds /\ "done" \in BackSteps
    BY DEF Kinds, CustomerTexts, BackSteps
  <2>2. QED
    BY <1>2, <1>4, <1>6, <2>1 DEF FollowUp
<1>7. CASE LogCallEnded(p)
  <2> DEFINE after == IF Transfer[server[p].id] = "none" THEN "follow" ELSE "done"
             notice == IF Transfer[server[p].id] = "failed" THEN "transfer_failure" ELSE "unbooked_call"
             back == IF server[p].accepted THEN "done" ELSE after
  <2>1. notice \in Kinds /\ back \in BackSteps
    BY DEF Kinds, OwnerTexts, BackSteps
  <2>2. \/ server' = SendText(p, <<notice, server[p].id>>, back)
        \/ server' = Leave(p) \/ server' = GoOn(p, "follow")
    BY <1>7 DEF LogCallEnded
  <2> HIDE DEF notice, back
  <2>3. QED
    BY <1>2, <1>3, <1>4, <2>1, <2>2
<1>8. QED
  BY <1>5, <1>6, <1>7 DEF CallStep

LEMMA MissedCallStep ==
  ASSUME BookingsInv, NEW p \in Servers, NEW c \in Ids, MissedCall(p, c), StopInv', dryRun' = dryRun
  PROVE  BookingsInv'
<1> DEFINE key == <<"missed", c>>
           new == [NoServer EXCEPT !.pc = "fence", !.job = "missed", !.id = c, !.key = key, !.back = "tell_missed"]
<1>1. UNCHANGED <<text, placed, attempt, told>> /\ sms' \in SmsStatuses
  BY DEF MissedCall, appointments, messages, customer, BookingsInv, BookingsTypes
<1>2. key \in Keys /\ key[2] = c
  BY KeysOfKinds DEF Kinds, CustomerTexts
<1>3. server' = [server EXCEPT ![p] = new]
  BY NoServerRecord DEF MissedCall, Serve, BookingsInv, BookingsTypes, ServerRecords
<1> HIDE DEF key
<1>4. /\ new \in ServerRecords /\ new.pc = "fence" /\ new.id = c /\ new.accepted = FALSE /\ new.key = key
      /\ new.back = "tell_missed"
  BY <1>2, NoServerRecord DEF ServerRecords, SendSteps, Jobs, BackSteps
<1> HIDE DEF new
<1>5. Stands(new) /\ new.pc \notin HoldSteps
  BY <1>2, <1>4 DEF Stands, HoldSteps, BackSteps
<1>6. Elsewhere(p)
  BY <1>3, <1>4, <1>5 DEF Elsewhere
<1>7. QED
  BY <1>1, <1>6, QuietServers

LEMMA CallEndedStep ==
  ASSUME BookingsInv, NEW p \in Servers, NEW c \in Ids, CallEnded(p, c), StopInv', dryRun' = dryRun
  PROVE  BookingsInv'
<1> DEFINE new == [NoServer EXCEPT !.pc = "log", !.job = "ended", !.id = c, !.accepted = Accepted(c)]
<1>1. UNCHANGED <<text, placed, attempt, told, sms>>
  BY DEF CallEnded, appointments, messages, customer
<1>2. server' = [server EXCEPT ![p] = new]
  BY NoServerRecord DEF CallEnded, Serve, BookingsInv, BookingsTypes, ServerRecords
<1>3. Accepted(c) \in BOOLEAN
  BY DEF Accepted
<1>4. new \in ServerRecords /\ new.pc = "log" /\ new.id = c /\ new.accepted = Accepted(c)
  BY ZenonT(30), <1>3, NoServerRecord DEF ServerRecords, OtherSteps, Jobs
<1> HIDE DEF new
<1>5. QED
  BY <1>1, <1>2, <1>4, LearnsBooking

\* Whoever answers no request changes no text and no appointment.
LEMMA RestStays ==
  ASSUME BookingsInv, UNCHANGED <<server, text, placed, attempt, told>>, sms' \in SmsStatuses, StopInv', dryRun' = dryRun
  PROVE  BookingsInv'
BY DEF BookingsInv, BookingsTypes, Stands, TextSound, HoldSound, Holds, BookedInv

LEMMA BeginsServing ==
  ASSUME BookingsInv, NEW p \in Servers, NEW id \in Ids, StopInv', dryRun' = dryRun,
         \/ ClaimText(p, id) \/ AskByCall(p, id) \/ AskByChat(p, id)
         \/ \E answered \in BOOLEAN : ReceiveText(p, id, answered)
  PROVE  BookingsInv'
<1>1. /\ UNCHANGED <<text, placed, attempt, told>> /\ sms' \in SmsStatuses
      /\ \/ server' = server
         \/ \E job \in Jobs, step \in {"conversation", "find"} : server' = Serve(p, job, id, step)
  <2>1. CASE ClaimText(p, id) \/ AskByCall(p, id) \/ AskByChat(p, id)
    BY <2>1 DEF ClaimText, AskByCall, AskByChat, AskBooking, appointments, messages, customer,
       BookingsInv, BookingsTypes, Jobs
  <2>2. ASSUME NEW answered \in BOOLEAN, ReceiveText(p, id, answered)
        PROVE  /\ UNCHANGED <<text, placed, attempt, told>> /\ sms' \in SmsStatuses
               /\ \/ server' = server
                  \/ \E job \in Jobs, step \in {"conversation", "find"} : server' = Serve(p, job, id, step)
    BY <2>2 DEF ReceiveText, appointments, messages, BookingsInv, BookingsTypes, Jobs, SmsStatuses
  <2>3. QED
    BY <2>1, <2>2
<1>2. QED
  BY <1>1, ServeElsewhere, QuietServers, RestStays

LEMMA BookStepInv ==
  ASSUME BookingsInv, NEW p \in Servers, BookStep(p), StopInv', dryRun' = dryRun
  PROVE  BookingsInv'
BY FindAttemptStep, CreateAttemptStep, PlaceStep, DryRunStep, RecordSuccessStep, RecordFailureStep, AnswerBookingStep,
   SmsStepInv DEF BookStep

LEMMA ServerDiesStep ==
  ASSUME BookingsInv, NEW p \in Servers, ServerDies(p), StopInv', dryRun' = dryRun
  PROVE  BookingsInv'
<1>1. /\ UNCHANGED <<text, placed, attempt, told>> /\ sms' \in SmsStatuses /\ server' = Leave(p)
  BY DEF ServerDies, appointments, messages, customer, BookingsInv, BookingsTypes
<1>2. QED
  BY <1>1, LeaveElsewhere, QuietServers

LEMMA BookingsStep == BookingsInv /\ [BookingsNext]_bookingVars => BookingsInv'
<1> SUFFICES ASSUME BookingsInv, [BookingsNext]_bookingVars PROVE BookingsInv'
  OBVIOUS
<1>1. StopInv' /\ dryRun' = dryRun
  BY StopsStay, SameSetting DEF BookingsInv, setting
<1>2. ASSUME NEW p \in Servers, NEW m \in Ids,
             ClaimText(p, m) \/ \E answered \in BOOLEAN : ReceiveText(p, m, answered)
      PROVE  BookingsInv'
  BY <1>1, <1>2, BeginsServing
<1>3. ASSUME NEW p \in Servers, NEW id \in Ids,
             MissedCall(p, id) \/ CallEnded(p, id) \/ AskByCall(p, id) \/ AskByChat(p, id)
      PROVE  BookingsInv'
  BY <1>1, <1>3, MissedCallStep, CallEndedStep, BeginsServing
<1>4. ASSUME NEW p \in Servers, SendStep(p) \/ BookStep(p) \/ SmsStep(p) \/ CallStep(p) \/ ServerDies(p)
      PROVE  BookingsInv'
  BY <1>1, <1>4, SendStepInv, BookStepInv, SmsStepInv, CallStepInv, ServerDiesStep
<1>5. CASE (\E c \in Ids : CallStarted(c)) \/ UNCHANGED bookingVars
  <2>1. UNCHANGED <<server, text, placed, attempt, told>> /\ sms' \in SmsStatuses
    BY <1>5 DEF CallStarted, bookingVars, customer, appointments, messages, BookingsInv, BookingsTypes
  <2>2. QED
    BY <1>1, <2>1, RestStays
<1>6. QED
  BY <1>2, <1>3, <1>4, <1>5 DEF BookingsNext

(* What a row, a server and the provider say of a text fits, whoever is    *)
(* served at once, dies or is asked again.                                 *)
THEOREM BookingsInductive == BookingsSpec => []BookingsInv
BY BookingsInitInv, BookingsStep, PTL DEF BookingsSpec

(* The provider takes at most one text per key, for any number of webhooks *)
(* and servers (the row with the unique key, sms-booking.ts:78).           *)
THEOREM TextsSentOnce == BookingsSpec => []TextsOnce
<1>1. BookingsInv => TextsOnce
  BY DEF BookingsInv, TextSound, TextsOnce
<1>2. QED
  BY <1>1, BookingsInductive, PTL

(* A customer is told of an appointment only when a destination made it    *)
(* (bookings.ts, createBookingAttempt).                                    *)
THEOREM ToldWasPlaced == BookingsSpec => []ToldIsPlaced
<1>1. BookingsInv => ToldIsPlaced
  BY DEF BookingsInv, BookedInv, ToldIsPlaced
<1>2. QED
  BY <1>1, BookingsInductive, PTL

\* The steps of a request leave the other servers alone.
LEMMA OthersWait ==
  ASSUME BookingsInv, NEW p \in Servers, NEW q \in Servers, q # p,
         \/ SendStep(q) \/ BookStep(q) \/ SmsStep(q) \/ CallStep(q) \/ ServerDies(q)
         \/ \E id \in Ids :
              \/ ClaimText(q, id) \/ MissedCall(q, id) \/ CallEnded(q, id) \/ AskByCall(q, id) \/ AskByChat(q, id)
              \/ \E answered \in BOOLEAN : ReceiveText(q, id, answered)
  PROVE  server'[p] = server[p]
<1> USE DEF Leave, GoOn, Resume, SendText, Serve
<1>1. p \in DOMAIN server
  BY DEF BookingsInv, BookingsTypes
<1>2. CASE SendStep(q)
  <2>1. CASE Fence(q)
    BY <1>1, <2>1 DEF Fence
  <2>2. CASE Check(q) \/ RecordOutbound(q)
    BY <1>1, <2>2 DEF Check, RecordOutbound, Failed
  <2>3. CASE Transport(q)
    BY <1>1, <2>3 DEF Transport
  <2>4. CASE RecordText(q)
    BY <1>1, <2>4 DEF RecordText, Failed
  <2>5. QED
    BY <1>2, <2>1, <2>2, <2>3, <2>4 DEF SendStep
<1>3. CASE BookStep(q)
  <2>1. CASE RecordSuccess(q) \/ RecordFailure(q) \/ RecordDryRun(q)
    <3>1. ASSUME NEW type, NEW accepted, TellOwner(q, type, accepted)
          PROVE  server'[p] = server[p]
      BY <1>1, <3>1 DEF TellOwner
    <3>2. CASE server' = Leave(q) \/ server' = GoOn(q, "failure")
      BY <1>1, <3>2
    <3>3. QED
      BY <2>1, <3>1, <3>2 DEF RecordSuccess, RecordFailure, RecordDryRun
  <2>2. CASE Place(q)
    BY <1>1, <2>2 DEF Place, AfterError
  <2>3. QED
    <3>1. CASE FindAttempt(q) \/ CreateAttempt(q)
      BY <1>1, <3>1 DEF FindAttempt, CreateAttempt
    <3>2. CASE AnswerBooking(q) \/ MarkBooked(q)
      BY <1>1, <3>2 DEF AnswerBooking, MarkBooked
    <3>3. QED
      BY <1>3, <2>1, <2>2, <3>1, <3>2 DEF BookStep
<1>4. CASE SmsStep(q)
  BY <1>1, <1>4 DEF SmsStep, OpenConversation, StoreText, Command, Think
<1>5. CASE CallStep(q) \/ ServerDies(q)
  BY <1>1, <1>5 DEF CallStep, TellMissed, LogCallEnded, FollowUp, ServerDies
<1>6. ASSUME NEW id \in Ids,
             \/ ClaimText(q, id) \/ MissedCall(q, id) \/ CallEnded(q, id) \/ AskByCall(q, id) \/ AskByChat(q, id)
             \/ \E answered \in BOOLEAN : ReceiveText(q, id, answered)
      PROVE  server'[p] = server[p]
  <2> HIDE DEF Serve
  <2>1. ASSUME NEW job, NEW step, server' = Serve(q, job, id, step)
        PROVE  server'[p] = server[p]
    BY <1>1, <2>1 DEF Serve
  <2>2. CASE ClaimText(q, id)
    BY <2>1, <2>2 DEF ClaimText
  <2>3. ASSUME NEW answered \in BOOLEAN, ReceiveText(q, id, answered)
        PROVE  server'[p] = server[p]
    BY <2>1, <2>3 DEF ReceiveText
  <2>4. CASE AskByCall(q, id) \/ AskByChat(q, id)
    BY <2>1, <2>4 DEF AskByCall, AskByChat, AskBooking
  <2>5. CASE MissedCall(q, id)
    <3> DEFINE served == Serve(q, "missed", id, "fence")
    <3>1. p \in DOMAIN served /\ served[p] = server[p]
      BY <1>1 DEF Serve
    <3>2. server' = [served EXCEPT ![q].key = <<"missed", id>>, ![q].back = "tell_missed"]
      BY <2>5 DEF MissedCall
    <3> HIDE DEF served
    <3>3. QED
      BY <3>1, <3>2
  <2>6. CASE CallEnded(q, id)
    <3> DEFINE served == Serve(q, "ended", id, "log")
    <3>1. p \in DOMAIN served /\ served[p] = server[p]
      BY <1>1 DEF Serve
    <3>2. server' = [served EXCEPT ![q].accepted = Accepted(id)]
      BY <2>6 DEF CallEnded
    <3> HIDE DEF served
    <3>3. QED
      BY <3>1, <3>2
  <2>7. QED
    BY <1>6, <2>2, <2>3, <2>4, <2>5, <2>6
<1>7. QED
  BY <1>2, <1>3, <1>4, <1>5, <1>6

LEMMA OnlyCheckBegins ==
  ASSUME BookingsInv, BookingsNext, NEW p \in Servers, TextBegins(p)
  PROVE  Check(p)
<1>1. server[p].pc = "check" /\ server'[p].pc \in {"ledger", "transport"} /\ server'[p] # server[p]
  BY DEF TextBegins
<1>2. ASSUME NEW q \in Servers,
             \/ SendStep(q) \/ BookStep(q) \/ SmsStep(q) \/ CallStep(q) \/ ServerDies(q)
             \/ \E id \in Ids :
                  \/ ClaimText(q, id) \/ MissedCall(q, id) \/ CallEnded(q, id) \/ AskByCall(q, id) \/ AskByChat(q, id)
                  \/ \E answered \in BOOLEAN : ReceiveText(q, id, answered)
      PROVE  Check(p)
  <2>1. q = p
    BY <1>1, <1>2, OthersWait
  <2>2. CASE SendStep(q) \/ BookStep(q) \/ SmsStep(q) \/ CallStep(q)
    <3>1. CASE SendStep(q)
      BY <1>1, <2>1, <3>1 DEF SendStep, Fence, RecordOutbound, Transport, RecordText, Is
    <3>2. CASE BookStep(q)
      BY <1>1, <2>1, <3>2 DEF BookStep, FindAttempt, CreateAttempt, RecordDryRun, Place, RecordSuccess,
         RecordFailure, AnswerBooking, MarkBooked, Is
    <3>3. CASE SmsStep(q) \/ CallStep(q)
      BY <1>1, <2>1, <3>3 DEF SmsStep, CallStep, OpenConversation, StoreText, Command, Think, TellMissed,
         LogCallEnded, FollowUp, Is
    <3>4. QED
      BY <2>2, <3>1, <3>2, <3>3
  <2>3. CASE ServerDies(q)
    <3>1. server'[p] = NoServer
      BY <2>1, <2>3 DEF ServerDies, Leave, BookingsInv, BookingsTypes
    <3>2. QED
      BY <1>1, <3>1, NoServerRecord
  <2>4. ASSUME NEW id \in Ids,
               \/ ClaimText(q, id) \/ MissedCall(q, id) \/ CallEnded(q, id) \/ AskByCall(q, id) \/ AskByChat(q, id)
               \/ \E answered \in BOOLEAN : ReceiveText(q, id, answered)
        PROVE  FALSE
    BY <1>1, <2>1, <2>4 DEF ClaimText, MissedCall, CallEnded, AskByCall, AskByChat, AskBooking, ReceiveText, Waiting,
       Serve
  <2>5. QED
    BY <1>2, <2>2, <2>3, <2>4
<1>3. CASE \E c \in Ids : CallStarted(c)
  BY <1>1, <1>3 DEF CallStarted
<1>4. QED
  BY <1>2, <1>3 DEF BookingsNext

(* With an organization linked no text to a customer begins between STOP   *)
(* and START, whatever the conversation says (legacySmsBlocked,            *)
(* communications/legacy.ts).                                              *)
THEOREM LinkedStopHolds == BookingsSpec => LinkedStopStands
<1> DEFINE Begun == \A p \in Servers : TextBegins(p) => ~(linked /\ stopped)
<1>1. ASSUME BookingsInv, [BookingsNext]_bookingVars PROVE [Begun]_bookingVars
  <2> SUFFICES ASSUME BookingsNext, NEW p \in Servers, TextBegins(p) PROVE ~(linked /\ stopped)
    BY <1>1
  <2>1. Check(p)
    BY <1>1, OnlyCheckBegins
  <2>2. CASE MayText(p)
    BY <1>1, <2>2 DEF MayText, Blocked, TextBegins, OwnerTexts, CustomerTexts, BookingsInv, StopInv
  <2>3. CASE ~MayText(p)
    <3>1. server[p].pc \in SendSteps /\ (server' = Leave(p) \/ server' = Resume(p))
      BY <2>1, <2>3 DEF Check, Is, Failed, SendSteps, HoldSteps
    <3>2. Elsewhere(p)
      BY <1>1, <3>1, LeaveElsewhere, ResumeElsewhere
    <3>3. server'[p].pc \notin HoldSteps
      BY <1>1, <3>2 DEF Elsewhere, BookingsInv, BookingsTypes
    <3>4. QED
      BY <3>3 DEF TextBegins, HoldSteps
  <2>4. QED
    BY <2>2, <2>3
<1>2. QED
  BY <1>1, BookingsInductive, PTL DEF BookingsSpec, LinkedStopStands

-----------------------------------------------------------------------------
(* Blueprints: a definition is no wider than its blueprint.                *)

LEMMA GreatestBelow ==
  ASSUME NEW bound \in Nat, NEW S \in SUBSET (0 .. bound), S # {}
  PROVE  Max(S) \in S /\ \A m \in S : m <= Max(S)
<1> DEFINE R == {pair \in Nat \X Nat : pair[1] < pair[2]}
           T == {bound - m : m \in S}
<1>1. IsWellFoundedOn(R, Nat)
  BY NatLessThanWellFounded DEF OpToRel
<1> HIDE DEF R
<1>2. T \in SUBSET Nat /\ T # {}
  <2>1. \A m \in S : bound - m \in Nat
    OBVIOUS
  <2>2. QED
    BY <2>1
<1>3. \E n \in T : \A m \in T : ~ (<<m, n>> \in R)
  BY <1>1, <1>2, WFMin
<1>4. \A m, n \in Nat : m < n => <<m, n>> \in R
  BY DEF R
<1>5. PICK n \in T : \A m \in T : ~(m < n)
  BY <1>2, <1>3, <1>4
<1>6. PICK x \in S : n = bound - x
  OBVIOUS
<1>7. \A m \in S : m <= x
  <2> SUFFICES ASSUME NEW m \in S PROVE m <= x
    OBVIOUS
  <2>1. ~(bound - m < n)
    BY <1>5
  <2>2. QED
    BY <1>6, <2>1
<1>8. Max(S) \in S /\ \A m \in S : Max(S) >= m
  <2>1. \E y \in S : \A m \in S : y >= m
    BY <1>7
  <2>2. QED
    BY <2>1 DEF Max
<1>9. QED
  BY <1>8

\* What an executable blueprint lacks nothing of.
LEMMA Compiles ==
  ASSUME NEW b, NEW allowlist, Executable(b, allowlist)
  PROVE  /\ "runtimeModel" \in b.given /\ b.model \in allowlist
         /\ Texts \subseteq b.given
         /\ b.prohibited \subseteq Tools
         /\ \A a \in b.automatic : a \in b.allowed /\ b.mode = "AUTOPILOT"
         /\ \A c \in b.conditions : /\ OfStatus(c) => OneStatus(c) \/ SomeStatus(c)
                                    /\ ~OfStatus(c) => Inactive(b, c)
         /\ Cardinality({c \in b.conditions : c.field = "status"}) <= 1
<1>1. FieldsGiven(b, allowlist) /\ ProhibitionsSupported(b) /\ AutomaticSupported(b) /\ ConditionsSupported(b)
  BY DEF Executable
<1>2. Texts \subseteq b.given /\ "runtimeModel" \in b.given /\ b.model \in allowlist
  BY <1>1 DEF FieldsGiven, Texts
<1>3. b.prohibited \subseteq Tools /\ \A a \in b.automatic : a \in b.allowed /\ b.mode = "AUTOPILOT"
  BY <1>1 DEF ProhibitionsSupported, AutomaticSupported
<1>4. \A c \in b.conditions : /\ OfStatus(c) => OneStatus(c) \/ SomeStatus(c)
                              /\ ~OfStatus(c) => Inactive(b, c)
  BY <1>1 DEF ConditionsSupported
<1>5. Cardinality({c \in b.conditions : c.field = "status"}) <= 1
  BY <1>1 DEF ConditionsSupported, NoConjunction
<1>6. QED
  BY <1>2, <1>3, <1>4, <1>5

LEMMA OneCondition ==
  ASSUME NEW S, IsFiniteSet(S), Cardinality(S) <= 1, NEW c \in S, NEW d \in S
  PROVE  c = d
<1> SUFFICES ASSUME c # d PROVE FALSE
  OBVIOUS
<1>1. {c, d} \subseteq S
  OBVIOUS
<1>2. Cardinality({c, d}) <= Cardinality(S) /\ IsFiniteSet({c, d})
  BY <1>1, FS_Subset
<1>3. Cardinality({c}) = 1 /\ IsFiniteSet({c})
  BY FS_Singleton
<1>4. {c, d} = {c} \union {d} /\ d \notin {c}
  OBVIOUS
<1>5. Cardinality({c} \union {d}) = Cardinality({c}) + 1
  BY <1>3, <1>4, FS_AddElement
<1>6. Cardinality(S) \in Nat
  BY FS_CardinalityType
<1>7. QED
  BY <1>2, <1>3, <1>4, <1>5, <1>6

\* A subject that the runtime takes up meets every condition.
LEMMA EligibleMeets ==
  ASSUME NEW b, IsBlueprint(b), NEW allowlist, Executable(b, allowlist),
         NEW subject, subject.inactive \in Nat, Eligible(Definition(b), subject)
  PROVE  subject.type \in b.entityTypes /\ \A c \in b.conditions : Meets(c, subject)
<1> DEFINE stale == Max({0} \union {c.number : c \in {d \in b.conditions : Inactive(b, d)}})
<1>1. /\ subject.type \in b.entityTypes
      /\ Statuses(b) = {} \/ subject.status \in Statuses(b)
      /\ stale = 0 \/ subject.inactive >= stale
  BY DEF Eligible, Definition
<1> HIDE DEF stale
<1>2. ASSUME NEW c \in b.conditions, OneStatus(c) \/ SomeStatus(c)
      PROVE  Meets(c, subject)
  <2> DEFINE S == {d \in b.conditions : d.field = "status"}
  <2>1. IsFiniteSet(S) /\ Cardinality(S) <= 1
    BY Compiles, FS_Subset DEF IsBlueprint
  <2>2. c \in S
    BY <1>2 DEF OneStatus, SomeStatus
  <2> HIDE DEF S
  <2>3. \A d \in S : d = c
    BY <2>1, <2>2, OneCondition
  <2>4. \A d \in b.conditions : OneStatus(d) \/ SomeStatus(d) => d = c
    BY <2>3 DEF S, OneStatus, SomeStatus
  <2>5. CASE OneStatus(c)
    <3>1. ~SomeStatus(c)
      BY <2>5 DEF OneStatus, SomeStatus
    <3>2. {d \in b.conditions : OneStatus(d)} = {c} /\ {d \in b.conditions : SomeStatus(d)} = {}
      BY <2>4, <2>5, <3>1
    <3>3. Statuses(b) = {c.value}
      BY <3>2 DEF Statuses
    <3>4. subject.status = c.value
      BY <1>1, <3>3
    <3>5. QED
      BY <2>5, <3>4 DEF Meets, OneStatus
  <2>6. CASE SomeStatus(c)
    <3>1. ~OneStatus(c)
      BY <2>6 DEF OneStatus, SomeStatus
    <3>2. {d \in b.conditions : OneStatus(d)} = {} /\ {d \in b.conditions : SomeStatus(d)} = {c}
      BY <2>4, <2>6, <3>1
    <3>3. Statuses(b) = c.values
      BY <3>2 DEF Statuses
    <3>4. subject.status \in c.values
      BY <1>1, <2>6, <3>3 DEF SomeStatus
    <3>5. QED
      BY <2>6, <3>4 DEF Meets, SomeStatus
  <2>7. QED
    BY <1>2, <2>5, <2>6
<1>3. ASSUME NEW c \in b.conditions, Inactive(b, c)
      PROVE  Meets(c, subject)
  <2> DEFINE N == {0} \union {d.number : d \in {e \in b.conditions : Inactive(b, e)}}
  <2>1. N \in SUBSET (0 .. 365) /\ N # {} /\ c.number \in N
    BY <1>3 DEF Inactive
  <2>2. stale = Max(N)
    BY DEF stale
  <2> HIDE DEF N
  <2>3. stale \in N /\ c.number <= stale
    <3>1. 365 \in Nat
      OBVIOUS
    <3>2. Max(N) \in N /\ \A m \in N : m <= Max(N)
      BY <2>1, <3>1, GreatestBelow
    <3>3. QED
      BY <2>1, <2>2, <3>2
  <2>4. stale \in Nat /\ c.number \in Nat
    <3>1. 0 .. 365 \subseteq Nat
      OBVIOUS
    <3>2. QED
      BY <2>1, <2>3, <3>1
  <2>5. subject.inactive >= c.number
    BY <1>1, <2>3, <2>4
  <2>6. QED
    BY <1>3, <2>5 DEF Meets, Inactive
<1>4. QED
  BY <1>1, <1>2, <1>3, Compiles

\* What the runtime allows was allowed, and unasked only what is automatic.
LEMMA AllowedIsMeant ==
  ASSUME NEW b, IsBlueprint(b), NEW allowlist, Executable(b, allowlist),
         NEW tool, NEW call, Permits(Definition(b), tool, call) = "allow"
  PROVE  /\ tool \in b.allowed \ b.prohibited
         /\ tool \in Internals \union Externals /\ ~call.approved =>
              tool \in b.automatic /\ b.mode = "AUTOPILOT" /\ b.review # "all_mutations"
<1> DEFINE definition == Definition(b)
           mutation == tool \in Internals \union Externals \union {"request_human_approval"}
<1>1. /\ definition.permissions = [a \in b.allowed |-> a \in b.automatic]
      /\ definition.restricted = b.prohibited /\ definition.mode = b.mode /\ definition.review = b.review
  BY DEF Definition
<1> HIDE DEF definition
<1>2. tool \in DOMAIN definition.permissions /\ tool \notin definition.restricted
  BY DEF Permits, definition
<1>3. tool \in b.allowed \ b.prohibited
  BY <1>1, <1>2
<1>4. ASSUME tool \in Internals \union Externals, ~call.approved
      PROVE  definition.permissions[tool] /\ definition.review # "all_mutations"
  BY <1>2, <1>4 DEF Permits, definition
<1>5. definition.permissions[tool] <=> tool \in b.automatic
  BY <1>1, <1>3
<1>6. tool \in b.automatic => b.mode = "AUTOPILOT"
  BY Compiles
<1>7. QED
  BY <1>1, <1>3, <1>4, <1>5, <1>6

\* The definition that compile makes of a blueprint without requirements does
\* no more than the blueprint says (compiler.ts:31-318).
THEOREM CompilesNoWider ==
  ASSUME NEW b, IsBlueprint(b), NEW allowlist, Executable(b, allowlist)
  PROVE  NoWider(b, Definition(b), Subjects, Calls)
<1>1. Executable(b, allowlist)
  BY DEF Executable
<1>2. \A s \in Subjects : s.inactive \in Nat
  BY DEF Subjects
<1>3. ASSUME NEW s \in Subjects, Eligible(Definition(b), s)
      PROVE  s.type \in b.entityTypes /\ \A c \in b.conditions : Meets(c, s)
  BY <1>1, <1>2, <1>3, EligibleMeets
<1>4. QED
  BY <1>1, <1>3, AllowedIsMeant, Compiles DEF NoWider

-----------------------------------------------------------------------------
(* The builder: what its rows are, and which versions there are.           *)

Specs == Proposals \union {Cleared(spec) : spec \in Suggestions}
VersionKeys == GenerationKeys \union {"manual"}
VersionRows == [blueprint : Blueprints, number : Nat, spec : Specs, key : VersionKeys, activated : Nat]
Pages == [blueprint : Blueprints \union {"none"}, number : Nat, agent : Nat]
Definitions == {"none"} \union {Definition(spec) : spec \in Specs}
BuiltAgents == [version : Nat, from : {"none", "blueprint", "hand"}, number : Nat, definition : Definitions,
                enabled : BOOLEAN]
GenerationRows == [status : {"none", "running", "completed", "failed"}, for : Pages,
                   by : SUBSET Admins]
Generators == [pc : {"none", "asking", "answered", "failing"}, answer : SUBSET Specs]

BuilderTypes ==
  /\ blueprint \in [Blueprints -> Nat] /\ versions \subseteq VersionRows
  /\ agent \in [Blueprints -> BuiltAgents] /\ page \in [Admins -> Pages]
  /\ member \subseteq Admins
  /\ generation \in [GenerationKeys -> GenerationRows]
  /\ generator \in [GenerationKeys -> Generators]

\* The versions of a blueprint are numbered without a gap.
Numbered ==
  /\ \A v \in versions : v.number \in 1 .. blueprint[v.blueprint]
  /\ \A b \in Blueprints : \A n \in 1 .. blueprint[b] :
       \E v \in versions : v.blueprint = b /\ v.number = n
  /\ \A v, w \in versions : v.blueprint = w.blueprint /\ v.number = w.number => v = w

\* A key without a receipt has no process; one that is asked about is not
\* completed; it is completed exactly when it made its version; one whose
\* requester was sent away after its process had ended has failed.
Requested ==
  /\ \A k \in GenerationKeys : generation[k].status = "none" => generator[k].pc = "none"
  /\ \A k \in GenerationKeys :
       generator[k].pc \in {"asking", "answered"} => generation[k].status # "completed"
  /\ \A k \in GenerationKeys : generation[k].status = "completed" <=> \E v \in versions : v.key = k
  /\ \A v, w \in versions : v.key \in GenerationKeys /\ v.key = w.key => v = w
  /\ renounced \subseteq GenerationKeys \X BOOLEAN
  /\ \A k \in GenerationKeys :
       <<k, TRUE>> \in renounced => generation[k].status = "failed" /\ generator[k].pc = "none"

BuilderInv == BuilderTypes /\ Numbered /\ Requested

LEMMA BlueprintsClear ==
  ASSUME NEW b, IsBlueprint(b)
  PROVE  IsBlueprint(Cleared(b))
<1>1. b \in AgentBlueprints /\ IsFiniteSet(b.conditions)
  BY DEF IsBlueprint
<1> DEFINE c == [b EXCEPT !.automatic = {}]
           d == [c EXCEPT !.given = @ \ {"runtimeModel"}]
           known == IF d.knowledge = "none" THEN d.knowledge ELSE "unreviewed"
           e == [d EXCEPT !.knowledge = known]
<1>2. Cleared(b) \in AgentBlueprints
  <2>1. c \in AgentBlueprints
    BY <1>1 DEF AgentBlueprints
  <2>2. Cleared(b) = e
    BY DEF Cleared
  <2> HIDE DEF c
  <2>3. d \in AgentBlueprints
    BY <2>1 DEF AgentBlueprints
  <2> HIDE DEF d
  <2>4. known \in {"none", "unreviewed", "reviewed", "too_long"}
    BY <2>3 DEF AgentBlueprints
  <2> HIDE DEF known
  <2>5. e \in AgentBlueprints
    BY <2>3, <2>4 DEF AgentBlueprints
  <2>6. QED
    BY <2>2, <2>5
<1>3. Cleared(b).conditions = b.conditions
  BY <1>1 DEF Cleared, AgentBlueprints
<1>4. QED
  BY <1>1, <1>2, <1>3 DEF IsBlueprint

LEMMA SpecsAreBlueprints == \A spec \in Specs : IsBlueprint(spec)
BY BuilderAssumption, BlueprintsClear DEF Specs

LEMMA BuilderStart == BuilderInit => BuilderInv
<1> SUFFICES ASSUME BuilderInit PROVE BuilderInv
  OBVIOUS
<1>1. NoPage \in Pages
  BY DEF NoPage, Pages
<1>2. NoAgent \in BuiltAgents
  <2>1. "none" \in Definitions
    BY Zenon DEF Definitions
  <2>2. QED
    BY <2>1 DEF NoAgent, BuiltAgents
<1>3. NoGeneration \in GenerationRows
  BY <1>1 DEF NoGeneration, GenerationRows
<1>4. NoGenerator \in Generators
  BY DEF NoGenerator, Generators
<1>5. BuilderTypes
  BY <1>1, <1>2, <1>3, <1>4 DEF BuilderTypes, BuilderInit
<1>6. Numbered
  BY DEF Numbered, BuilderInit
<1>7. Requested
  BY DEF Requested, BuilderInit, NoGenerator, NoGeneration
<1>8. QED
  BY <1>5, <1>6, <1>7 DEF BuilderInv

\* A version that is saved is the next one of its blueprint.
LEMMA Persists ==
  ASSUME BuilderInv, NEW p \in Pages, NEW spec \in Specs, NEW key \in VersionKeys,
         Persist(p, spec, key)
  PROVE  /\ blueprint' \in [Blueprints -> Nat] /\ versions' \subseteq VersionRows
         /\ Numbered'
         /\ \E row : versions' = versions \union {row} /\ row.key = key
<1>1. PICK b \in Blueprints :
        /\ blueprint' = [blueprint EXCEPT ![b] = @ + 1]
        /\ versions' = versions \union
             {[blueprint |-> b, number |-> blueprint[b] + 1, spec |-> spec, key |-> key,
               activated |-> 0]}
  BY DEF Persist, Fresh, Exists
<1> DEFINE row == [blueprint |-> b, number |-> blueprint[b] + 1, spec |-> spec, key |-> key,
                   activated |-> 0]
<1>2. blueprint \in [Blueprints -> Nat] /\ versions \subseteq VersionRows
  BY DEF BuilderInv, BuilderTypes
<1>3. blueprint[b] \in Nat /\ blueprint[b] + 1 \in Nat
  BY <1>2
<1>4. row \in VersionRows
  BY <1>3 DEF VersionRows
<1>5. /\ row.blueprint = b /\ row.number = blueprint[b] + 1 /\ row.key = key
      /\ versions' = versions \union {row}
  BY <1>1
<1> HIDE DEF row
<1>6. /\ blueprint' \in [Blueprints -> Nat] /\ blueprint'[b] = blueprint[b] + 1
      /\ \A c \in Blueprints \ {b} : blueprint'[c] = blueprint[c]
  BY <1>1, <1>2, <1>3
<1>7. versions' \subseteq VersionRows
  BY <1>2, <1>4, <1>5
<1>8. \A v \in versions : v.blueprint \in Blueprints /\ v.number \in Nat
  BY <1>2 DEF VersionRows
<1>9. \A c \in Blueprints : blueprint[c] \in Nat
  BY <1>2
<1>10. Numbered'
  <2>1. ASSUME NEW v \in versions'
        PROVE  v.number \in 1 .. blueprint'[v.blueprint]
    <3>1. CASE v = row
      BY <1>3, <1>5, <1>6, <3>1
    <3>2. CASE v \in versions
      <4>1. v.number \in 1 .. blueprint[v.blueprint]
        BY <3>2 DEF BuilderInv, Numbered
      <4>2. QED
        BY <1>3, <1>6, <1>8, <1>9, <3>2, <4>1
    <3>3. QED
      BY <1>5, <3>1, <3>2
  <2>2. ASSUME NEW c \in Blueprints, NEW n \in 1 .. blueprint'[c]
        PROVE  \E v \in versions' : v.blueprint = c /\ v.number = n
    <3>1. CASE c = b /\ n = blueprint[b] + 1
      BY <1>5, <3>1
    <3>2. CASE ~(c = b /\ n = blueprint[b] + 1)
      <4>1. n \in 1 .. blueprint[c]
        BY <1>3, <1>6, <1>9, <3>2
      <4>2. \E v \in versions : v.blueprint = c /\ v.number = n
        BY <4>1 DEF BuilderInv, Numbered
      <4>3. QED
        BY <1>5, <4>2
    <3>3. QED
      BY <3>1, <3>2
  <2>3. ASSUME NEW v \in versions', NEW w \in versions',
               v.blueprint = w.blueprint, v.number = w.number
        PROVE  v = w
    <3>1. \A u \in versions : u.blueprint = b => u.number # row.number
      <4>1. \A u \in versions : u.number \in 1 .. blueprint[u.blueprint]
        BY DEF BuilderInv, Numbered
      <4>2. QED
        BY <1>3, <1>5, <1>8, <4>1
    <3>2. CASE v \in versions /\ w \in versions
      BY <2>3, <3>2 DEF BuilderInv, Numbered
    <3>3. QED
      BY <1>5, <2>3, <3>1, <3>2
  <2>4. QED
    BY <2>1, <2>2, <2>3 DEF Numbered
<1>11. QED
  BY <1>5, <1>6, <1>7, <1>10

\* The drafts that did not change.
LEMMA DraftsStay ==
  ASSUME BuilderInv, UNCHANGED drafts
  PROVE  Numbered'
BY DEF BuilderInv, Numbered, drafts

\* One key moves, and no version comes of it.
LEMMA KeyMoves ==
  ASSUME BuilderInv, UNCHANGED drafts, NEW k \in GenerationKeys,
         \A j \in GenerationKeys \ {k} : generation'[j] = generation[j] /\ generator'[j] = generator[j],
         generation'[k].status = "completed" <=> generation[k].status = "completed",
         generation'[k].status = "none" => generator'[k].pc = "none",
         generator'[k].pc \in {"asking", "answered"} => generation'[k].status # "completed",
         renounced' \subseteq GenerationKeys \X BOOLEAN,
         \A j \in GenerationKeys \ {k} : <<j, TRUE>> \in renounced' => <<j, TRUE>> \in renounced,
         <<k, TRUE>> \in renounced' => generation'[k].status = "failed" /\ generator'[k].pc = "none"
  PROVE  Requested'
<1>1. versions' = versions
  BY DEF drafts
<1>2. ASSUME NEW j \in GenerationKeys
      PROVE  /\ generation'[j].status = "none" => generator'[j].pc = "none"
             /\ generator'[j].pc \in {"asking", "answered"} => generation'[j].status # "completed"
             /\ generation'[j].status = "completed" <=> generation[j].status = "completed"
             /\ <<j, TRUE>> \in renounced' => generation'[j].status = "failed" /\ generator'[j].pc = "none"
  <2>1. CASE j = k
    BY <2>1
  <2>2. CASE j # k
    <3>1. generation'[j] = generation[j] /\ generator'[j] = generator[j]
      BY <2>2
    <3>2. <<j, TRUE>> \in renounced' => <<j, TRUE>> \in renounced
      BY <2>2
    <3>3. /\ generation[j].status = "none" => generator[j].pc = "none"
          /\ generator[j].pc \in {"asking", "answered"} => generation[j].status # "completed"
          /\ <<j, TRUE>> \in renounced => generation[j].status = "failed" /\ generator[j].pc = "none"
      BY DEF BuilderInv, Requested
    <3>4. QED
      BY <3>1, <3>2, <3>3
  <2>3. QED
    BY <2>1, <2>2
<1>3. QED
  BY <1>1, <1>2 DEF BuilderInv, Requested

LEMMA PagesStep ==
  ASSUME BuilderInv, NEW a \in Admins, NEW b \in Blueprints, OpenPage(a, b)
  PROVE  BuilderInv'
<1>1. UNCHANGED <<drafts, agent, member, generations>>
  BY DEF OpenPage
<1>2. BuilderTypes
  BY DEF BuilderInv
<1>3. page' \in [Admins -> Pages]
  <2>1. NoPage \in Pages
    BY DEF NoPage, Pages
  <2>2. [blueprint |-> b, number |-> blueprint[b], agent |-> agent[b].version] \in Pages
    BY <1>2 DEF BuilderTypes, Pages, BuiltAgents
  <2>3. page \in [Admins -> Pages]
    BY <1>2 DEF BuilderTypes
  <2>4. QED
    BY <2>1, <2>2, <2>3 DEF OpenPage
<1>4. BuilderTypes'
  BY <1>1, <1>2, <1>3 DEF BuilderTypes, drafts, generations
<1>5. Numbered'
  BY <1>1, DraftsStay
<1>6. Requested'
  BY <1>1 DEF BuilderInv, Requested, drafts, generations
<1>7. QED
  BY <1>4, <1>5, <1>6 DEF BuilderInv

LEMMA SaveStep ==
  ASSUME BuilderInv, NEW a \in Admins, NEW spec \in Proposals, Save(a, spec)
  PROVE  BuilderInv'
<1>1. UNCHANGED <<agent, page, member, generations>> /\ Persist(page[a], spec, "manual")
  BY DEF Save
<1>2. BuilderTypes
  BY DEF BuilderInv
<1>3. page[a] \in Pages /\ spec \in Specs /\ "manual" \in VersionKeys
  BY <1>2 DEF BuilderTypes, Specs, VersionKeys
<1>4. /\ blueprint' \in [Blueprints -> Nat] /\ versions' \subseteq VersionRows
      /\ Numbered'
  BY <1>1, <1>3, Persists
<1>5. PICK row : versions' = versions \union {row} /\ row.key = "manual"
  BY <1>1, <1>3, Persists
<1>6. BuilderTypes'
  BY <1>1, <1>2, <1>4 DEF BuilderTypes, generations
<1>7. Requested'
  <2>1. /\ \A k \in GenerationKeys : (\E v \in versions' : v.key = k) <=> \E v \in versions : v.key = k
        /\ \A v, w \in versions' : v.key \in GenerationKeys /\ v.key = w.key => v = w
    BY <1>5, BuilderAssumption DEF BuilderInv, Requested
  <2>2. UNCHANGED <<generation, generator, renounced>>
    BY <1>1 DEF generations
  <2>3. QED
    BY <2>1, <2>2 DEF BuilderInv, Requested
<1>8. QED
  BY <1>4, <1>6, <1>7 DEF BuilderInv

LEMMA ReserveStep ==
  ASSUME BuilderInv, NEW a \in Admins, NEW k \in GenerationKeys, Reserve(a, k)
  PROVE  BuilderInv'
<1>1. /\ generation[k].status = "none"
      /\ generation' = [generation EXCEPT ![k] = [status |-> "running", for |-> page[a], by |-> {a}]]
      /\ generator' = [generator EXCEPT ![k].pc = "asking"]
      /\ UNCHANGED <<drafts, agent, page, member, renounced>>
  BY DEF Reserve
<1>2. BuilderTypes
  BY DEF BuilderInv
<1>3. page[a] \in Pages
  BY <1>2 DEF BuilderTypes
<1>4. [status |-> "running", for |-> page[a], by |-> {a}] \in GenerationRows
  BY <1>3 DEF GenerationRows
<1>5. generator[k] \in Generators /\ [generator[k] EXCEPT !.pc = "asking"] \in Generators
  BY <1>2 DEF BuilderTypes, Generators
<1>6. generation' \in [GenerationKeys -> GenerationRows] /\ generator' \in [GenerationKeys -> Generators]
  BY <1>1, <1>2, <1>4, <1>5 DEF BuilderTypes
<1>7. BuilderTypes'
  BY <1>1, <1>2, <1>6 DEF BuilderTypes, drafts
<1>8. Numbered'
  BY <1>1, DraftsStay
<1>9. /\ generation'[k].status = "running" /\ <<k, TRUE>> \notin renounced
      /\ \A j \in GenerationKeys \ {k} : generation'[j] = generation[j] /\ generator'[j] = generator[j]
  BY <1>1, <1>2 DEF BuilderTypes, BuilderInv, Requested
<1>10. Requested'
  <2>1. renounced' \subseteq GenerationKeys \X BOOLEAN
    BY <1>1 DEF BuilderInv, Requested
  <2>2. QED
    BY <1>1, <1>9, <2>1, KeyMoves
<1>11. QED
  BY <1>7, <1>8, <1>10 DEF BuilderInv

LEMMA RepeatStep ==
  ASSUME BuilderInv, NEW a \in Admins, NEW k \in GenerationKeys, Repeat(a, k)
  PROVE  BuilderInv'
<1>1. /\ generation[k].status \in {"running", "failed"}
      /\ generation' = [generation EXCEPT ![k].status = "failed"]
      /\ renounced' = renounced \union {<<k, generator[k].pc = "none">>}
      /\ UNCHANGED <<drafts, agent, page, member, generator>>
  BY DEF Repeat
<1>2. BuilderTypes
  BY DEF BuilderInv
<1>3. generation[k] \in GenerationRows /\ [generation[k] EXCEPT !.status = "failed"] \in GenerationRows
  BY <1>2 DEF BuilderTypes, GenerationRows
<1>4. generation' \in [GenerationKeys -> GenerationRows]
  BY <1>1, <1>2, <1>3 DEF BuilderTypes
<1>5. BuilderTypes'
  BY <1>1, <1>2, <1>4 DEF BuilderTypes, drafts
<1>6. Numbered'
  BY <1>1, DraftsStay
<1>7. /\ generation'[k].status = "failed"
      /\ \A j \in GenerationKeys \ {k} : generation'[j] = generation[j]
  BY <1>1, <1>2, <1>3 DEF BuilderTypes, GenerationRows
<1>8. Requested'
  <2> DEFINE ended == generator[k].pc = "none"
  <2>1. ended \in BOOLEAN /\ renounced' = renounced \union {<<k, ended>>}
    BY <1>1
  <2>2. <<k, TRUE>> \in renounced' => ended
    BY <2>1 DEF BuilderInv, Requested
  <2>3. ended <=> generator'[k].pc = "none"
    BY <1>1
  <2> HIDE DEF ended
  <2>4. renounced' \subseteq GenerationKeys \X BOOLEAN
    BY <2>1 DEF BuilderInv, Requested
  <2>5. \A j \in GenerationKeys \ {k} : <<j, TRUE>> \in renounced' => <<j, TRUE>> \in renounced
    BY <2>1
  <2>6. QED
    BY <1>1, <1>7, <2>2, <2>3, <2>4, <2>5, KeyMoves
<1>9. QED
  BY <1>5, <1>6, <1>8 DEF BuilderInv

\* A generator that answers, fails or dies: it makes no version.
LEMMA GeneratorStep ==
  ASSUME BuilderInv, NEW k \in GenerationKeys, ModelAnswers(k) \/ GeneratorDies(k) \/ RecordFailedAnswer(k)
  PROVE  BuilderInv'
<1>1. UNCHANGED <<drafts, agent, page, member, renounced>> /\ generator[k].pc # "none"
  BY DEF ModelAnswers, GeneratorDies, RecordFailedAnswer
<1>2. BuilderTypes
  BY DEF BuilderInv
<1>3. generator[k] \in Generators /\ generation[k] \in GenerationRows
  BY <1>2 DEF BuilderTypes
<1>4. PICK g \in Generators :
        /\ generator' = [generator EXCEPT ![k] = g]
        /\ g.pc = "answered" => generator[k].pc = "asking"
        /\ g.pc \in {"none", "failing", "answered"}
  <2>1. CASE GeneratorDies(k) \/ RecordFailedAnswer(k)
    BY <2>1 DEF GeneratorDies, RecordFailedAnswer, NoGenerator, Generators
  <2>2. ASSUME NEW spec \in Suggestions, generator[k].pc = "asking",
               generator' = [generator EXCEPT ![k] = [pc |-> "answered", answer |-> {Cleared(spec)}]]
        PROVE  \E g \in Generators :
                 /\ generator' = [generator EXCEPT ![k] = g]
                 /\ g.pc = "answered" => generator[k].pc = "asking"
                 /\ g.pc \in {"none", "failing", "answered"}
    <3>1. Cleared(spec) \in Specs
      BY DEF Specs
    <3>2. [pc |-> "answered", answer |-> {Cleared(spec)}] \in Generators
      BY <3>1 DEF Generators
    <3>3. QED
      BY <2>2, <3>2
  <2>3. CASE generator' = [generator EXCEPT ![k].pc = "failing"]
    <3>1. [generator[k] EXCEPT !.pc = "failing"] \in Generators
      BY <1>3 DEF Generators
    <3>2. generator' = [generator EXCEPT ![k] = [generator[k] EXCEPT !.pc = "failing"]]
      BY <2>3
    <3>3. QED
      BY <1>3, <3>1, <3>2 DEF Generators
  <2>4. QED
    BY <2>1, <2>2, <2>3 DEF ModelAnswers
<1>5. PICK row \in GenerationRows :
        /\ generation' = [generation EXCEPT ![k] = row]
        /\ row.status = generation[k].status \/ (generation[k].status = "running" /\ row.status = "failed")
  <2>1. CASE ModelAnswers(k) \/ GeneratorDies(k)
    <3>1. generation' = [generation EXCEPT ![k] = generation[k]]
      BY <1>2, <2>1 DEF ModelAnswers, GeneratorDies, BuilderTypes
    <3>2. QED
      BY <1>3, <3>1
  <2>2. CASE RecordFailedAnswer(k)
    <3> DEFINE status == IF generation[k].status = "running" THEN "failed" ELSE generation[k].status
               row == [generation[k] EXCEPT !.status = status]
    <3>1. status \in {"none", "running", "completed", "failed"}
      BY <1>3 DEF GenerationRows
    <3>2. status = generation[k].status \/ (generation[k].status = "running" /\ status = "failed")
      OBVIOUS
    <3>3. generation' = [generation EXCEPT ![k] = row]
      BY <1>2, <1>3, <2>2 DEF RecordFailedAnswer, FailsIfRunning, BuilderTypes, GenerationRows
    <3> HIDE DEF status
    <3>4. row \in GenerationRows /\ row.status = status
      BY <1>3, <3>1 DEF GenerationRows
    <3>5. QED
      BY <3>2, <3>3, <3>4
  <2>3. QED
    BY <2>1, <2>2
<1>6. /\ generator' \in [GenerationKeys -> Generators] /\ generation' \in [GenerationKeys -> GenerationRows]
      /\ generator'[k] = g /\ generation'[k] = row
      /\ \A j \in GenerationKeys \ {k} : generation'[j] = generation[j] /\ generator'[j] = generator[j]
  BY <1>2, <1>4, <1>5 DEF BuilderTypes
<1>7. BuilderTypes'
  BY <1>1, <1>2, <1>6 DEF BuilderTypes, drafts
<1>8. Numbered'
  BY <1>1, DraftsStay
<1>9. Requested'
  <2>1. generation[k].status # "none" /\ <<k, TRUE>> \notin renounced
    BY <1>1 DEF BuilderInv, Requested
  <2>2. g.pc = "answered" => generation[k].status # "completed"
    BY <1>4 DEF BuilderInv, Requested
  <2>3. renounced' \subseteq GenerationKeys \X BOOLEAN /\ renounced' = renounced
    BY <1>1 DEF BuilderInv, Requested
  <2>4. QED
    BY <1>1, <1>4, <1>5, <1>6, <2>1, <2>2, <2>3, KeyMoves
<1>10. QED
  BY <1>7, <1>8, <1>9 DEF BuilderInv

LEMMA SaveAnswerStep ==
  ASSUME BuilderInv, NEW k \in GenerationKeys, SaveAnswer(k)
  PROVE  BuilderInv'
<1>1. /\ generator[k].pc = "answered" /\ UNCHANGED <<agent, page, member, renounced>>
      /\ \/ UNCHANGED <<drafts, generation>> /\ generator' = [generator EXCEPT ![k].pc = "failing"]
         \/ /\ Completes(k)
            /\ \/ generator' = [generator EXCEPT ![k] = NoGenerator]
               \/ generator' = [generator EXCEPT ![k].pc = "failing"]
  BY DEF SaveAnswer
<1>2. BuilderTypes
  BY DEF BuilderInv
<1>3. generator[k] \in Generators /\ generation[k] \in GenerationRows
  BY <1>2 DEF BuilderTypes
<1>4. /\ generation[k].status \notin {"none", "completed"} /\ <<k, TRUE>> \notin renounced
      /\ \A v \in versions : v.key # k
  BY <1>1 DEF BuilderInv, Requested
<1>5. PICK g \in Generators : generator' = [generator EXCEPT ![k] = g] /\ g.pc \in {"none", "failing"}
  <2>1. NoGenerator \in Generators /\ NoGenerator.pc = "none"
    BY DEF NoGenerator, Generators
  <2>2. [generator[k] EXCEPT !.pc = "failing"] \in Generators /\ [generator[k] EXCEPT !.pc = "failing"].pc = "failing"
    BY <1>3 DEF Generators
  <2>3. QED
    BY <1>1, <2>1, <2>2
<1>6. /\ generator' \in [GenerationKeys -> Generators] /\ generator'[k] = g
      /\ \A j \in GenerationKeys \ {k} : generator'[j] = generator[j]
  BY <1>2, <1>5 DEF BuilderTypes
<1>7. CASE UNCHANGED <<drafts, generation>>
  <2>1. BuilderTypes'
    BY <1>1, <1>2, <1>6, <1>7 DEF BuilderTypes, drafts
  <2>2. Numbered'
    BY <1>7, DraftsStay
  <2>3. renounced' \subseteq GenerationKeys \X BOOLEAN /\ renounced' = renounced
    BY <1>1 DEF BuilderInv, Requested
  <2>4. Requested'
    BY <1>4, <1>5, <1>6, <1>7, <2>3, KeyMoves
  <2>5. QED
    BY <2>1, <2>2, <2>4 DEF BuilderInv
<1>8. CASE Completes(k)
  <2>1. PICK spec \in generator[k].answer : Persist(generation[k].for, spec, k)
    BY <1>8 DEF Completes
  <2>2. spec \in Specs /\ k \in VersionKeys /\ generation[k].for \in Pages
    BY <1>3 DEF Generators, VersionKeys, GenerationRows
  <2>3. /\ blueprint' \in [Blueprints -> Nat] /\ versions' \subseteq VersionRows
        /\ Numbered'
    BY <2>1, <2>2, Persists
  <2>4. PICK row : versions' = versions \union {row} /\ row.key = k
    BY <2>1, <2>2, Persists
  <2>5. generation' = [generation EXCEPT ![k].status = "completed"]
    BY <1>8 DEF Completes
  <2>6. [generation[k] EXCEPT !.status = "completed"] \in GenerationRows
    BY <1>3 DEF GenerationRows
  <2>7. /\ generation' \in [GenerationKeys -> GenerationRows] /\ generation'[k].status = "completed"
        /\ \A j \in GenerationKeys \ {k} : generation'[j] = generation[j]
    BY <1>2, <1>3, <2>5, <2>6 DEF BuilderTypes, GenerationRows
  <2>8. BuilderTypes'
    BY <1>1, <1>2, <1>6, <2>3, <2>7 DEF BuilderTypes
  <2>9. Requested'
    <3>1. \A j \in GenerationKeys : generation'[j].status = "completed" <=> \E v \in versions' : v.key = j
      BY <1>4, <2>4, <2>7 DEF BuilderInv, Requested
    <3>2. \A v, w \in versions' : v.key \in GenerationKeys /\ v.key = w.key => v = w
      BY <1>4, <2>4 DEF BuilderInv, Requested
    <3>3. ASSUME NEW j \in GenerationKeys
          PROVE  /\ generation'[j].status = "none" => generator'[j].pc = "none"
                 /\ generator'[j].pc \in {"asking", "answered"} => generation'[j].status # "completed"
                 /\ <<j, TRUE>> \in renounced => generation'[j].status = "failed" /\ generator'[j].pc = "none"
      <4>1. CASE j = k
        BY <1>4, <1>5, <1>6, <2>7, <4>1
      <4>2. CASE j # k
        <5>1. generation'[j] = generation[j] /\ generator'[j] = generator[j]
          BY <1>6, <2>7, <4>2
        <5>2. /\ generation[j].status = "none" => generator[j].pc = "none"
              /\ generator[j].pc \in {"asking", "answered"} => generation[j].status # "completed"
              /\ <<j, TRUE>> \in renounced => generation[j].status = "failed" /\ generator[j].pc = "none"
          BY DEF BuilderInv, Requested
        <5>3. QED
          BY <5>1, <5>2
      <4>3. QED
        BY <4>1, <4>2
    <3>4. renounced' \subseteq GenerationKeys \X BOOLEAN /\ renounced' = renounced
      BY <1>1 DEF BuilderInv, Requested
    <3>5. QED
      BY <3>1, <3>2, <3>3, <3>4 DEF Requested
  <2>10. QED
    BY <2>3, <2>8, <2>9 DEF BuilderInv
<1>9. QED
  BY <1>1, <1>7, <1>8

\* What an activation reads: the last version, of the page and of the blueprint.
LEMMA ActivationReads ==
  ASSUME BuilderInv, NEW a \in Admins, Activate(a)
  PROVE  /\ page[a].blueprint \in Blueprints /\ page[a].number = blueprint[page[a].blueprint]
         /\ Version(page[a].blueprint, page[a].number) \in versions
         /\ Version(page[a].blueprint, page[a].number).blueprint = page[a].blueprint
         /\ Version(page[a].blueprint, page[a].number).number = page[a].number
<1>1. Fresh(page[a])
  BY DEF Activate
<1>2. /\ page[a].blueprint \in Blueprints /\ page[a].number = blueprint[page[a].blueprint]
      /\ blueprint[page[a].blueprint] > 0
  BY <1>1 DEF Fresh, Exists
<1>3. blueprint[page[a].blueprint] \in Nat
  BY <1>2 DEF BuilderInv, BuilderTypes
<1>4. page[a].number \in 1 .. blueprint[page[a].blueprint]
  BY <1>2, <1>3
<1>5. \E v \in versions : v.blueprint = page[a].blueprint /\ v.number = page[a].number
  BY <1>2, <1>4 DEF BuilderInv, Numbered
<1>6. QED
  BY <1>2, <1>5 DEF Version

LEMMA ActivateStep ==
  ASSUME BuilderInv, NEW a \in Admins, Activate(a)
  PROVE  BuilderInv'
<1> DEFINE b == page[a].blueprint
           v == Version(page[a].blueprint, page[a].number)
           n == agent[b].version + 1
           built == [version |-> n, from |-> "blueprint", number |-> v.number,
                     definition |-> Definition(v.spec), enabled |-> TRUE]
           marked == [v EXCEPT !.activated = n]
<1>1. /\ agent' = [agent EXCEPT ![b] = built] /\ versions' = (versions \ {v}) \union {marked}
      /\ UNCHANGED <<blueprint, page, member, generations>>
  BY DEF Activate
<1>2. BuilderTypes
  BY DEF BuilderInv
<1>3. b \in Blueprints /\ v \in versions
  BY ActivationReads
<1>4. v \in VersionRows /\ n \in Nat
  BY <1>2, <1>3 DEF BuilderTypes, BuiltAgents
<1> HIDE DEF b, n, v
<1>5. built \in BuiltAgents
  <2>1. v.spec \in Specs /\ v.number \in Nat
    BY <1>4 DEF VersionRows
  <2>2. Definition(v.spec) \in Definitions
    BY <2>1 DEF Definitions
  <2>3. QED
    BY <1>4, <2>1, <2>2 DEF BuiltAgents
<1>6. /\ marked \in VersionRows /\ marked.blueprint = v.blueprint /\ marked.number = v.number
      /\ marked.key = v.key
  BY <1>4 DEF VersionRows
<1> HIDE DEF built, marked
<1>7. BuilderTypes'
  BY <1>1, <1>2, <1>3, <1>5, <1>6 DEF BuilderTypes, generations
<1>8. Numbered'
  <2>1. \A w \in versions' : w.number \in 1 .. blueprint'[w.blueprint]
    BY <1>1, <1>3, <1>6 DEF BuilderInv, Numbered
  <2>2. ASSUME NEW c \in Blueprints, NEW m \in 1 .. blueprint'[c]
        PROVE  \E w \in versions' : w.blueprint = c /\ w.number = m
    <3>1. PICK w \in versions : w.blueprint = c /\ w.number = m
      BY <1>1 DEF BuilderInv, Numbered
    <3>2. QED
      BY <1>1, <1>6, <3>1
  <2>3. \A w, x \in versions' : w.blueprint = x.blueprint /\ w.number = x.number => w = x
    BY <1>1, <1>3, <1>6 DEF BuilderInv, Numbered
  <2>4. QED
    BY <2>1, <2>2, <2>3 DEF Numbered
<1>9. Requested'
  <2>1. \A w, x \in versions' : w.key \in GenerationKeys /\ w.key = x.key => w = x
    BY <1>1, <1>3, <1>6 DEF BuilderInv, Requested
  <2>2. \A k \in GenerationKeys : (\E w \in versions' : w.key = k) <=> \E w \in versions : w.key = k
    BY <1>1, <1>3, <1>6
  <2>3. QED
    BY <1>1, <2>1, <2>2 DEF BuilderInv, Requested, generations
<1>10. QED
  BY <1>7, <1>8, <1>9 DEF BuilderInv

\* The agent interface: a version by hand, and the switch.
LEMMA AgentTypes ==
  ASSUME BuilderInv, NEW a \in Admins, NEW b \in Blueprints, AppendVersionByHand(a, b) \/ Switch(a, b)
  PROVE  /\ agent' \in [Blueprints -> BuiltAgents]
         /\ UNCHANGED <<drafts, page, member, generations>>
<1>1. agent \in [Blueprints -> BuiltAgents] /\ agent[b] \in BuiltAgents
  BY DEF BuilderInv, BuilderTypes
<1>2. CASE AppendVersionByHand(a, b)
  <2> DEFINE built == [NoAgent EXCEPT !.version = agent[b].version + 1, !.from = "hand"]
  <2>1. agent' = [agent EXCEPT ![b] = built] /\ UNCHANGED <<drafts, page, member, generations>>
    BY <1>2, Zenon DEF AppendVersionByHand
  <2>2. agent[b].version + 1 \in Nat
    BY <1>1 DEF BuiltAgents
  <2>3. "none" \in Definitions
    BY DEF Definitions
  <2>4. built \in BuiltAgents
    BY <2>2, <2>3 DEF NoAgent, BuiltAgents
  <2> HIDE DEF built
  <2>5. QED
    BY <1>1, <2>1, <2>4
<1>3. CASE Switch(a, b)
  <2> DEFINE switched == [agent[b] EXCEPT !.enabled = ~@]
  <2>1. agent' = [agent EXCEPT ![b] = switched] /\ UNCHANGED <<drafts, page, member, generations>>
    BY <1>3 DEF Switch
  <2>2. switched \in BuiltAgents
    BY <1>1 DEF BuiltAgents
  <2> HIDE DEF switched
  <2>3. QED
    BY <1>1, <2>1, <2>2
<1>4. QED
  BY <1>2, <1>3

LEMMA BuilderRestStep ==
  ASSUME BuilderInv,
         \/ \E a \in Admins :
              \/ TestDraft(a) \/ Revoke(a)
              \/ \E b \in Blueprints : AppendVersionByHand(a, b) \/ Switch(a, b)
         \/ Deploy
         \/ UNCHANGED builderVars
  PROVE  BuilderInv'
<1>1. /\ UNCHANGED <<drafts, page, generations>> /\ member' \subseteq member
      /\ agent' = agent \/ agent' \in [Blueprints -> BuiltAgents]
  <2>1. ASSUME NEW a \in Admins, TestDraft(a) \/ Revoke(a)
        PROVE  UNCHANGED <<drafts, page, generations, agent>> /\ member' \subseteq member
    BY <2>1 DEF TestDraft, Revoke
  <2>2. CASE Deploy \/ UNCHANGED builderVars
    BY <2>2 DEF Deploy, builderVars, drafts, generations
  <2>3. QED
    BY <2>1, <2>2, AgentTypes
<1>2. BuilderTypes
  BY DEF BuilderInv
<1>3. BuilderTypes'
  BY <1>1, <1>2 DEF BuilderTypes, drafts, generations
<1>4. Numbered'
  BY <1>1, DraftsStay
<1>5. Requested'
  BY <1>1 DEF BuilderInv, Requested, drafts, generations
<1>6. QED
  BY <1>3, <1>4, <1>5 DEF BuilderInv

\* The versions of a blueprint are numbered without a gap, and a request for
\* one is answered once (service.ts:190-345).
THEOREM BuilderInductive == BuilderInit /\ [][BuilderNext]_builderVars => []BuilderInv
<1>1. BuilderInv /\ [BuilderNext]_builderVars => BuilderInv'
  <2> SUFFICES ASSUME BuilderInv, [BuilderNext]_builderVars PROVE BuilderInv'
    OBVIOUS
  <2>1. ASSUME NEW a \in Admins, NEW b \in Blueprints, OpenPage(a, b) PROVE BuilderInv'
    BY <2>1, PagesStep
  <2>2. ASSUME NEW a \in Admins, NEW spec \in Proposals, Save(a, spec) PROVE BuilderInv'
    BY <2>2, SaveStep
  <2>3. ASSUME NEW a \in Admins, NEW k \in GenerationKeys, Reserve(a, k) PROVE BuilderInv'
    BY <2>3, ReserveStep
  <2>4. ASSUME NEW a \in Admins, NEW k \in GenerationKeys, Repeat(a, k) PROVE BuilderInv'
    BY <2>4, RepeatStep
  <2>5. ASSUME NEW a \in Admins, Activate(a) PROVE BuilderInv'
    BY <2>5, ActivateStep
  <2>6. ASSUME NEW k \in GenerationKeys, ModelAnswers(k) \/ GeneratorDies(k) \/ RecordFailedAnswer(k)
        PROVE BuilderInv'
    BY <2>6, GeneratorStep
  <2>7. ASSUME NEW k \in GenerationKeys, SaveAnswer(k) PROVE BuilderInv'
    BY <2>7, SaveAnswerStep
  <2>8. QED
    BY <2>1, <2>2, <2>3, <2>4, <2>5, <2>6, <2>7, BuilderRestStep DEF BuilderNext
<1>2. QED
  BY <1>1, BuilderStart, PTL

\* A key saves one version at most, its receipt is completed exactly when that
\* version is there, and none comes once its process had ended when its
\* requester was told to start a new request (service.ts:190-279).
THEOREM AnsweredOnce == BuilderInit /\ [][BuilderNext]_builderVars => []GeneratesOnce
<1>1. BuilderInv => GeneratesOnce
  <2> SUFFICES ASSUME BuilderInv PROVE GeneratesOnce
    OBVIOUS
  <2>1. \A r \in renounced : r[1] \in GenerationKeys /\ r = <<r[1], r[2]>> /\ r[2] \in BOOLEAN
    BY DEF BuilderInv, Requested
  <2>2. ASSUME NEW r \in renounced, r[2]
        PROVE  \A v \in versions : v.key # r[1]
    <3>1. <<r[1], TRUE>> \in renounced /\ r[1] \in GenerationKeys
      BY <2>1, <2>2
    <3>2. QED
      BY <3>1 DEF BuilderInv, Requested
  <2>3. QED
    BY <2>2 DEF BuilderInv, Requested, GeneratesOnce
<1>2. QED
  BY <1>1, BuilderInductive, PTL

LEMMA ActivationMeant ==
  ASSUME BuilderInv, NEW a \in Admins, Activate(a),
         NEW b \in Blueprints, agent'[b].version > agent[b].version
  PROVE  /\ page[a] = [blueprint |-> b, number |-> blueprint[b], agent |-> agent[b].version]
         /\ Version(b, blueprint[b]).spec.model \in models
         /\ "runtimeModel" \in Version(b, blueprint[b]).spec.given
         /\ \E t \in tests : t.blueprint = b /\ t.number = blueprint[b] /\ t.definition # {}
         /\ NoWider(Version(b, blueprint[b]).spec, agent'[b].definition, Subjects, Calls)
<1> DEFINE p == page[a]
           v == Version(p.blueprint, p.number)
           built == [version |-> agent[p.blueprint].version + 1, from |-> "blueprint",
                     number |-> v.number, definition |-> Definition(v.spec), enabled |-> TRUE]
<1>1. /\ Executable(v.spec, models) /\ Tested(v) /\ agent[p.blueprint].version = p.agent
      /\ agent' = [agent EXCEPT ![p.blueprint] = built]
  BY DEF Activate, AgentUnchanged
<1>2. /\ p.blueprint \in Blueprints /\ p.number = blueprint[p.blueprint] /\ v \in versions
      /\ v.blueprint = p.blueprint /\ v.number = p.number
  BY ActivationReads
<1>3. BuilderTypes
  BY DEF BuilderInv
<1>4. p \in Pages /\ v \in VersionRows
  BY <1>2, <1>3 DEF BuilderTypes
<1>5. p = [blueprint |-> p.blueprint, number |-> p.number, agent |-> p.agent]
  BY <1>4 DEF Pages
<1> HIDE DEF p, built
<1>6. p.blueprint = b
  <2>1. agent[b].version \in Nat
    BY <1>3 DEF BuilderTypes, BuiltAgents
  <2>2. agent'[b] # agent[b]
    BY <2>1
  <2>3. QED
    BY <1>1, <1>3, <2>2 DEF BuilderTypes
<1>7. p = [blueprint |-> b, number |-> blueprint[b], agent |-> agent[b].version]
  BY <1>1, <1>2, <1>5, <1>6
<1>8. agent'[b].definition = Definition(v.spec)
  <2>1. agent'[b] = built
    BY <1>1, <1>3, <1>6 DEF BuilderTypes
  <2>2. QED
    BY <2>1 DEF built
<1>9. v.spec \in Specs
  BY <1>4 DEF VersionRows
<1>10. IsBlueprint(v.spec) /\ NoWider(v.spec, Definition(v.spec), Subjects, Calls)
  BY <1>1, <1>9, SpecsAreBlueprints, CompilesNoWider
<1>11. v.spec.model \in models /\ "runtimeModel" \in v.spec.given
  BY <1>1, Compiles
<1>12. \E t \in tests : t.blueprint = b /\ t.number = blueprint[b] /\ t.definition # {}
  BY <1>1, <1>2, <1>6 DEF Tested
<1>13. v = Version(b, blueprint[b])
  BY <1>2, <1>6
<1>14. QED
  BY <1>7, <1>8, <1>10, <1>11, <1>12, <1>13 DEF p

\* An activation puts in force the version an administrator had on the page,
\* tested, over the agent it showed, and compiled to a definition that is no
\* wider than the blueprint (service.ts:347-421, compiler.ts:31-318).
THEOREM ActivatesRead == BuilderInit /\ [][BuilderNext]_builderVars => ActivatesWhatWasRead
<1> DEFINE Meant(b) ==
             agent'[b].version > agent[b].version /\ agent'[b].from = "blueprint" =>
               \E a \in Admins :
                 /\ page[a] = [blueprint |-> b, number |-> blueprint[b], agent |-> agent[b].version]
                 /\ LET spec == Version(b, blueprint[b]).spec
                    IN /\ spec.model \in models /\ "runtimeModel" \in spec.given
                       /\ \E t \in tests : t.blueprint = b /\ t.number = blueprint[b] /\ t.definition # {}
                       /\ NoWider(spec, agent'[b].definition, Subjects, Calls)
<1>1. BuilderInv /\ [BuilderNext]_builderVars => [\A b \in Blueprints : Meant(b)]_builderVars
  <2> SUFFICES ASSUME BuilderInv, BuilderNext, NEW b \in Blueprints,
                      agent'[b].version > agent[b].version, agent'[b].from = "blueprint"
               PROVE  Meant(b)
    OBVIOUS
  <2>1. agent[b].version \in Nat /\ agent \in [Blueprints -> BuiltAgents]
    BY DEF BuilderInv, BuilderTypes, BuiltAgents
  <2>2. agent'[b] # agent[b]
    BY <2>1
  <2>3. ASSUME NEW a \in Admins, NEW c \in Blueprints, AppendVersionByHand(a, c)
        PROVE  FALSE
    <3>1. agent'[c].from = "hand"
      BY <2>1, <2>3 DEF AppendVersionByHand, NoAgent
    <3>2. c = b
      BY <2>1, <2>2, <2>3 DEF AppendVersionByHand
    <3>3. QED
      BY <3>1, <3>2
  <2>7. ASSUME NEW a \in Admins, NEW c \in Blueprints, Switch(a, c)
        PROVE  FALSE
    <3>1. agent'[b].version = agent[b].version
      <4>1. agent[c] \in BuiltAgents /\ agent'[b] = IF b = c THEN [agent[c] EXCEPT !.enabled = ~@] ELSE agent[b]
        BY <2>1, <2>7 DEF Switch
      <4>2. QED
        BY <4>1 DEF BuiltAgents
    <3>2. QED
      BY <2>1, <3>1
  <2>4. \E a \in Admins : Activate(a)
    BY <2>2, <2>3, <2>7 DEF BuilderNext, TestDraft, Revoke, OpenPage, Save, Reserve, Repeat, ModelAnswers,
                       SaveAnswer, RecordFailedAnswer, GeneratorDies, Deploy
  <2>5. PICK a \in Admins : Activate(a)
    BY <2>4
  <2>6. QED
    BY <2>5, ActivationMeant
<1>2. QED
  BY <1>1, BuilderInductive, PTL DEF ActivatesWhatWasRead
=============================================================================
