------------------------------- MODULE Tenancy -------------------------------
(***************************************************************************)
(* Members, connections and their credentials (workforce/tenancy,          *)
(* crm/service.ts, integrations/service.ts, workforce/http/routes.ts).     *)
(*                                                                         *)
(* A request is authenticated when it arrives and carried out later, under *)
(* the lock of the organization.  The CRM and the integration service look *)
(* at the credential again once they hold the lock; the older routes of    *)
(* the workforce act on what was read before.                              *)
(***************************************************************************)
EXTENDS Integers, FiniteSets

CONSTANTS
  Founder,          \* the member provisionOrganization creates
  Members,          \* OrganizationMember rows there may be
  Connections,      \* ExternalConnection rows there may be
  Credentials,      \* WorkforceCredential rows there may be
  CredentialLimit,  \* live credentials a connection may be issued (5)
  Requests          \* requests that are served at the same time

ASSUME TenancyAssumption == Founder \in Members

VARIABLES
  membership,      \* [role, active]; role "none" without a row
  connection,  \* "none", "enabled" or "disabled"
  credential,  \* [of, state]; state "none", "live", "revoked" or "expired"
  request      \* [by, role]: the Principal each request was given

tenancyVars == <<membership, connection, credential, request>>

Roles == {"owner", "admin", "member", "viewer"}
Nobody == [by |-> "nobody", role |-> "none"]
NoCredential == [of |-> "nobody", state |-> "none"]

TenancyTypeOK ==
  /\ membership \in [Members -> [role : Roles \union {"none"}, active : BOOLEAN]]
  /\ connection \in [Connections -> {"none", "enabled", "disabled"}]
  /\ credential \in [Credentials -> [of : Members \union Connections \union {"nobody"},
                                    state : {"none", "live", "revoked", "expired"}]]
  /\ request \in [Requests -> [by : Credentials \union {"nobody", "platform-operator"},
                              role : Roles \union {"none"}]]

\* provisionOrganization: the founder owns the organization and has a credential.
TenancyInit ==
  /\ membership = [m \in Members |-> IF m = Founder THEN [role |-> "owner", active |-> TRUE]
                                 ELSE [role |-> "none", active |-> FALSE]]
  /\ connection = [x \in Connections |-> "none"]
  /\ LET first == CHOOSE c \in Credentials : TRUE IN
       credential = [c \in Credentials |-> IF c = first THEN [of |-> Founder, state |-> "live"]
                                           ELSE NoCredential]
  /\ request = [q \in Requests |-> Nobody]

-----------------------------------------------------------------------------
\* The principal of a request.

RoleOf(c) == IF credential[c].of \in Members THEN membership[credential[c].of].role ELSE "none"
InOffice(c) == credential[c].of \in Members /\ membership[credential[c].of].active

\* authenticate.
Authentic(c) ==
  /\ credential[c].state = "live"
  /\ \/ InOffice(c)
     \/ credential[c].of \in Connections /\ connection[credential[c].of] = "enabled"

Authenticate(q, c) ==
  /\ request[q] = Nobody /\ Authentic(c)
  /\ request' = [request EXCEPT ![q] = [by |-> c, role |-> RoleOf(c)]]
  /\ UNCHANGED <<membership, connection, credential>>

\* The console of the platform acts as an owner and has no credential.
OperatorAsks(q) ==
  /\ request[q] = Nobody
  /\ request' = [request EXCEPT ![q] = [by |-> "platform-operator", role |-> "owner"]]
  /\ UNCHANGED <<membership, connection, credential>>

ByOperator(q) == request[q].by = "platform-operator"
Administers(q) == request[q].role \in {"owner", "admin"}
Answered(q) == request' = [request EXCEPT ![q] = Nobody]

\* A request that is refused, or that only reads, changes nothing.
Refuse(q) ==
  /\ request[q] # Nobody /\ Answered(q)
  /\ UNCHANGED <<membership, connection, credential>>

\* Mutant: a request acts with the role it was authenticated with.
StillLive(q) ==
  \/ ByOperator(q)
  \/ request[q].by \in Credentials /\ credential[request[q].by].state = "live"
\* CrmService.transaction: what the principal was told must still hold.
StillCurrent(q) ==
  \/ ByOperator(q)
  \/ LET c == request[q].by IN
       c \in Credentials /\ credential[c].state = "live" /\ InOffice(c) /\ RoleOf(c) = request[q].role

\* IntegrationService.transaction.
MayIntegrate(q) ==
  \/ ByOperator(q)
  \/ LET c == request[q].by IN
       c \in Credentials /\ credential[c].state = "live" /\ InOffice(c) /\ RoleOf(c) \in {"owner", "admin"}

-----------------------------------------------------------------------------
(* Members and connections of the CRM.                                     *)

AddMember(q, m, role) ==
  /\ Administers(q) /\ StillCurrent(q)
  /\ membership[m].role = "none" /\ role \in {"member", "viewer"}
  /\ membership' = [membership EXCEPT ![m] = [role |-> role, active |-> TRUE]]
  /\ Answered(q) /\ UNCHANGED <<connection, credential>>

ActiveOwners == {m \in Members : membership[m].active /\ membership[m].role = "owner"}

LastOwner(m, role, active) ==
  /\ m \in ActiveOwners /\ (~active \/ role # "owner")
  /\ Cardinality(ActiveOwners) <= 1

UpdateMember(q, m, role, active) ==
  /\ Administers(q) /\ StillCurrent(q)
  /\ membership[m].role # "none"
  /\ \/ request[q].role = "owner"
     \/ membership[m].role # "owner" /\ role \notin {"owner", "admin"}
     \/ membership[m].role = "admin" /\ role = "admin"
  /\ ~LastOwner(m, role, active)
  /\ membership' = [membership EXCEPT ![m] = [role |-> role, active |-> active]]
  /\ Answered(q) /\ UNCHANGED <<connection, credential>>

Connect(q, x) ==
  /\ Administers(q) /\ StillCurrent(q) /\ connection[x] = "none"
  /\ connection' = [connection EXCEPT ![x] = "enabled"]
  /\ Answered(q) /\ UNCHANGED <<membership, credential>>

UpdateConnection(q, x, enabled) ==
  /\ Administers(q) /\ StillCurrent(q) /\ connection[x] # "none"
  /\ connection' = [connection EXCEPT ![x] = IF enabled THEN "enabled" ELSE "disabled"]
  /\ Answered(q) /\ UNCHANGED <<membership, credential>>

-----------------------------------------------------------------------------
(* Credentials.                                                            *)

\* issueCredential: a new row for a member or a connection.
Issued(c, of) ==
  /\ credential[c] = NoCredential
  /\ credential' = [credential EXCEPT ![c] = [of |-> of, state |-> "live"]]

CreateConnection(q, x, c) ==
  /\ Administers(q) /\ MayIntegrate(q)
  /\ connection[x] = "none" /\ connection' = [connection EXCEPT ![x] = "enabled"]
  /\ Issued(c, x)
  /\ Answered(q) /\ UNCHANGED membership

IssueForConnection(q, x, c) ==
  /\ Administers(q) /\ MayIntegrate(q)
  /\ connection[x] = "enabled"
  /\ Cardinality({d \in Credentials : credential[d] = [of |-> x, state |-> "live"]}) < CredentialLimit
  /\ Issued(c, x)
  /\ Answered(q) /\ UNCHANGED <<membership, connection>>

RevokeForConnection(q, c) ==
  /\ Administers(q) /\ MayIntegrate(q)
  /\ credential[c].of \in Connections /\ credential[c].state \in {"live", "expired"}
  /\ credential' = [credential EXCEPT ![c].state = "revoked"]
  /\ Answered(q) /\ UNCHANGED <<membership, connection>>

\* The workforce routes: authorized before the lock, and only there.
RouteIntegrates(q, x, c) ==
  /\ Administers(q) /\ ~ByOperator(q)
  /\ connection[x] = "none" /\ connection' = [connection EXCEPT ![x] = "enabled"]
  /\ Issued(c, x)
  /\ Answered(q) /\ UNCHANGED membership

RouteRevokes(q, c) ==
  /\ Administers(q) /\ ~ByOperator(q)
  /\ credential[c].state \in {"live", "expired"}
  /\ credential' = [credential EXCEPT ![c].state = "revoked"]
  /\ Answered(q) /\ UNCHANGED <<membership, connection>>

RouteRotates(q, c, d) ==
  /\ Administers(q) /\ ~ByOperator(q)
  /\ credential[c].state \in {"live", "expired"} /\ credential[d] = NoCredential
  /\ credential' = [credential EXCEPT ![c].state = "revoked",
                                      ![d] = [of |-> credential[c].of, state |-> "live"]]
  /\ Answered(q) /\ UNCHANGED <<membership, connection>>

\* Ninety days pass.
CredentialExpires(c) ==
  /\ credential[c].state = "live"
  /\ credential' = [credential EXCEPT ![c].state = "expired"]
  /\ UNCHANGED <<membership, connection, request>>

-----------------------------------------------------------------------------
OfMembers(q) ==
  \/ \E m \in Members, role \in Roles : AddMember(q, m, role)
  \/ \E m \in Members, role \in Roles, active \in BOOLEAN : UpdateMember(q, m, role, active)
OfConnections(q) ==
  \E x \in Connections :
    \/ Connect(q, x)
    \/ \E enabled \in BOOLEAN : UpdateConnection(q, x, enabled)
    \/ \E c \in Credentials :
         CreateConnection(q, x, c) \/ IssueForConnection(q, x, c) \/ RouteIntegrates(q, x, c)
OfCredentials(q) ==
  \E c \in Credentials :
    \/ RevokeForConnection(q, c)
    \/ RouteRevokes(q, c)
    \/ \E d \in Credentials : RouteRotates(q, c, d)

TenancyNext ==
  \/ \E c \in Credentials : CredentialExpires(c)
  \/ \E q \in Requests :
       \/ \E c \in Credentials : Authenticate(q, c)
       \/ OperatorAsks(q) \/ Refuse(q)
       \/ OfMembers(q) \/ OfConnections(q) \/ OfCredentials(q)

TenancySpec == TenancyInit /\ [][TenancyNext]_tenancyVars

-----------------------------------------------------------------------------
\* Owners demote and deactivate each other, in any order and at the same time,
\* and somebody active still owns the organization (crm/service.ts:756-764).
AlwaysAnOwner == ActiveOwners # {}

Promotes(m) ==
  \/ membership[m].role = "owner"
  \/ membership'[m].role \in {"owner", "admin"} \ {membership[m].role}

\* "A queued request must not use a membership/credential that was revoked while
\* it waited" (crm/service.ts:55-56): whoever changes a member is an active owner
\* or administrator with a live credential when the change is made, and only an
\* owner makes owners and administrators.
MembersChangeInOffice ==
  [][\A m \in Members : membership'[m] # membership[m] =>
       \E q \in Requests :
         /\ request[q] # Nobody /\ request'[q] = Nobody
         /\ \/ ByOperator(q)
            \/ LET c == request[q].by IN
                 /\ c \in Credentials /\ credential[c].state = "live" /\ InOffice(c)
                 /\ RoleOf(c) \in {"owner", "admin"}
                 /\ Promotes(m) => RoleOf(c) = "owner"]_tenancyVars
=============================================================================
