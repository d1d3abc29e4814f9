------------------------------- MODULE Knowledge -------------------------------
(***************************************************************************)
(* Business knowledge (knowledge/service.ts, repository.ts, retrieval.ts): *)
(* members save, review and withdraw entries, sources and documents, and   *)
(* the automation says only what is current.                               *)
(*                                                                         *)
(* Every operation is a transaction under the lock of the organization;    *)
(* what a member sends was read from a page before, and what an agent      *)
(* proposes was decided on the knowledge of an earlier moment.             *)
(***************************************************************************)
EXTENDS Integers, FiniteSets, Sequences

CONSTANTS
  Sources,        \* KnowledgeSource rows an organization may have (100)
  Documents,      \* documents, by the hash of their content (500)
  SourceOf,       \* the source of each document
  Entries,        \* KnowledgeEntry rows (5000)
  Provenance,     \* [source, documents (a set of at most one)] of each entry
  Readers,        \* members who review and edit
  MaxRevision     \* a bound on Organization.knowledgeRevision

ASSUME KnowledgeAssumption ==
  /\ Provenance \in [Entries -> [source : Sources, documents : SUBSET Documents]]
  /\ SourceOf \in [Documents -> Sources]
  /\ MaxRevision \in Nat

VARIABLES
  shelf,      \* sources and documents: [active, revision], revision 0 without a row
  entry,      \* [latest, approved (0 is null), active, revision]
  version,    \* the risk of each version of an entry: "general" or "restricted"
  revision,   \* Organization.knowledgeRevision
  screen,     \* what each member has read, and at which revision
  decision,   \* an agent's decision: the revision it was made at and what it saw
  gone        \* history: the revision at which an entry was last withdrawn

knowledgeVars == <<shelf, entry, version, revision, screen, decision, gone>>

Shelved == Sources \union Documents
Absent == [active |-> FALSE, revision |-> 0]
NoEntry == [latest |-> 0, approved |-> 0, active |-> FALSE, revision |-> 0]
NoScreen == [at |-> 0, shelf |-> [x \in Shelved |-> 0], entry |-> [e \in Entries |-> NoEntry]]
NoDecision == [at |-> -1, said |-> {}]

KnowledgeInit ==
  /\ shelf = [x \in Shelved |-> Absent] /\ entry = [e \in Entries |-> NoEntry]
  /\ version = [e \in Entries |-> <<>>] /\ revision = 0
  /\ screen = [m \in Readers |-> NoScreen] /\ decision = NoDecision
  /\ gone = [e \in Entries |-> 0]

EntryRows == [latest : Nat, approved : Nat, active : BOOLEAN, revision : Nat]
KnowledgeTypeOK ==
  /\ shelf \in [Shelved -> [active : BOOLEAN, revision : Nat]]
  /\ entry \in [Entries -> EntryRows]
  /\ version \in [Entries -> Seq({"general", "restricted"})]
  /\ \A e \in Entries : entry[e].latest = Len(version[e]) /\ entry[e].approved <= entry[e].latest
  /\ revision \in 0 .. MaxRevision /\ gone \in [Entries -> 0 .. MaxRevision]
  /\ screen \in [Readers -> [at : 0 .. MaxRevision, shelf : [Shelved -> Nat],
                            entry : [Entries -> EntryRows]]]
  /\ decision.at \in -1 .. MaxRevision

-----------------------------------------------------------------------------
\* What may be said: repository.ts current, retrieval.ts currentPublicClaim.

Current(e, n) ==
  /\ entry[e].active /\ entry[e].approved = n /\ n = entry[e].latest
  /\ shelf[Provenance[e].source].active
  /\ \A d \in Provenance[e].documents : shelf[d].active

\* Answered or offered by retrieval, whatever its risk.
Retrieved == {e \in Entries : entry[e].approved > 0 /\ Current(e, entry[e].approved)}

\* What an automatic message may claim, with its exact text.
Sayable ==
  {<<e, entry[e].approved>> : e \in {f \in Retrieved : version[f][entry[f].approved] = "general"}}

\* knowledgeChanged, in the transaction of every change.
Record ==
  /\ revision < MaxRevision /\ revision' = revision + 1
  /\ gone' = [e \in Entries |-> IF e \in Retrieved /\ e \notin Retrieved' THEN revision + 1 ELSE gone[e]]

-----------------------------------------------------------------------------
\* Members.

Read(m) ==
  /\ screen' = [screen EXCEPT ![m] =
       [at |-> revision, shelf |-> [x \in Shelved |-> shelf[x].revision], entry |-> entry]]
  /\ UNCHANGED <<shelf, entry, version, revision, decision, gone>>

AddSource(s) ==
  /\ shelf[s].revision = 0
  /\ shelf' = [shelf EXCEPT ![s] = [active |-> TRUE, revision |-> 1]]
  /\ UNCHANGED <<entry, version, screen, decision>> /\ Record

\* The same content of the same source gives the row that is there.
AddDocument(d) ==
  /\ shelf[d].revision = 0 /\ shelf[SourceOf[d]].revision > 0
  /\ shelf' = [shelf EXCEPT ![d] = [active |-> TRUE, revision |-> 1]]
  /\ UNCHANGED <<entry, version, screen, decision>> /\ Record

\* A new entry, or a new version of the one on the screen.
SaveEntry(m, e, risk) ==
  /\ \A x \in Provenance[e].documents \union {Provenance[e].source} : shelf[x].revision > 0
  /\ entry[e].revision = 0 \/ entry[e].revision = screen[m].entry[e].revision
  /\ entry' = [entry EXCEPT ![e] =
       [latest |-> @.latest + 1, approved |-> 0, active |-> FALSE, revision |-> @.revision + 1]]
  /\ version' = [version EXCEPT ![e] = Append(@, risk)]
  /\ UNCHANGED <<shelf, screen, decision>> /\ Record

\* Mutant: the reviewed version only has to be the latest one.
SameVersionOnly(m, e) == TRUE

SameRevision(m, e) == entry[e].revision = screen[m].entry[e].revision

\* The version on the screen is approved if it is still the latest.
Approve(m, e) ==
  LET n == screen[m].entry[e].latest
  IN /\ n > 0 /\ SameRevision(m, e) /\ n = entry[e].latest
     /\ \A x \in Provenance[e].documents \union {Provenance[e].source} : shelf[x].active
     /\ entry' = [entry EXCEPT ![e].active = TRUE, ![e].approved = n, ![e].revision = @ + 1]
     /\ UNCHANGED <<shelf, version, screen, decision>> /\ Record

ToggleShelf(m, x, active) ==
  /\ shelf[x].revision > 0 /\ shelf[x].revision = screen[m].shelf[x]
  /\ shelf' = [shelf EXCEPT ![x] = [active |-> active, revision |-> @.revision + 1]]
  /\ UNCHANGED <<entry, version, screen, decision>> /\ Record

ToggleEntry(m, e, active) ==
  /\ entry[e].revision > 0 /\ entry[e].revision = screen[m].entry[e].revision
  /\ active => entry[e].approved > 0
  /\ entry' = [entry EXCEPT ![e].active = active, ![e].revision = @ + 1]
  /\ UNCHANGED <<shelf, version, screen, decision>> /\ Record

-----------------------------------------------------------------------------
\* An agent decides on what it retrieved (agents/context.ts: the revision is
\* part of the fingerprint) and its decision is carried out later.

Decide ==
  /\ decision' = [at |-> revision, said |-> Sayable]
  /\ UNCHANGED <<shelf, entry, version, revision, screen, gone>>

CarryOut ==
  /\ decision.at = revision
  /\ decision' = NoDecision
  /\ UNCHANGED <<shelf, entry, version, revision, screen, gone>>

KnowledgeNext ==
  \/ \E m \in Readers :
       \/ Read(m)
       \/ \E e \in Entries :
            \/ Approve(m, e)
            \/ \E risk \in {"general", "restricted"} : SaveEntry(m, e, risk)
            \/ \E active \in BOOLEAN : ToggleEntry(m, e, active)
       \/ \E x \in Shelved, active \in BOOLEAN : ToggleShelf(m, x, active)
  \/ \E s \in Sources : AddSource(s)
  \/ \E d \in Documents : AddDocument(d)
  \/ Decide \/ CarryOut

KnowledgeSpec == KnowledgeInit /\ [][KnowledgeNext]_knowledgeVars

-----------------------------------------------------------------------------
\* A member approves, or switches on or off, what is on the screen.
Reviews(m) ==
  \/ \E e \in Entries : Approve(m, e) \/ \E active \in BOOLEAN : ToggleEntry(m, e, active)
  \/ \E x \in Shelved, active \in BOOLEAN : ToggleShelf(m, x, active)

\* What was withdrawn, by an edit or by switching off the entry, its document
\* or its source, is said again only by the act of a member who read the page
\* after that (service.ts:157, 223, 255); and a decision is carried out only
\* with the knowledge it was made with (service.ts:20-33, context.ts:130-140).
WithdrawnStaysOut ==
  [][/\ \A e \in Retrieved' \ Retrieved : \E m \in Readers : Reviews(m) /\ screen[m].at >= gone[e]
     /\ decision.at >= 0 /\ decision' = NoDecision => decision.said = Sayable]_knowledgeVars
=============================================================================
