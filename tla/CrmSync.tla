------------------------------- MODULE CrmSync -------------------------------
(***************************************************************************)
(* CRM records edited from two sides: members, under the version they read *)
(* (src/crm/service.ts, repository.ts), and external systems, through the  *)
(* mapping of their ids and the times of their observations               *)
(* (src/events/intake.ts, src/integrations/inbound.ts) or through the older *)
(* version 1 events (src/workforce/events/service.ts, crm/projector.ts).    *)
(*                                                                          *)
(* Every write is one transaction under the organization's lock and one    *)
(* action.  External observations arrive late, twice and out of order; a   *)
(* delivery id that was seen before is answered from its receipt, and here *)
(* is a delivery that changes nothing.  Time is counted in ticks; 0 is     *)
(* NULL.  A record stands for its data by what the rules look at.           *)
(***************************************************************************)
EXTENDS Naturals, FiniteSetsExt

CONSTANTS Contacts,       \* contact records that may be created
          Opportunities,  \* opportunity records that may be created
          Connections,    \* external connections of the organization
          ExternalIds,    \* external ids per connection and type
          Members,        \* people with an edit form open
          NoRecord,
          MaxTime,        \* bound: the clock
          MaxWrites,      \* bound: versions of all records together
          MaxSkew         \* how far in the future an observation may lie (5 min)

ASSUME ConstantsAssumption ==
    /\ Contacts \cap Opportunities = {}
    /\ NoRecord \notin Contacts \cup Opportunities
    /\ "native" \notin Connections /\ "optOut" \notin Connections
    /\ ExternalIds \in Nat \ {0} /\ MaxSkew \in Nat
    /\ MaxTime \in Nat \ {0} /\ MaxWrites \in Nat

VARIABLES
    row,       \* the records
    mapping,   \* the ExternalRecordMapping rows by external id
    imported,  \* ids in the legacy source and externalId columns
    form,      \* what each member read of a record
    now,
    muddled    \* records whose mappings changed, or that ignored a version 1 event

vars == <<row, mapping, imported, form, now, muddled>>

Records == Contacts \cup Opportunities
Writers == Connections \cup {"native", "optOut"}
\* An id of one of a connection's record types: version 1 calls a contact
\* "customer", a notification "contact", and version 2 by any name, so that every
\* path may meet every id.
Ids == [connection : Connections, type : {"contact", "opportunity"}, n : 1..ExternalIds]
Time == 0..MaxTime

\* updated is CrmRecord.updatedAt, source the row's sourceOccurredAt and
\* publishers the connections with an event of the current version.  Who
\* wrote last, and when a member last corrected the record, is only observed.
Rows == [status : {"none", "active", "archived"}, version : 0..MaxWrites,
         updated : Time, source : 0..(MaxTime + MaxSkew),
         contact : Contacts \cup {NoRecord}, doNotContact : BOOLEAN,
         publishers : SUBSET Connections, writer : Writers, corrected : Time]
NoRow == [status |-> "none", version |-> 0, updated |-> 0, source |-> 0,
          contact |-> NoRecord, doNotContact |-> FALSE, publishers |-> {},
          writer |-> "native", corrected |-> 0]

Mappings == [record : Records \cup {NoRecord}, watermark : 0..(MaxTime + MaxSkew)]
NoMapping == [record |-> NoRecord, watermark |-> 0]

\* What a member has before them: the version, and of the data who wrote it
\* and whether the contact may be written to.
Forms == [record : Records \cup {NoRecord}, version : 0..MaxWrites,
          writer : Writers, doNotContact : BOOLEAN]
Form(r, data) == [record |-> r, version |-> data.version, writer |-> data.writer,
                  doNotContact |-> data.doNotContact]
NoForm == Form(NoRecord, NoRow)

TypeOK ==
    /\ row \in [Records -> Rows]
    /\ mapping \in [Ids -> Mappings]
    /\ imported \subseteq Ids
    /\ form \in [Members -> Forms]
    /\ now \in 1..MaxTime
    /\ muddled \subseteq Records

Init ==
    /\ row = [r \in Records |-> NoRow]
    /\ mapping = [e \in Ids |-> NoMapping]
    /\ imported = {}
    /\ form = [m \in Members |-> NoForm]
    /\ now = 1
    /\ muddled = {}

------------------------------------------------------------------------------
(* Rows.  The rules look at rows and mappings together: a database is a     *)
(* record of the two, and a write that is refused leads to no database.     *)

Database == [row |-> row, mapping |-> mapping]

Kind(type) == IF type = "contact" THEN Contacts ELSE Opportunities

Mapped(db, e) == db.mapping[e].record # NoRecord

MappedRow(db, e) == db.row[db.mapping[e].record]

\* validateRelations: an opportunity's customer is an active contact; update
\* does not admit another one.
Relates(db, type, c) ==
    IF type = "contact" THEN c = NoRecord
    ELSE c \in Contacts /\ db.row[c].status = "active"

\* updateRecord's consent guard.
ConsentKept(old, doNotContact) == old.doNotContact => doNotContact

\* crm_sync_record: any update of an entity's row makes a new version.
Bump(old, n) ==
    [old EXCEPT !.version = @ + n, !.updated = now, !.publishers = {}]

Room(db, n) == MapThenSumSet(LAMBDA r : db.row[r].version, Records) + n <= MaxWrites

\* recordChange publishes the version it finds after the write.
\* Mutant: it publishes the version that was read before the write.
PublishedBefore(new, c) == new

Published(new, c) == [new EXCEPT !.publishers = @ \cup {c}]

Corrected(old, doNotContact) ==
    [Bump(old, 1) EXCEPT !.source = now, !.doNotContact = doNotContact,
                         !.writer = "native", !.corrected = now]

Observed(old, e, t, doNotContact) ==
    Published([Bump(old, 1) EXCEPT !.source = t, !.doNotContact = doNotContact,
                                   !.writer = e.connection],
              e.connection)

Free(db, type) ==
    {r \in Kind(type) : db.row[r].status = "none" /\ Room(db, 1)}

Created(c, doNotContact, source, w) ==
    [NoRow EXCEPT !.status = "active", !.version = 1, !.updated = now,
                  !.contact = c, !.doNotContact = doNotContact, !.source = source,
                  !.writer = w]

Put(db, r, new) == [db EXCEPT !.row[r] = new]

Watermark(db, e, r, t) ==
    [db EXCEPT !.mapping[e] = [record |-> r, watermark |-> t]]

------------------------------------------------------------------------------
(* Version 2 observations.                                                  *)

\* Mutant: the barrier for corrections is missing.
StaleByWatermark(db, e, t) == db.mapping[e].watermark >= t

\* An observation is stale when its id has shown a newer one, or when the
\* record was written since and this connection did not publish that version.
Stale(db, e, t) ==
    \/ db.mapping[e].watermark >= t
    \/ /\ MappedRow(db, e).updated > t
       /\ e.connection \notin MappedRow(db, e).publishers

\* ingestExternal of a creation: a mapped id is acknowledged and ignored.
IngestCreated(db, e, t, c, doNotContact) ==
    IF Mapped(db, e) THEN {db}
    ELSE {Watermark(Put(db, r, Published(Created(c, doNotContact, 0, e.connection),
                                         e.connection)), e, r, t) :
             r \in {r \in Free(db, e.type) : Relates(db, e.type, c)}}

\* ingestExternal of an update: refused without a mapping, ignored when the
\* record is archived or the observation stale, projected otherwise.
IngestUpdated(db, e, t, c, doNotContact) ==
    LET r == db.mapping[e].record
        old == MappedRow(db, e) IN
    CASE ~Mapped(db, e) -> {}
      [] Mapped(db, e) /\ (old.status = "archived" \/ Stale(db, e, t)) -> {db}
      [] OTHER -> IF /\ ConsentKept(old, doNotContact)
                     /\ c = old.contact /\ Relates(db, e.type, c)
                     /\ Room(db, 1)
                  THEN {Watermark(Put(db, r, Observed(old, e, t, doNotContact)), e, r, t)}
                  ELSE {}

\* receive's upsert of one section, under the type its mapping implies; a
\* record that is archived refuses the whole notification.
Section(db, e, t, c, doNotContact) ==
    IF Mapped(db, e)
    THEN IF MappedRow(db, e).status = "archived" THEN {}
         ELSE IngestUpdated(db, e, t, c, doNotContact)
    ELSE IngestCreated(db, e, t, c, doNotContact)

Commit(db) ==
    /\ row' = db.row
    /\ mapping' = db.mapping
    /\ UNCHANGED <<imported, form, now, muddled>>

ObservedAt == 1..(now + MaxSkew)
Flags(type) == IF type = "contact" THEN BOOLEAN ELSE {FALSE}

IngestExternal(e, t) ==
    \E doNotContact \in Flags(e.type), c \in Contacts \cup {NoRecord} :
        \E db \in IngestCreated(Database, e, t, c, doNotContact)
                  \cup IngestUpdated(Database, e, t, c, doNotContact) :
            Commit(db)

\* One notification with a contact and its opportunity, all or nothing.
Receive(e, f, t) ==
    /\ e.type = "contact" /\ f.type = "opportunity" /\ e.connection = f.connection
    /\ \E doNotContact \in BOOLEAN :
          \E db \in Section(Database, e, t, NoRecord, doNotContact) :
             \E final \in Section(db, f, t, db.mapping[e].record, FALSE) : Commit(final)

------------------------------------------------------------------------------
(* Version 1 events.                                                        *)

Behind(e, t) ==
    LET old == MappedRow(Database, e) IN
    \/ old.status = "archived"
    \/ mapping[e].watermark >= t
    \/ old.source >= t

\* projectCrm of a known id: the order is that of sourceOccurredAt, and an
\* opt-out is kept.
LegacyUpdates(e, t) ==
    /\ Mapped(Database, e) /\ ~Behind(e, t)
    /\ LET r == mapping[e].record
           old == row[r] IN
       /\ Room(Database, 1)
       /\ e.type = "opportunity" =>
             /\ row[old.contact].status = "active"
             /\ \E f \in Ids : f.connection = e.connection /\ mapping[f].record = old.contact
       /\ \E flag \in Flags(e.type) :
             Commit(Watermark(Put(Database, r,
                        Observed(old, e, t, old.doNotContact \/ flag)), e, r, t))

\* A first event of an id; its legacy columns are unique for ever.
LegacyCreates(e, t) ==
    /\ ~Mapped(Database, e) /\ e \notin imported
    /\ imported' = imported \cup {e}
    /\ \E r \in Free(Database, e.type), flag \in Flags(e.type), c \in Contacts \cup {NoRecord} :
          /\ Relates(Database, e.type, c)
          /\ e.type = "opportunity" =>
                \E f \in Ids : f.connection = e.connection /\ mapping[f].record = c
          /\ LET db == Watermark(Put(Database, r,
                          Published(Created(c, flag, t, e.connection), e.connection)), e, r, t) IN
             row' = db.row /\ mapping' = db.mapping
    /\ UNCHANGED <<form, now, muddled>>

\* An event that is behind changes no record; ingestEvent publishes it all the
\* same, with the connection and the version the record has now.
LegacyIgnored(e, t) ==
    /\ Mapped(Database, e) /\ Behind(e, t)
    /\ LET r == mapping[e].record IN
       /\ row' = [row EXCEPT ![r] = Published(@, e.connection)]
       /\ muddled' = muddled \cup {r}
    /\ UNCHANGED <<mapping, imported, form, now>>

------------------------------------------------------------------------------
(* Members, agents and opt-outs.                                            *)

\* create: nothing says when the record was observed.
CreateNative(r, c, doNotContact) ==
    LET type == IF r \in Contacts THEN "contact" ELSE "opportunity" IN
    /\ r \in Free(Database, type)
    /\ Relates(Database, type, c)
    /\ doNotContact \in Flags(type)
    /\ row' = [row EXCEPT ![r] = Created(c, doNotContact, 0, "native")]
    /\ UNCHANGED <<mapping, imported, form, now, muddled>>

Opens(m, r) ==
    /\ row[r].status = "active"
    /\ form[m].record = NoRecord
    /\ form' = [form EXCEPT ![m] = Form(r, row[r])]
    /\ UNCHANGED <<row, mapping, imported, now, muddled>>

Expected(m) ==
    /\ row[form[m].record].status = "active"
    /\ row[form[m].record].version = form[m].version

Closes(m) == form' = [form EXCEPT ![m] = NoForm]

\* update: 409 for another version, or for clearing doNotContact.
Save(m, doNotContact) ==
    /\ form[m].record # NoRecord
    /\ Expected(m)
    /\ LET r == form[m].record IN
       /\ doNotContact \in Flags(IF r \in Contacts THEN "contact" ELSE "opportunity")
       /\ ConsentKept(row[r], doNotContact)
       /\ r \in Opportunities => row[row[r].contact].status = "active"
       /\ Room(Database, 1)
       /\ row' = [row EXCEPT ![r] = Corrected(@, doNotContact)]
    /\ Closes(m)
    /\ UNCHANGED <<mapping, imported, now, muddled>>

Refused(m) ==
    /\ form[m].record # NoRecord
    /\ ~Expected(m)
    /\ Closes(m)
    /\ UNCHANGED <<row, mapping, imported, now, muddled>>

\* applyAgentMutation: under the version the same transaction read.
AgentMoves(r) ==
    /\ r \in Opportunities /\ row[r].status = "active"
    /\ row[row[r].contact].status = "active"
    /\ Room(Database, 1)
    /\ row' = [row EXCEPT ![r] = Corrected(@, FALSE)]
    /\ UNCHANGED <<mapping, imported, form, now, muddled>>

NoDependents(r) ==
    \A o \in Opportunities : ~(row[o].status = "active" /\ row[o].contact = r)

Archive(m) ==
    /\ form[m].record # NoRecord
    /\ Expected(m)
    /\ LET r == form[m].record IN
       /\ NoDependents(r)
       /\ Room(Database, 1)
       /\ row' = [row EXCEPT ![r] = [Bump(@, 1) EXCEPT !.status = "archived",
                                                       !.writer = "native"]]
    /\ Closes(m)
    /\ UNCHANGED <<mapping, imported, now, muddled>>

\* suppress and the recovery handler, in two updates, and the recovery tool.
OptOut(r) ==
    /\ r \in Contacts /\ row[r].status # "none"
    /\ \E n \in 1..2 :
          /\ Room(Database, n)
          /\ row' = [row EXCEPT ![r] = [Bump(@, n) EXCEPT !.doNotContact = TRUE,
                                                          !.writer = "optOut"]]
    /\ UNCHANGED <<mapping, imported, form, now, muddled>>

\* mapExternal: any number of ids may name one record.
MapExternal(e, r) ==
    /\ ~Mapped(Database, e)
    /\ r \in Kind(e.type) /\ row[r].status = "active"
    /\ mapping' = [mapping EXCEPT ![e] = [record |-> r, watermark |-> 0]]
    /\ muddled' = IF \E f \in Ids : f.connection = e.connection /\ mapping[f].record = r
                  THEN muddled \cup {r} ELSE muddled
    /\ UNCHANGED <<row, imported, form, now>>

UnmapExternal(e) ==
    /\ Mapped(Database, e)
    /\ mapping' = [mapping EXCEPT ![e] = NoMapping]
    /\ muddled' = muddled \cup {mapping[e].record}
    /\ UNCHANGED <<row, imported, form, now>>

Tick ==
    /\ now < MaxTime
    /\ now' = now + 1
    /\ UNCHANGED <<row, mapping, imported, form, muddled>>

------------------------------------------------------------------------------
External ==
    \/ \E e \in Ids, t \in ObservedAt :
          IngestExternal(e, t) \/ LegacyUpdates(e, t) \/ LegacyCreates(e, t) \/ LegacyIgnored(e, t)
    \/ \E e, f \in Ids, t \in ObservedAt : Receive(e, f, t)

Native ==
    \/ \E r \in Records, c \in Contacts \cup {NoRecord}, flag \in BOOLEAN : CreateNative(r, c, flag)
    \/ \E m \in Members, r \in Records : Opens(m, r)
    \/ \E m \in Members, flag \in BOOLEAN : Save(m, flag)
    \/ \E m \in Members : Refused(m) \/ Archive(m)
    \/ \E r \in Records : AgentMoves(r) \/ OptOut(r)
    \/ \E e \in Ids, r \in Records : MapExternal(e, r)
    \/ \E e \in Ids : UnmapExternal(e)

Next == External \/ Native \/ Tick

Spec == Init /\ [][Next]_vars

------------------------------------------------------------------------------
(* Properties.                                                              *)

\* A connection wrote r in this step, as of row'[r].source.
Overwrites(r) ==
    /\ row[r].status = "active"
    /\ row'[r].version # row[r].version
    /\ row'[r].writer \in Connections

\* docs/CRM_VERIFICATION.md: "stale remote delivery cannot overwrite a
\* subsequent native correction".  It can not as long as the record's ids
\* stay the same and no version 1 event of it was ignored.
CorrectionsStand ==
    [][\A r \in Records \ muddled :
          Overwrites(r) => row'[r].source >= row[r].corrected]_vars

\* The same without the reservation (intake.ts:311-324): a version 1 event that
\* was ignored leaves an event of the version the member made.
NativeEditsProtected ==
    [][\A r \in Records : Overwrites(r) => row'[r].source >= row[r].corrected]_vars

\* docs/EVENT_ARCHITECTURE.md: "a delayed but newer source update can apply":
\* what a connection reports of a record is not taken for stale because the
\* connection itself wrote the record since, by whatever path and protocol.
DelayedNewsLands ==
    \A e \in Ids, t \in 1..MaxTime :
        (Mapped(Database, e) /\ Stale(Database, e, t)) =>
            \/ mapping[e].watermark >= t
            \/ MappedRow(Database, e).writer # e.connection

\* Once a contact has opted out no member, agent, connection or older event
\* undoes it.
OptOutStays ==
    [][\A r \in Records : row[r].doNotContact => row'[r].doNotContact]_vars

\* A save replaces only what the member saw: neither another write, nor an
\* opt-out that went past the service, is lost under an open form.
SavesSeeWhatTheyReplace ==
    [][\A m \in Members :
          LET r == form[m].record IN
          (r # NoRecord /\ form'[m] = NoForm /\ row' # row) => form[m] = Form(r, row[r])]_vars

\* Whatever creates, imports and archives race, an active opportunity belongs
\* to an active contact.
ActiveContacts ==
    \A o \in Opportunities :
        row[o].status = "active" => row[row[o].contact].status = "active"
==============================================================================
