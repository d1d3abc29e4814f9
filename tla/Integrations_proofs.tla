------------------------- MODULE Integrations_proofs -------------------------
(***************************************************************************)
(* Proofs about what other systems tell and are told: CrmSync, the records *)
(* that external observations and members write, and Outbox, the webhook   *)
(* deliveries that leave.                                                  *)
(*                                                                         *)
(* CrmSync.  The connection that wrote a record last is among those that   *)
(* published its version.  Unless ids of the record changed, a connection  *)
(* has one id for it, and that id's watermark is not before the member's   *)
(* last correction; so neither is an observation that gets past it.        *)
(*                                                                         *)
(* Outbox.  A row that is running has the number of its last attempt as    *)
(* its token, and the journal has no entry for that attempt: only the      *)
(* worker with this very number writes one, and takes the row out of       *)
(* running when it does.  A prepare only writes about the attempt before.  *)
(***************************************************************************)
EXTENDS CrmSync, Outbox, FiniteSetTheorems, TLAPS

-----------------------------------------------------------------------------
(* CRM records: what a row, its mappings and the open forms say fits.      *)

CrmRows == [status : {"none", "active", "archived"}, version : Nat, updated : Nat, source : Nat,
            contact : Contacts \cup {NoRecord}, doNotContact : BOOLEAN,
            publishers : SUBSET Connections, writer : Writers, corrected : Nat]
CrmMaps == [record : Records \cup {NoRecord}, watermark : Nat]
CrmForms == [record : Records \cup {NoRecord}, version : Nat, writer : Writers, doNotContact : BOOLEAN]
Databases == [row : [Records -> CrmRows], mapping : [Ids -> CrmMaps]]

\* The connection that wrote last published what it wrote, and unless an id of
\* the record changed, no data of it is older than the last correction.
RowSound(x, r) ==
    /\ x.corrected <= x.updated /\ x.updated <= now
    /\ x.writer \in Connections => x.writer \in x.publishers
    /\ r \notin muddled => x.corrected <= x.source
    /\ r \in Opportunities \/ x.status = "none" => ~x.doNotContact
    /\ x.status = "none" => x.version = 0

MapSound(db, e) ==
    LET r == db.mapping[e].record IN
    r # NoRecord => r \in Kind(e.type) /\ db.row[r].status # "none"

\* Each publisher of the current version has one id for the record, and that
\* id has shown it since the last correction.
PubSound(db, r) ==
    /\ \A c \in db.row[r].publishers : \E e \in Ids : e.connection = c /\ db.mapping[e].record = r
    /\ \A e \in Ids :
          db.mapping[e].record = r /\ e.connection \in db.row[r].publishers =>
              db.row[r].corrected <= db.mapping[e].watermark
    /\ \A e, f \in Ids :
          db.mapping[e].record = r /\ db.mapping[f].record = r /\ e.connection = f.connection => e = f

ContactSound(db, o) ==
    db.row[o].status = "active" =>
        db.row[o].contact \in Contacts /\ db.row[db.row[o].contact].status = "active"

Sound(db) ==
    /\ db \in Databases
    /\ \A r \in Records : RowSound(db.row[r], r)
    /\ \A e \in Ids : MapSound(db, e)
    /\ \A r \in Records \ muddled : PubSound(db, r)
    /\ \A o \in Opportunities : ContactSound(db, o)

\* A form shows the record as it is, or the version has gone on.
FormSound(m) ==
    LET r == form[m].record IN
    r # NoRecord =>
        /\ row[r].status # "none" /\ form[m].version <= row[r].version
        /\ form[m].version = row[r].version => form[m] = Form(r, row[r])

CrmInv ==
    /\ now \in Nat
    /\ Sound(Database)
    /\ form \in [Members -> CrmForms]
    /\ \A m \in Members : FormSound(m)

\* What any write keeps of a record.
Evolves(x, y, r) ==
    /\ x.status # "none" => y.status # "none"
    /\ \/ x.version < y.version
       \/ y.version = x.version /\ y.writer = x.writer /\ y.doNotContact = x.doNotContact
    /\ x.doNotContact => y.doNotContact
    /\ r \notin muddled /\ x.status = "active" /\ y.version # x.version /\ y.writer \in Connections =>
          x.corrected <= y.source

\* What a row must be to be written where the database has a record.
Fits(db, r, new) ==
    /\ new \in CrmRows /\ new.status # "none" /\ RowSound(new, r)
    /\ r \in Opportunities /\ new.status = "active" =>
          new.contact \in Contacts /\ db.row[new.contact].status = "active"
    /\ r \in Contacts /\ new.status # "active" =>
          \A o \in Opportunities : ~(db.row[o].status = "active" /\ db.row[o].contact = r)

LEMMA KindsApart ==
    /\ Contacts \subseteq Records /\ Opportunities \subseteq Records
    /\ \A r \in Records : r \in Contacts <=> r \notin Opportunities
    /\ NoRecord \notin Records
    /\ \A e \in Ids : Kind(e.type) \subseteq Records /\ e.connection \in Connections
    /\ \A e \in Ids : \/ e.type = "contact" /\ Kind(e.type) = Contacts
                      \/ e.type = "opportunity" /\ Kind(e.type) = Opportunities
    /\ \A c \in Connections : c \in Writers /\ c # "native" /\ c # "optOut"
    /\ "native" \in Writers /\ "optOut" \in Writers
<1>1. /\ Contacts \subseteq Records /\ Opportunities \subseteq Records
      /\ \A r \in Records : r \in Contacts <=> r \notin Opportunities
      /\ NoRecord \notin Records
  BY ConstantsAssumption DEF Records
<1>2. \A e \in Ids : e.connection \in Connections /\ e.type \in {"contact", "opportunity"}
  BY DEF Ids
<1>3. Kind("contact") = Contacts /\ Kind("opportunity") = Opportunities
  BY DEF Kind
<1>4. /\ \A c \in Connections : c \in Writers /\ c # "native" /\ c # "optOut"
      /\ "native" \in Writers /\ "optOut" \in Writers
  BY ConstantsAssumption DEF Writers
<1>5. ASSUME NEW e \in Ids
      PROVE  \/ e.type = "contact" /\ Kind(e.type) = Contacts
             \/ e.type = "opportunity" /\ Kind(e.type) = Opportunities
  BY <1>2, <1>3
<1>6. \A e \in Ids : Kind(e.type) \subseteq Records /\ e.connection \in Connections
  BY <1>1, <1>2, <1>5
<1>7. \A e \in Ids : \/ e.type = "contact" /\ Kind(e.type) = Contacts
                     \/ e.type = "opportunity" /\ Kind(e.type) = Opportunities
  BY <1>5
<1>8. QED
  BY <1>1, <1>4, <1>6, <1>7

LEMMA BumpedRow ==
    ASSUME now \in Nat, NEW x \in CrmRows, NEW n \in Nat
    PROVE  /\ Bump(x, n) \in CrmRows /\ Bump(x, n).status = x.status /\ Bump(x, n).version = x.version + n
           /\ Bump(x, n).updated = now /\ Bump(x, n).publishers = {} /\ Bump(x, n).source = x.source
           /\ Bump(x, n).contact = x.contact /\ Bump(x, n).doNotContact = x.doNotContact
           /\ Bump(x, n).writer = x.writer /\ Bump(x, n).corrected = x.corrected
<1>1. x.version + n \in Nat
  BY DEF CrmRows
<1>2. QED
  BY <1>1 DEF Bump, CrmRows

LEMMA PublishedRow ==
    ASSUME NEW x \in CrmRows, NEW c \in Connections
    PROVE  /\ Published(x, c) \in CrmRows /\ Published(x, c).publishers = x.publishers \cup {c}
           /\ Published(x, c).status = x.status /\ Published(x, c).version = x.version
           /\ Published(x, c).updated = x.updated /\ Published(x, c).source = x.source
           /\ Published(x, c).contact = x.contact /\ Published(x, c).doNotContact = x.doNotContact
           /\ Published(x, c).writer = x.writer /\ Published(x, c).corrected = x.corrected
BY DEF Published, CrmRows

LEMMA CorrectedRow ==
    ASSUME now \in Nat, NEW x \in CrmRows, NEW flag \in BOOLEAN
    PROVE  \E new \in CrmRows :
              /\ new = Corrected(x, flag)
              /\ new.status = x.status /\ new.version = x.version + 1 /\ new.updated = now
              /\ new.source = now /\ new.contact = x.contact /\ new.doNotContact = flag
              /\ new.publishers = {} /\ new.writer = "native" /\ new.corrected = now
<1> DEFINE b == Bump(x, 1)
           new == [b EXCEPT !.source = now, !.doNotContact = flag, !.writer = "native", !.corrected = now]
<1>1. /\ b \in CrmRows /\ b.status = x.status /\ b.version = x.version + 1 /\ b.updated = now
      /\ b.publishers = {} /\ b.contact = x.contact
  BY BumpedRow
<1>2. Corrected(x, flag) = new
  BY DEF Corrected
<1> HIDE DEF b
<1>3. /\ new \in CrmRows
      /\ new.status = b.status /\ new.version = b.version /\ new.updated = b.updated
      /\ new.source = now /\ new.contact = b.contact /\ new.doNotContact = flag
      /\ new.publishers = b.publishers /\ new.writer = "native" /\ new.corrected = now
  BY <1>1, KindsApart DEF CrmRows
<1> HIDE DEF new
<1>4. QED
  BY <1>1, <1>2, <1>3

LEMMA ObservedRow ==
    ASSUME now \in Nat, NEW x \in CrmRows, NEW e \in Ids, NEW t \in Nat, NEW flag \in BOOLEAN
    PROVE  \E new \in CrmRows :
              /\ new = Observed(x, e, t, flag)
              /\ new.status = x.status /\ new.version = x.version + 1 /\ new.updated = now
              /\ new.source = t /\ new.contact = x.contact /\ new.doNotContact = flag
              /\ new.publishers = {e.connection} /\ new.writer = e.connection
              /\ new.corrected = x.corrected
<1> DEFINE b == Bump(x, 1)
           y == [b EXCEPT !.source = t, !.doNotContact = flag, !.writer = e.connection]
           new == Published(y, e.connection)
<1>1. /\ b \in CrmRows /\ b.status = x.status /\ b.version = x.version + 1 /\ b.updated = now
      /\ b.publishers = {} /\ b.contact = x.contact /\ b.corrected = x.corrected
  BY BumpedRow
<1>2. Observed(x, e, t, flag) = new
  BY DEF Observed
<1> HIDE DEF b
<1>3. /\ y \in CrmRows
      /\ y.status = b.status /\ y.version = b.version /\ y.updated = b.updated
      /\ y.source = t /\ y.contact = b.contact /\ y.doNotContact = flag
      /\ y.publishers = b.publishers /\ y.writer = e.connection /\ y.corrected = b.corrected
  BY <1>1, KindsApart DEF CrmRows
<1> HIDE DEF y
<1>4. e.connection \in Connections
  BY KindsApart
<1>5. QED
  BY <1>1, <1>2, <1>3, <1>4, PublishedRow

LEMMA CreatedRow ==
    ASSUME now \in Nat, NEW c \in Contacts \cup {NoRecord}, NEW flag \in BOOLEAN, NEW t \in Nat, NEW w \in Writers
    PROVE  \E new \in CrmRows :
              /\ new = Created(c, flag, t, w)
              /\ new.status = "active" /\ new.version = 1 /\ new.updated = now
              /\ new.source = t /\ new.contact = c /\ new.doNotContact = flag
              /\ new.publishers = {} /\ new.writer = w /\ new.corrected = 0
<1>1. NoRow \in CrmRows /\ NoRow.publishers = {} /\ NoRow.corrected = 0
  BY KindsApart DEF NoRow, CrmRows
<1> DEFINE new == [NoRow EXCEPT !.status = "active", !.version = 1, !.updated = now, !.contact = c,
                                !.doNotContact = flag, !.source = t, !.writer = w]
<1>2. /\ new \in CrmRows
      /\ new.status = "active" /\ new.version = 1 /\ new.updated = now
      /\ new.source = t /\ new.contact = c /\ new.doNotContact = flag
      /\ new.publishers = NoRow.publishers /\ new.writer = w /\ new.corrected = NoRow.corrected
  BY <1>1 DEF CrmRows
<1>3. new = Created(c, flag, t, w)
  BY DEF Created
<1> HIDE DEF new
<1>4. QED
  BY <1>1, <1>2, <1>3

\* The database after a write.
LEMMA Written ==
    ASSUME NEW db \in Databases, NEW r \in Records, NEW new \in CrmRows, NEW e \in Ids, NEW t \in Nat
    PROVE  /\ Watermark(Put(db, r, new), e, r, t) \in Databases
           /\ Watermark(Put(db, r, new), e, r, t).row = [db.row EXCEPT ![r] = new]
           /\ Watermark(Put(db, r, new), e, r, t).mapping =
                [db.mapping EXCEPT ![e] = [record |-> r, watermark |-> t]]
<1> DEFINE put == [db EXCEPT !.row[r] = new]
           shown == [record |-> r, watermark |-> t]
<1>1. shown \in CrmMaps
  BY DEF CrmMaps
<1> HIDE DEF shown
<1>2. put \in Databases /\ put.row = [db.row EXCEPT ![r] = new] /\ put.mapping = db.mapping
  BY DEF Databases
<1> HIDE DEF put
<1>3. LET final == [put EXCEPT !.mapping[e] = shown] IN
      final \in Databases /\ final.row = put.row /\ final.mapping = [put.mapping EXCEPT ![e] = shown]
  BY <1>1, <1>2 DEF Databases
<1>4. QED
  BY <1>2, <1>3 DEF Watermark, Put, put, shown

\* Whoever writes outside the connections ends the version they published.
LEMMA NativeWrite ==
    ASSUME Sound(Database), NEW r \in Records, NEW new, Fits(Database, r, new), new.publishers = {},
           NEW db \in Databases, db.row = [row EXCEPT ![r] = new], db.mapping = mapping
    PROVE  Sound(db)
<1>1. /\ new \in CrmRows /\ new.status # "none" /\ RowSound(new, r)
      /\ db.row[r] = new /\ \A o \in Records \ {r} : db.row[o] = row[o]
      /\ Database.row = row /\ Database.mapping = mapping
  BY DEF Fits, Sound, Databases, Database
<1>2. ASSUME NEW o \in Records PROVE RowSound(db.row[o], o)
  BY <1>1 DEF Sound
<1>3. ASSUME NEW e \in Ids PROVE MapSound(db, e)
  <2>1. MapSound(Database, e) /\ Kind(e.type) \subseteq Records
    BY KindsApart DEF Sound
  <2>2. QED
    BY <1>1, <2>1 DEF MapSound
<1>4. ASSUME NEW o \in Records \ muddled PROVE PubSound(db, o)
  BY <1>1 DEF Sound, PubSound
<1>5. ASSUME NEW o \in Opportunities PROVE ContactSound(db, o)
  BY <1>1, KindsApart DEF Sound, ContactSound, Fits
<1>6. QED
  BY <1>2, <1>3, <1>4, <1>5 DEF Sound

\* A connection that writes shows, by one of its ids, what it wrote.
LEMMA ExternalWrite ==
    ASSUME NEW old, Sound(old), NEW e \in Ids, NEW r \in Kind(e.type), NEW new, Fits(old, r, new),
           new.publishers = {e.connection}, NEW t \in Nat, r \notin muddled => new.corrected <= t,
           old.mapping[e].record = r \/ (old.mapping[e].record = NoRecord /\ old.row[r].status = "none"),
           NEW db \in Databases, db.row = [old.row EXCEPT ![r] = new],
           db.mapping = [old.mapping EXCEPT ![e] = [record |-> r, watermark |-> t]]
    PROVE  Sound(db)
<1>1. /\ new \in CrmRows /\ new.status # "none" /\ RowSound(new, r) /\ r \in Records
      /\ db.row[r] = new /\ \A o \in Records \ {r} : db.row[o] = old.row[o]
  BY KindsApart DEF Fits, Sound, Databases
<1>2. /\ db.mapping[e].record = r /\ db.mapping[e].watermark = t
      /\ \A f \in Ids \ {e} : db.mapping[f] = old.mapping[f]
  BY DEF Sound, Databases
<1>3. ASSUME NEW o \in Records PROVE RowSound(db.row[o], o)
  BY <1>1 DEF Sound
<1>4. ASSUME NEW f \in Ids PROVE MapSound(db, f)
  <2>1. MapSound(old, f) /\ Kind(f.type) \subseteq Records
    BY KindsApart DEF Sound
  <2>2. QED
    BY <1>1, <1>2, <2>1 DEF MapSound
<1>5. \A f \in Ids \ {e} : old.mapping[f].record = r => old.mapping[e].record = r
  BY KindsApart DEF Sound, MapSound
<1>6. ASSUME NEW o \in Records \ muddled PROVE PubSound(db, o)
  <2>1. CASE o = r
    <3>1. PubSound(old, r)
      BY <2>1 DEF Sound
    <3>2. \A f \in Ids : db.mapping[f].record = r /\ f.connection = e.connection => f = e
      BY <1>2, <1>5, <3>1 DEF PubSound
    <3>3. \A f, g \in Ids :
             db.mapping[f].record = r /\ db.mapping[g].record = r /\ f.connection = g.connection => f = g
      BY <1>2, <1>5, <3>1 DEF PubSound
    <3>4. QED
      BY <1>1, <1>2, <2>1, <3>2, <3>3 DEF PubSound
  <2>2. CASE o # r
    <3>1. PubSound(old, o) /\ db.row[o] = old.row[o]
      BY <1>1, <2>2 DEF Sound
    <3>2. \A f \in Ids : db.mapping[f].record = o <=> old.mapping[f].record = o
      BY <1>2, <2>2, KindsApart
    <3>3. \A f \in Ids : db.mapping[f].record = o => db.mapping[f] = old.mapping[f]
      BY <1>2, <2>2
    <3>4. QED
      BY <3>1, <3>2, <3>3 DEF PubSound
  <2>3. QED
    BY <2>1, <2>2
<1>7. ASSUME NEW o \in Opportunities PROVE ContactSound(db, o)
  BY <1>1, KindsApart DEF Sound, ContactSound, Fits
<1>8. QED
  BY <1>3, <1>4, <1>6, <1>7 DEF Sound

\* The records a database may differ in after a section of one kind.
Keeps(old, db, kind) ==
    \A o \in Records : Evolves(old.row[o], db.row[o], o) /\ (o \notin kind => db.row[o] = old.row[o])

LEMMA NothingEvolves ==
    ASSUME NEW x, NEW r PROVE Evolves(x, x, r)
BY DEF Evolves

LEMMA OneEvolves ==
    ASSUME NEW old \in Databases, NEW r \in Records, NEW new, NEW kind, r \in kind, Evolves(old.row[r], new, r),
           NEW db, db.row = [old.row EXCEPT ![r] = new]
    PROVE  Keeps(old, db, kind)
BY NothingEvolves DEF Keeps, Databases

\* Observing a new id makes a record of its kind.
LEMMA CreateSound ==
    ASSUME now \in Nat, NEW old, Sound(old), NEW e \in Ids, NEW t \in Nat, NEW source \in Nat,
           ~Mapped(old, e), NEW r \in Free(old, e.type), NEW c, Relates(old, e.type, c), NEW flag \in Flags(e.type),
           c \in Contacts \cup {NoRecord}
    PROVE  LET db == Watermark(Put(old, r, Published(Created(c, flag, source, e.connection), e.connection)), e, r, t)
           IN  Sound(db) /\ Keeps(old, db, Kind(e.type))
<1>1. /\ r \in Kind(e.type) /\ r \in Records /\ old.row[r].status = "none" /\ old.mapping[e].record = NoRecord
      /\ e.connection \in Connections /\ e.connection \in Writers
      /\ old \in Databases /\ old.row[r] \in CrmRows /\ RowSound(old.row[r], r) /\ flag \in BOOLEAN
  BY KindsApart DEF Free, Mapped, Sound, Databases, Flags
<1>2. PICK made \in CrmRows :
         /\ made = Created(c, flag, source, e.connection)
         /\ made.status = "active" /\ made.version = 1 /\ made.updated = now
         /\ made.source = source /\ made.contact = c /\ made.doNotContact = flag
         /\ made.publishers = {} /\ made.writer = e.connection /\ made.corrected = 0
  BY <1>1, CreatedRow
<1> DEFINE new == Published(made, e.connection)
           db == Watermark(Put(old, r, new), e, r, t)
<1>3. /\ new \in CrmRows /\ new.publishers = {e.connection} /\ new.status = "active" /\ new.version = 1
      /\ new.updated = now /\ new.source = source /\ new.contact = c /\ new.doNotContact = flag
      /\ new.writer = e.connection /\ new.corrected = 0
  BY <1>1, <1>2, PublishedRow
<1> HIDE DEF new
<1>4. /\ db \in Databases /\ db.row = [old.row EXCEPT ![r] = new]
      /\ db.mapping = [old.mapping EXCEPT ![e] = [record |-> r, watermark |-> t]]
  BY <1>1, <1>3, Written
<1> HIDE DEF db
<1>5. r \in Opportunities => ~flag /\ c \in Contacts /\ old.row[c].status = "active"
  BY <1>1, KindsApart DEF Flags, Relates
<1>6. RowSound(new, r)
  BY <1>3, <1>5 DEF RowSound
<1>7. Fits(old, r, new)
  BY <1>3, <1>5, <1>6 DEF Fits
<1>8. Sound(db)
  BY <1>1, <1>3, <1>4, <1>7, ExternalWrite
<1>9. Evolves(old.row[r], new, r)
  BY <1>1, <1>3 DEF Evolves, RowSound, CrmRows
<1>10. Keeps(old, db, Kind(e.type))
  BY <1>1, <1>4, <1>9, OneEvolves
<1>11. QED
  BY <1>2, <1>8, <1>10 DEF db, new

\* An observation that is newer than what its id has shown, and than the last
\* correction, is written over the record.
LEMMA ObserveSound ==
    ASSUME now \in Nat, NEW old, Sound(old), NEW e \in Ids, NEW t \in Nat, NEW flag \in BOOLEAN, Mapped(old, e),
           NEW r \in Records, old.mapping[e].record = r, old.row[r].status = "active",
           r \notin muddled => old.row[r].corrected <= t,
           old.row[r].doNotContact => flag, flag => e.type = "contact"
    PROVE  LET db == Watermark(Put(old, r, Observed(old.row[r], e, t, flag)), e, r, t)
           IN  Sound(db) /\ Keeps(old, db, Kind(e.type))
<1>1. /\ r \in Kind(e.type) /\ r \in Records /\ e.connection \in Connections /\ old \in Databases
      /\ old.row[r] \in CrmRows /\ RowSound(old.row[r], r)
  BY KindsApart DEF Mapped, Sound, MapSound, Databases
<1>2. PICK new \in CrmRows :
         /\ new = Observed(old.row[r], e, t, flag)
         /\ new.status = "active" /\ new.version = old.row[r].version + 1 /\ new.updated = now
         /\ new.source = t /\ new.contact = old.row[r].contact /\ new.doNotContact = flag
         /\ new.publishers = {e.connection} /\ new.writer = e.connection
         /\ new.corrected = old.row[r].corrected
  BY <1>1, ObservedRow
<1> DEFINE db == Watermark(Put(old, r, new), e, r, t)
<1>3. /\ db \in Databases /\ db.row = [old.row EXCEPT ![r] = new]
      /\ db.mapping = [old.mapping EXCEPT ![e] = [record |-> r, watermark |-> t]]
  <2>1. new \in CrmRows
    OBVIOUS
  <2>2. QED
    BY ONLY <1>1, <2>1, e \in Ids, t \in Nat, Written DEF db
<1>4. r \in Opportunities => ~flag
  BY <1>1, KindsApart
<1>14. /\ old.row[r].corrected \in Nat /\ old.row[r].updated \in Nat /\ old.row[r].version \in Nat
       /\ old.row[r].doNotContact \in BOOLEAN
  BY <1>1 DEF CrmRows
<1>5. RowSound(new, r)
  <2>1. new.corrected <= new.updated /\ new.updated <= now
    BY <1>1, <1>2, <1>14 DEF RowSound
  <2>2. r \notin muddled => new.corrected <= new.source
    BY <1>2
  <2>3. new.writer \in new.publishers /\ new.status # "none"
    BY <1>2
  <2>4. r \in Opportunities => ~new.doNotContact
    BY <1>2, <1>4
  <2>5. QED
    BY <2>1, <2>2, <2>3, <2>4 DEF RowSound
<1>6. r \in Opportunities => new.contact \in Contacts /\ old.row[new.contact].status = "active"
  BY <1>2 DEF Sound, ContactSound
<1>7. Fits(old, r, new)
  BY <1>2, <1>5, <1>6 DEF Fits
<1>8. r \notin muddled => new.corrected <= t
  BY <1>2
<1>9. old.mapping[e].record = r
  OBVIOUS
<1> HIDE DEF db
<1>10. Sound(db)
  <2>1. new \in CrmRows /\ new.publishers = {e.connection}
    BY <1>2
  <2>2. QED
    BY ONLY <1>1, <1>3, <1>7, <1>8, <1>9, <2>1, Sound(old), e \in Ids, t \in Nat, ExternalWrite
<1>11. Evolves(old.row[r], new, r)
  <2>1. old.row[r].version < new.version /\ new.status # "none"
    BY <1>2, <1>14
  <2>2. old.row[r].doNotContact => new.doNotContact
    BY <1>2
  <2>3. r \notin muddled => old.row[r].corrected <= new.source
    BY <1>2
  <2>4. QED
    BY <2>1, <2>2, <2>3 DEF Evolves
<1>12. Keeps(old, db, Kind(e.type))
  BY <1>1, <1>3, <1>11, OneEvolves
<1>13. QED
  BY <1>2, <1>10, <1>12 DEF db

\* An observation that is not stale is not older than the last correction: if
\* the connection published what the record says, its id has shown it.
LEMMA NotStale ==
    ASSUME NEW old, Sound(old), NEW e \in Ids, NEW t \in Nat, NEW r \in Records \ muddled,
           old.mapping[e].record = r, ~Stale(old, e, t)
    PROVE  old.row[r].corrected <= t
<1>1. old \in Databases /\ old.row[r] \in CrmRows /\ old.mapping[e] \in CrmMaps /\ RowSound(old.row[r], r) /\ PubSound(old, r)
  BY DEF Sound, Databases
<1>2. /\ old.row[r].corrected \in Nat /\ old.row[r].updated \in Nat /\ old.mapping[e].watermark \in Nat
  BY <1>1 DEF CrmRows, CrmMaps
<1>3. old.mapping[e].watermark < t
  BY <1>2 DEF Stale
<1>4. CASE e.connection \in old.row[r].publishers
  <2>1. old.row[r].corrected <= old.mapping[e].watermark
    BY <1>1, <1>4 DEF PubSound
  <2>2. QED
    BY <1>2, <1>3, <2>1
<1>5. CASE e.connection \notin old.row[r].publishers
  <2>1. old.row[r].updated <= t
    BY <1>2, <1>3, <1>5 DEF Stale, MappedRow
  <2>2. QED
    BY <1>1, <1>2, <2>1 DEF RowSound
<1>6. QED
  BY <1>4, <1>5

LEMMA KeepsNothing ==
    ASSUME NEW old, NEW kind PROVE Keeps(old, old, kind)
BY NothingEvolves DEF Keeps

LEMMA IngestCreatedSound ==
    ASSUME now \in Nat, NEW old, Sound(old), NEW e \in Ids, NEW t \in Nat, NEW c \in Contacts \cup {NoRecord},
           NEW flag \in Flags(e.type), NEW db \in IngestCreated(old, e, t, c, flag)
    PROVE  Sound(db) /\ Keeps(old, db, Kind(e.type))
<1>1. CASE Mapped(old, e)
  BY <1>1, KeepsNothing DEF IngestCreated
<1>2. CASE ~Mapped(old, e)
  <2>1. PICK r \in Free(old, e.type) :
          /\ Relates(old, e.type, c)
          /\ db = Watermark(Put(old, r, Published(Created(c, flag, 0, e.connection), e.connection)), e, r, t)
    BY <1>2 DEF IngestCreated
  <2>2. 0 \in Nat
    OBVIOUS
  <2>3. QED
    BY <1>2, <2>1, <2>2, CreateSound
<1>3. QED
  BY <1>1, <1>2

LEMMA IngestUpdatedSound ==
    ASSUME now \in Nat, NEW old, Sound(old), NEW e \in Ids, NEW t \in Nat, NEW c \in Contacts \cup {NoRecord},
           NEW flag \in Flags(e.type), NEW db \in IngestUpdated(old, e, t, c, flag)
    PROVE  Sound(db) /\ Keeps(old, db, Kind(e.type))
<1>1. Mapped(old, e)
  BY DEF IngestUpdated
<1>2. PICK r \in Records : old.mapping[e].record = r /\ old.row[r].status # "none"
  BY <1>1, KindsApart DEF Mapped, Sound, MapSound
<1>3. old.row[r].status \in {"none", "active", "archived"} /\ flag \in BOOLEAN /\ (flag => e.type = "contact")
  BY DEF Sound, Databases, CrmRows, Flags
<1>4. CASE db = old
  BY <1>4, KeepsNothing
<1>5. CASE db # old
  <2>1. /\ old.row[r].status = "active" /\ ~Stale(old, e, t) /\ ConsentKept(old.row[r], flag)
        /\ db = Watermark(Put(old, r, Observed(old.row[r], e, t, flag)), e, r, t)
    BY <1>1, <1>2, <1>3, <1>5 DEF IngestUpdated, MappedRow
  <2>2. r \notin muddled => old.row[r].corrected <= t
    BY <1>2, <2>1, NotStale
  <2>3. old.row[r].doNotContact => flag
    BY <2>1 DEF ConsentKept
  <2>4. QED
    BY <1>1, <1>2, <1>3, <2>1, <2>2, <2>3, ObserveSound
<1>6. QED
  BY <1>4, <1>5

LEMMA SectionSound ==
    ASSUME now \in Nat, NEW old, Sound(old), NEW e \in Ids, NEW t \in Nat, NEW c \in Contacts \cup {NoRecord},
           NEW flag \in Flags(e.type), NEW db \in Section(old, e, t, c, flag)
    PROVE  Sound(db) /\ Keeps(old, db, Kind(e.type))
BY IngestCreatedSound, IngestUpdatedSound DEF Section

\* What two sections of one notification keep, they keep together.
LEMMA TwoSections ==
    ASSUME NEW old, NEW mid, NEW db, Keeps(old, mid, Contacts), Keeps(mid, db, Opportunities)
    PROVE  Keeps(old, db, Records)
<1> SUFFICES ASSUME NEW o \in Records PROVE Evolves(old.row[o], db.row[o], o)
  BY DEF Keeps
<1>1. CASE o \in Contacts
  BY <1>1, KindsApart DEF Keeps
<1>2. CASE o \notin Contacts
  BY <1>2, KindsApart DEF Keeps
<1>3. QED
  BY <1>1, <1>2

RecordsKept == \A r \in Records : Evolves(row[r], row'[r], r)

\* Time and muddled records only take from what a database must satisfy.
LEMMA Later ==
    ASSUME now \in Nat, now' \in Nat, now <= now', muddled \subseteq muddled', NEW db, Sound(db),
           row' = db.row, mapping' = db.mapping
    PROVE  Sound(Database)'
<1>1. db \in Databases /\ Database' \in Databases /\ Database'.row = db.row /\ Database'.mapping = db.mapping
  BY DEF Sound, Databases, Database
<1>2. ASSUME NEW r \in Records PROVE RowSound(Database.row[r], r)'
  <2>1. RowSound(db.row[r], r) /\ db.row[r].updated \in Nat
    BY DEF Sound, Databases, CrmRows
  <2>2. db.row[r].updated <= now'
    BY <2>1 DEF RowSound
  <2>3. QED
    BY <1>1, <2>1, <2>2 DEF RowSound
<1>3. ASSUME NEW e \in Ids PROVE MapSound(Database, e)'
  BY <1>1 DEF Sound, MapSound
<1>4. ASSUME NEW r \in Records \ muddled' PROVE PubSound(Database, r)'
  BY <1>1 DEF Sound, PubSound
<1>5. ASSUME NEW o \in Opportunities PROVE ContactSound(Database, o)'
  BY <1>1 DEF Sound, ContactSound
<1>6. QED
  BY <1>1, <1>2, <1>3, <1>4, <1>5 DEF Sound

LEMMA CommitKeeps ==
    ASSUME now \in Nat, NEW db, Sound(db), Keeps(Database, db, Records), row' = db.row, mapping' = db.mapping,
           now' = now, muddled' = muddled
    PROVE  Sound(Database)' /\ RecordsKept
<1>1. now <= now' /\ now' \in Nat /\ muddled \subseteq muddled'
  OBVIOUS
<1>2. Sound(Database)'
  BY <1>1, Later
<1>3. RecordsKept
  BY DEF RecordsKept, Keeps, Database
<1>4. QED
  BY <1>2, <1>3

LEMMA NativeStep ==
    ASSUME now \in Nat, Sound(Database), NEW r \in Records, NEW new, Fits(Database, r, new), new.publishers = {},
           Evolves(row[r], new, r), row' = [row EXCEPT ![r] = new], mapping' = mapping, now' = now, muddled' = muddled
    PROVE  Sound(Database)' /\ RecordsKept
<1> DEFINE db == [row |-> row', mapping |-> mapping']
<1>1. db \in Databases /\ db.row = row' /\ db.mapping = mapping'
  BY DEF Sound, Database, Databases, Fits
<1> HIDE DEF db
<1>2. Sound(db)
  BY <1>1, NativeWrite
<1>3. now <= now' /\ now' \in Nat /\ muddled \subseteq muddled'
  OBVIOUS
<1>4. Sound(Database)'
  BY <1>1, <1>2, <1>3, Later
<1>5. RecordsKept
  BY NothingEvolves DEF RecordsKept, Sound, Database, Databases
<1>6. QED
  BY <1>4, <1>5

LEMMA Widen ==
    ASSUME NEW old, NEW db, NEW e \in Ids, Keeps(old, db, Kind(e.type)) PROVE Keeps(old, db, Records)
BY DEF Keeps

LEMMA IngestStep ==
    ASSUME now \in Nat, Sound(Database), NEW e \in Ids, NEW t \in Nat, IngestExternal(e, t)
    PROVE  Sound(Database)' /\ RecordsKept
<1>a. PICK flag \in Flags(e.type), c \in Contacts \cup {NoRecord} :
        \E db \in IngestCreated(Database, e, t, c, flag) \cup IngestUpdated(Database, e, t, c, flag) : Commit(db)
  BY DEF IngestExternal
<1>1. PICK db \in IngestCreated(Database, e, t, c, flag) \cup IngestUpdated(Database, e, t, c, flag) : Commit(db)
  BY <1>a
<1>2. Sound(db) /\ Keeps(Database, db, Kind(e.type))
  BY IngestCreatedSound, IngestUpdatedSound
<1>3. Keeps(Database, db, Records)
  BY <1>2, Widen
<1>4. row' = db.row /\ mapping' = db.mapping /\ now' = now /\ muddled' = muddled
  BY <1>1 DEF Commit
<1>5. QED
  BY <1>2, <1>3, <1>4, CommitKeeps

LEMMA ReceiveStep ==
    ASSUME now \in Nat, Sound(Database), NEW e \in Ids, NEW f \in Ids, NEW t \in Nat, Receive(e, f, t)
    PROVE  Sound(Database)' /\ RecordsKept
<1>a. PICK flag \in BOOLEAN :
        \E mid \in Section(Database, e, t, NoRecord, flag) :
            \E db \in Section(mid, f, t, mid.mapping[e].record, FALSE) : Commit(db)
  BY DEF Receive
<1>b. PICK mid \in Section(Database, e, t, NoRecord, flag) :
        \E db \in Section(mid, f, t, mid.mapping[e].record, FALSE) : Commit(db)
  BY <1>a
<1>1. PICK db \in Section(mid, f, t, mid.mapping[e].record, FALSE) : Commit(db)
  BY <1>b
<1>2. /\ Kind(e.type) = Contacts /\ Kind(f.type) = Opportunities
      /\ flag \in Flags(e.type) /\ FALSE \in Flags(f.type) /\ NoRecord \in Contacts \cup {NoRecord}
  BY DEF Receive, Kind, Flags
<1>3. Sound(mid) /\ Keeps(Database, mid, Contacts)
  BY <1>2, SectionSound
<1>4. mid.mapping[e].record \in Contacts \cup {NoRecord}
  BY <1>2, <1>3 DEF Sound, MapSound
<1>5. Sound(db) /\ Keeps(mid, db, Opportunities)
  BY <1>2, <1>3, <1>4, SectionSound
<1>6. Keeps(Database, db, Records)
  BY <1>3, <1>5, TwoSections
<1>7. row' = db.row /\ mapping' = db.mapping /\ now' = now /\ muddled' = muddled
  BY <1>1 DEF Commit
<1>8. QED
  BY <1>5, <1>6, <1>7, CommitKeeps

LEMMA LegacyUpdatesStep ==
    ASSUME now \in Nat, Sound(Database), NEW e \in Ids, NEW t \in Nat, LegacyUpdates(e, t)
    PROVE  Sound(Database)' /\ RecordsKept
<1>1. Mapped(Database, e) /\ ~Behind(e, t) /\ Database.row = row /\ Database.mapping = mapping
  BY DEF LegacyUpdates, Database
<1>2. PICK r \in Records : Database.mapping[e].record = r /\ row[r].status # "none"
  BY <1>1, KindsApart DEF Mapped, Sound, MapSound
<1>3. row[r] \in CrmRows /\ RowSound(row[r], r) /\ row[r].status = "active" /\ ~(row[r].source >= t)
  BY <1>1, <1>2 DEF Sound, Databases, Behind, MappedRow, CrmRows
<1>4. PICK flag \in Flags(e.type) :
        Commit(Watermark(Put(Database, r, Observed(row[r], e, t, row[r].doNotContact \/ flag)), e, r, t))
  BY <1>1, <1>2 DEF LegacyUpdates
<1> DEFINE kept == row[r].doNotContact \/ flag
           db == Watermark(Put(Database, r, Observed(Database.row[r], e, t, kept)), e, r, t)
<1>5. r \notin muddled => Database.row[r].corrected <= t
  <2>1. row[r].corrected \in Nat /\ row[r].source \in Nat
    BY <1>3 DEF CrmRows
  <2>2. QED
    BY <1>1, <1>3, <2>1 DEF RowSound
<1>6. kept \in BOOLEAN /\ (Database.row[r].doNotContact => kept) /\ Database.row[r].status = "active"
  BY <1>1, <1>3
<1>7. kept => e.type = "contact"
  <2>1. r \in Kind(e.type)
    BY <1>1, <1>2, KindsApart DEF Sound, MapSound
  <2>2. e.type # "contact" => r \in Opportunities /\ Flags(e.type) = {FALSE}
    BY <2>1, KindsApart DEF Flags
  <2>3. QED
    BY <1>3, <2>2 DEF RowSound
<1>8. Commit(db)
  BY <1>1, <1>4
<1> HIDE DEF kept
<1>9. Sound(db) /\ Keeps(Database, db, Kind(e.type))
  BY <1>1, <1>2, <1>5, <1>6, <1>7, ObserveSound
<1> HIDE DEF db
<1>10. Keeps(Database, db, Records)
  BY <1>9, Widen
<1>11. row' = db.row /\ mapping' = db.mapping /\ now' = now /\ muddled' = muddled
  BY <1>8 DEF Commit
<1>12. QED
  BY <1>9, <1>10, <1>11, CommitKeeps

LEMMA LegacyCreatesStep ==
    ASSUME now \in Nat, Sound(Database), NEW e \in Ids, NEW t \in Nat, LegacyCreates(e, t)
    PROVE  Sound(Database)' /\ RecordsKept
<1>1. PICK r \in Free(Database, e.type), flag \in Flags(e.type), c \in Contacts \cup {NoRecord} :
        /\ Relates(Database, e.type, c)
        /\ row' = Watermark(Put(Database, r,
                       Published(Created(c, flag, t, e.connection), e.connection)), e, r, t).row
        /\ mapping' = Watermark(Put(Database, r,
                       Published(Created(c, flag, t, e.connection), e.connection)), e, r, t).mapping
  BY DEF LegacyCreates
<1> DEFINE db == Watermark(Put(Database, r, Published(Created(c, flag, t, e.connection), e.connection)), e, r, t)
<1>2. ~Mapped(Database, e) /\ now' = now /\ muddled' = muddled
  BY DEF LegacyCreates
<1>3. Sound(db) /\ Keeps(Database, db, Kind(e.type))
  BY <1>1, <1>2, CreateSound
<1>4. row' = db.row /\ mapping' = db.mapping
  BY <1>1
<1> HIDE DEF db
<1>5. Keeps(Database, db, Records)
  BY <1>3, Widen
<1>6. QED
  BY <1>2, <1>3, <1>4, <1>5, CommitKeeps

\* The row that a record has, and what it says.
LEMMA RowOf ==
    ASSUME now \in Nat, Sound(Database), NEW r \in Records
    PROVE  /\ row[r] \in CrmRows /\ RowSound(row[r], r) /\ row[r].version \in Nat /\ row[r].corrected \in Nat
           /\ row[r].updated \in Nat /\ row[r].doNotContact \in BOOLEAN /\ row[r].corrected <= now
           /\ Database.row = row /\ Database.mapping = mapping
           /\ row \in [Records -> CrmRows] /\ mapping \in [Ids -> CrmMaps]
<1>1. /\ row \in [Records -> CrmRows] /\ mapping \in [Ids -> CrmMaps] /\ Database.row = row
      /\ Database.mapping = mapping /\ RowSound(row[r], r)
  BY DEF Sound, Database, Databases
<1>2. row[r] \in CrmRows
  BY <1>1
<1>3. row[r].version \in Nat /\ row[r].corrected \in Nat /\ row[r].updated \in Nat /\ row[r].doNotContact \in BOOLEAN
  BY <1>2 DEF CrmRows
<1>4. QED
  BY <1>1, <1>2, <1>3 DEF RowSound

\* Members, agents and opt-outs write over a record that exists.
Rewrites(r, new) ==
    /\ new \in CrmRows /\ row[r].status # "none"
    /\ row[r].version < new.version /\ new.updated = now /\ new.publishers = {}
    /\ new.writer \notin Connections
    /\ new.corrected <= now /\ (r \notin muddled => new.corrected <= new.source)
    /\ row[r].doNotContact => new.doNotContact
    /\ new.doNotContact => r \in Contacts
    /\ new.contact = row[r].contact
    /\ new.status = row[r].status \/ (new.status = "archived" /\ NoDependents(r))

LEMMA NativeRewrite ==
    ASSUME now \in Nat, Sound(Database), NEW r \in Records, NEW new, Rewrites(r, new),
           row' = [row EXCEPT ![r] = new], mapping' = mapping, now' = now, muddled' = muddled
    PROVE  Sound(Database)' /\ RecordsKept
<1> USE DEF Rewrites
<1>1. /\ row[r] \in CrmRows /\ RowSound(row[r], r) /\ Database.row = row
  BY RowOf
<1>2. RowSound(new, r)
  BY <1>1, KindsApart DEF RowSound
<1>3. new.status # "none"
  OBVIOUS
<1>4. r \in Opportunities /\ new.status = "active" =>
          new.contact \in Contacts /\ row[new.contact].status = "active"
  BY <1>1 DEF Sound, ContactSound
<1>5. r \in Contacts /\ new.status # "active" =>
          \A o \in Opportunities : ~(row[o].status = "active" /\ row[o].contact = r)
  BY <1>1 DEF Sound, ContactSound, NoDependents
<1>6. Fits(Database, r, new)
  BY <1>1, <1>2, <1>3, <1>4, <1>5 DEF Fits
<1>7. Evolves(row[r], new, r)
  BY DEF Evolves
<1>8. QED
  BY <1>6, <1>7, NativeStep

LEMMA CreateNativeStep ==
    ASSUME now \in Nat, Sound(Database), NEW r \in Records, NEW c \in Contacts \cup {NoRecord}, NEW flag \in BOOLEAN,
           CreateNative(r, c, flag)
    PROVE  Sound(Database)' /\ RecordsKept
<1> DEFINE type == IF r \in Contacts THEN "contact" ELSE "opportunity"
<1>1. /\ r \in Free(Database, type) /\ Relates(Database, type, c) /\ flag \in Flags(type)
      /\ row' = [row EXCEPT ![r] = Created(c, flag, 0, "native")]
      /\ mapping' = mapping /\ now' = now /\ muddled' = muddled
  BY DEF CreateNative
<1>2. /\ row[r] \in CrmRows /\ RowSound(row[r], r) /\ Database.row = row
  BY RowOf
<1>3. row[r].status = "none" /\ ~row[r].doNotContact /\ row[r].version = 0
  BY <1>1, <1>2 DEF Free, RowSound
<1>4. 0 \in Nat /\ "native" \in Writers /\ "native" \notin Connections
  BY KindsApart
<1>5. PICK new \in CrmRows :
         /\ new = Created(c, flag, 0, "native")
         /\ new.status = "active" /\ new.version = 1 /\ new.updated = now
         /\ new.source = 0 /\ new.contact = c /\ new.doNotContact = flag
         /\ new.publishers = {} /\ new.writer = "native" /\ new.corrected = 0
  BY <1>4, CreatedRow
<1>6. r \in Opportunities => ~flag /\ c \in Contacts /\ row[c].status = "active"
  BY <1>1, <1>2, KindsApart DEF Flags, Relates
<1>7. RowSound(new, r)
  BY <1>4, <1>5, <1>6 DEF RowSound
<1>8. Fits(Database, r, new)
  BY <1>2, <1>5, <1>6, <1>7 DEF Fits
<1>9. Evolves(row[r], new, r)
  BY <1>3, <1>5 DEF Evolves
<1>10. QED
  BY <1>1, <1>5, <1>8, <1>9, NativeStep

LEMMA SaveStep ==
    ASSUME now \in Nat, Sound(Database), form \in [Members -> CrmForms], NEW m \in Members, NEW flag \in BOOLEAN,
           Save(m, flag)
    PROVE  Sound(Database)' /\ RecordsKept
<1>1. PICK r \in Records : r = form[m].record
  BY DEF Save, CrmForms
<1>2. /\ row[r].status = "active" /\ ConsentKept(row[r], flag)
      /\ flag \in Flags(IF r \in Contacts THEN "contact" ELSE "opportunity")
      /\ row' = [row EXCEPT ![r] = Corrected(row[r], flag)]
      /\ mapping' = mapping /\ now' = now /\ muddled' = muddled
  BY <1>1, RowOf DEF Save, Expected
<1>3. row[r] \in CrmRows /\ row[r].version \in Nat
  BY RowOf
<1>4. PICK new \in CrmRows :
         /\ new = Corrected(row[r], flag)
         /\ new.status = row[r].status /\ new.version = row[r].version + 1 /\ new.updated = now
         /\ new.source = now /\ new.contact = row[r].contact /\ new.doNotContact = flag
         /\ new.publishers = {} /\ new.writer = "native" /\ new.corrected = now
  BY <1>3, CorrectedRow
<1>5. flag => r \in Contacts
  BY <1>2 DEF Flags
<1>6. "native" \notin Connections
  BY KindsApart
<1>7. Rewrites(r, new)
  BY <1>2, <1>3, <1>4, <1>5, <1>6 DEF Rewrites, ConsentKept
<1>8. QED
  BY <1>2, <1>4, <1>7, NativeRewrite

LEMMA AgentMovesStep ==
    ASSUME now \in Nat, Sound(Database), NEW r \in Records, AgentMoves(r)
    PROVE  Sound(Database)' /\ RecordsKept
<1>1. /\ row[r].status = "active" /\ r \in Opportunities /\ row' = [row EXCEPT ![r] = Corrected(row[r], FALSE)]
      /\ mapping' = mapping /\ now' = now /\ muddled' = muddled
  BY RowOf DEF AgentMoves
<1>2. row[r] \in CrmRows /\ row[r].version \in Nat /\ ~row[r].doNotContact
  BY <1>1, RowOf DEF RowSound
<1>3. PICK new \in CrmRows :
         /\ row' = [row EXCEPT ![r] = new]
         /\ new.status = row[r].status /\ new.version = row[r].version + 1 /\ new.updated = now
         /\ new.source = now /\ new.contact = row[r].contact /\ ~new.doNotContact
         /\ new.publishers = {} /\ new.writer = "native" /\ new.corrected = now
  BY <1>1, <1>2, CorrectedRow
<1>4. "native" \notin Connections
  BY KindsApart
<1>5. row[r].status # "none" /\ mapping' = mapping /\ now' = now /\ muddled' = muddled
  BY <1>1
<1>6. Rewrites(r, new)
  BY <1>2, <1>3, <1>4, <1>5 DEF Rewrites
<1>7. QED
  BY <1>3, <1>5, <1>6, NativeRewrite

LEMMA ArchiveStep ==
    ASSUME now \in Nat, Sound(Database), form \in [Members -> CrmForms], NEW m \in Members, Archive(m)
    PROVE  Sound(Database)' /\ RecordsKept
<1>1. PICK r \in Records : r = form[m].record
  BY DEF Archive, CrmForms
<1> DEFINE b == Bump(row[r], 1)
           new == [b EXCEPT !.status = "archived", !.writer = "native"]
<1>2. /\ row[r].status = "active" /\ NoDependents(r) /\ row' = [row EXCEPT ![r] = new]
      /\ mapping' = mapping /\ now' = now /\ muddled' = muddled
  BY <1>1, RowOf DEF Archive, Expected
<1>3. /\ row[r] \in CrmRows /\ RowSound(row[r], r) /\ row[r].version \in Nat /\ row[r].corrected <= now
  BY RowOf
<1>4. /\ b \in CrmRows /\ b.version = row[r].version + 1 /\ b.updated = now /\ b.publishers = {}
      /\ b.source = row[r].source /\ b.contact = row[r].contact /\ b.doNotContact = row[r].doNotContact
      /\ b.corrected = row[r].corrected
  BY ZenonT(30), <1>3, BumpedRow
<1> HIDE DEF b
<1>5. /\ new \in CrmRows /\ new.version = b.version /\ new.updated = b.updated /\ new.publishers = b.publishers
      /\ new.source = b.source /\ new.contact = b.contact /\ new.doNotContact = b.doNotContact
      /\ new.corrected = b.corrected /\ new.status = "archived" /\ new.writer = "native"
  BY <1>4, KindsApart DEF CrmRows
<1> HIDE DEF new
<1>6. new.doNotContact => r \in Contacts
  BY <1>3, <1>4, <1>5, KindsApart DEF RowSound
<1>7. "native" \notin Connections
  BY KindsApart
<1>8. r \notin muddled => new.corrected <= new.source
  BY <1>3, <1>4, <1>5 DEF RowSound
<1>9. Rewrites(r, new)
  BY <1>2, <1>3, <1>4, <1>5, <1>6, <1>7, <1>8 DEF Rewrites
<1>10. QED
  BY <1>2, <1>9, NativeRewrite

LEMMA OptOutStep ==
    ASSUME now \in Nat, Sound(Database), NEW r \in Records, OptOut(r)
    PROVE  Sound(Database)' /\ RecordsKept
<1>1. PICK n \in 1..2 :
        row' = [row EXCEPT ![r] = [Bump(row[r], n) EXCEPT !.doNotContact = TRUE, !.writer = "optOut"]]
  BY RowOf DEF OptOut
<1>a. n \in Nat /\ n > 0
  BY <1>1
<1> DEFINE b == Bump(row[r], n)
           new == [b EXCEPT !.doNotContact = TRUE, !.writer = "optOut"]
<1>2. /\ row[r].status # "none" /\ r \in Contacts /\ row' = [row EXCEPT ![r] = new]
      /\ mapping' = mapping /\ now' = now /\ muddled' = muddled
  BY <1>1 DEF OptOut
<1>3. /\ row[r] \in CrmRows /\ RowSound(row[r], r) /\ row[r].version \in Nat /\ row[r].corrected <= now
  BY RowOf
<1>4. /\ b \in CrmRows /\ b.version = row[r].version + n /\ b.updated = now /\ b.publishers = {}
      /\ b.source = row[r].source /\ b.contact = row[r].contact /\ b.status = row[r].status
      /\ b.corrected = row[r].corrected
  BY <1>a, <1>3, BumpedRow
<1> HIDE DEF b
<1>5. /\ new \in CrmRows /\ new.version = b.version /\ new.updated = b.updated /\ new.publishers = b.publishers
      /\ new.source = b.source /\ new.contact = b.contact /\ new.doNotContact = TRUE
      /\ new.corrected = b.corrected /\ new.status = b.status /\ new.writer = "optOut"
  BY <1>4, KindsApart DEF CrmRows
<1> HIDE DEF new
<1>6. row[r].version < new.version
  BY <1>a, <1>3, <1>4, <1>5
<1>7. "optOut" \notin Connections
  BY KindsApart
<1>8. r \notin muddled => new.corrected <= new.source
  BY <1>3, <1>4, <1>5 DEF RowSound
<1>9. Rewrites(r, new)
  BY <1>2, <1>3, <1>4, <1>5, <1>6, <1>7, <1>8 DEF Rewrites
<1>10. QED
  BY <1>2, <1>9, NativeRewrite

\* An ignored event adds a publisher to a version, and its record is muddled.
LEMMA LegacyIgnoredStep ==
    ASSUME now \in Nat, Sound(Database), NEW e \in Ids, NEW t \in Nat, LegacyIgnored(e, t)
    PROVE  Sound(Database)' /\ RecordsKept
<1>1. Mapped(Database, e) /\ Database.mapping = mapping /\ e.connection \in Connections
  BY KindsApart DEF LegacyIgnored, Database
<1>2. PICK r \in Records : mapping[e].record = r /\ row[r].status # "none"
  BY <1>1, KindsApart DEF Mapped, Sound, MapSound, Database
<1> DEFINE new == Published(row[r], e.connection)
<1>3. /\ row' = [row EXCEPT ![r] = new] /\ mapping' = mapping /\ now' = now
      /\ muddled' = muddled \cup {r}
  BY <1>2, RowOf DEF LegacyIgnored
<1>4. /\ row[r] \in CrmRows /\ RowSound(row[r], r) /\ row \in [Records -> CrmRows] /\ mapping \in [Ids -> CrmMaps]
  BY RowOf
<1>5. /\ new \in CrmRows /\ new.publishers = row[r].publishers \cup {e.connection}
      /\ new.status = row[r].status /\ new.version = row[r].version /\ new.updated = row[r].updated
      /\ new.source = row[r].source /\ new.contact = row[r].contact /\ new.doNotContact = row[r].doNotContact
      /\ new.writer = row[r].writer /\ new.corrected = row[r].corrected
  BY <1>1, <1>4, PublishedRow
<1> HIDE DEF new
<1>6. /\ row'[r] = new /\ \A o \in Records \ {r} : row'[o] = row[o]
      /\ row' \in [Records -> CrmRows]
  BY <1>3, <1>4, <1>5
<1>7. /\ Database' \in Databases /\ Database'.row = row' /\ Database'.mapping = mapping
      /\ Database.row = row /\ Database.mapping = mapping
  BY <1>3, <1>4, <1>6 DEF Database, Databases
<1>8. ASSUME NEW o \in Records PROVE RowSound(Database.row[o], o)'
  <2>1. CASE o = r
    BY <1>3, <1>4, <1>5, <1>6, <1>7, <2>1 DEF RowSound
  <2>2. CASE o # r
    BY <1>3, <1>6, <1>7, <2>2 DEF Sound, RowSound
  <2>3. QED
    BY <2>1, <2>2
<1>9. ASSUME NEW f \in Ids PROVE MapSound(Database, f)'
  <2>1. MapSound(Database, f) /\ Kind(f.type) \subseteq Records
    BY KindsApart DEF Sound
  <2>2. QED
    BY <1>2, <1>5, <1>6, <1>7, <2>1 DEF MapSound
<1>10. ASSUME NEW o \in Records \ muddled' PROVE PubSound(Database, o)'
  <2>1. o # r /\ o \notin muddled /\ PubSound(Database, o)
    BY <1>3 DEF Sound
  <2>2. QED
    BY <1>6, <1>7, <2>1 DEF PubSound
<1>11. ASSUME NEW o \in Opportunities PROVE ContactSound(Database, o)'
  <2>1. ContactSound(Database, o) /\ o \in Records /\ Contacts \subseteq Records
    BY KindsApart DEF Sound
  <2>2. \A x \in Records : row'[x].status = row[x].status /\ row'[x].contact = row[x].contact
    BY <1>5, <1>6
  <2>3. QED
    BY <1>7, <2>1, <2>2 DEF ContactSound
<1>12. Sound(Database)'
  BY <1>7, <1>8, <1>9, <1>10, <1>11 DEF Sound
<1>13. Evolves(row[r], new, r)
  BY <1>2, <1>5 DEF Evolves
<1>14. RecordsKept
  BY <1>6, <1>13, NothingEvolves DEF RecordsKept
<1>15. QED
  BY <1>12, <1>14

\* A new id of a record: if the connection has another one, both are muddled.
LEMMA MapsChange ==
    ASSUME now \in Nat, Sound(Database), NEW e \in Ids, NEW r \in Records,
           MapExternal(e, r) \/ UnmapExternal(e)
    PROVE  Sound(Database)' /\ RecordsKept
<1>1. /\ row \in [Records -> CrmRows] /\ mapping \in [Ids -> CrmMaps] /\ Database.row = row /\ Database.mapping = mapping
  BY RowOf
<1>2. PICK new \in CrmMaps :
        /\ mapping' = [mapping EXCEPT ![e] = new]
        /\ new.record # NoRecord => new.record \in Kind(e.type) /\ row[new.record].status # "none"
        /\ \/ new.record = NoRecord
           \/ mapping[e].record = NoRecord
        /\ mapping[e].record # NoRecord => mapping[e].record \in muddled'
        /\ \A f \in Ids : f.connection = e.connection /\ mapping[f].record = new.record
                             /\ new.record # NoRecord => new.record \in muddled'
        /\ new.watermark = 0 /\ muddled \subseteq muddled' /\ row' = row /\ now' = now
  <2>1. CASE MapExternal(e, r)
    <3> DEFINE new == [record |-> r, watermark |-> 0]
    <3>1. new \in CrmMaps /\ new.record = r /\ new.watermark = 0
      BY DEF CrmMaps
    <3>2. /\ mapping' = [mapping EXCEPT ![e] = new] /\ row' = row /\ now' = now /\ mapping[e].record = NoRecord
          /\ r \in Kind(e.type) /\ row[r].status # "none" /\ muddled \subseteq muddled'
          /\ \A f \in Ids : f.connection = e.connection /\ mapping[f].record = r => r \in muddled'
      BY <1>1, <2>1 DEF MapExternal, Mapped
    <3> HIDE DEF new
    <3>3. QED
      BY <3>1, <3>2
  <2>2. CASE UnmapExternal(e)
    <3>1. NoMapping \in CrmMaps /\ NoMapping.record = NoRecord /\ NoMapping.watermark = 0
      BY DEF NoMapping, CrmMaps
    <3>2. /\ mapping' = [mapping EXCEPT ![e] = NoMapping] /\ row' = row /\ now' = now
          /\ muddled' = muddled \cup {mapping[e].record}
      BY <2>2 DEF UnmapExternal
    <3>3. QED
      BY <3>1, <3>2
  <2>3. QED
    BY <2>1, <2>2
<1>3. /\ mapping'[e] = new /\ \A f \in Ids \ {e} : mapping'[f] = mapping[f]
      /\ mapping' \in [Ids -> CrmMaps]
  BY <1>1, <1>2
<1>4. Database' \in Databases /\ Database'.row = row /\ Database'.mapping = mapping'
  BY <1>1, <1>2, <1>3 DEF Database, Databases
<1>5. ASSUME NEW o \in Records PROVE RowSound(Database.row[o], o)'
  BY <1>1, <1>2, <1>4 DEF Sound, RowSound
<1>6. ASSUME NEW f \in Ids PROVE MapSound(Database, f)'
  BY <1>1, <1>2, <1>3, <1>4 DEF Sound, MapSound
<1>7. ASSUME NEW o \in Records \ muddled' PROVE PubSound(Database, o)'
  <2>1. PubSound(Database, o) /\ o # NoRecord
    BY <1>2, KindsApart DEF Sound
  <2>2. mapping[e].record # o
    BY <1>2, <2>1
  <2>3. \A f \in Ids : mapping[f].record = o => mapping'[f] = mapping[f]
    BY <1>3, <2>2
  <2>4. \A f \in Ids : mapping'[f].record = o /\ f # e => mapping[f].record = o /\ mapping'[f] = mapping[f]
    BY <1>3
  <2>5. \A f \in Ids : mapping[f].record = o => f # e
    BY <2>2
  <2>6. new.record = o => \A f \in Ids : f.connection = e.connection => mapping[f].record # o
    BY <1>2, <2>1
  <2>7. new.record = o => e.connection \notin row[o].publishers
    BY <1>1, <2>1, <2>6 DEF PubSound
  <2>8. \A c \in row[o].publishers : \E f \in Ids : f.connection = c /\ mapping'[f].record = o
    BY <1>1, <2>1, <2>3 DEF PubSound
  <2>9. \A f \in Ids : mapping'[f].record = o /\ f.connection \in row[o].publishers =>
           row[o].corrected <= mapping'[f].watermark
    BY <1>1, <1>3, <2>1, <2>4, <2>7 DEF PubSound
  <2>10. \A f, g \in Ids :
            mapping'[f].record = o /\ mapping'[g].record = o /\ f.connection = g.connection => f = g
    BY <1>1, <1>3, <2>1, <2>4, <2>6 DEF PubSound
  <2>11. QED
    BY <1>4, <2>8, <2>9, <2>10 DEF PubSound
<1>8. ASSUME NEW o \in Opportunities PROVE ContactSound(Database, o)'
  BY <1>1, <1>4 DEF Sound, ContactSound
<1>9. RecordsKept
  BY <1>2, NothingEvolves DEF RecordsKept
<1>10. Sound(Database)'
  BY <1>4, <1>5, <1>6, <1>7, <1>8 DEF Sound
<1>11. QED
  BY <1>9, <1>10

LEMMA FormData ==
    /\ NoForm \in CrmForms /\ NoForm.record = NoRecord
    /\ \A r \in Records, x \in CrmRows :
          /\ Form(r, x) \in CrmForms /\ Form(r, x).record = r /\ Form(r, x).version = x.version
<1>1. NoRow \in CrmRows
  BY KindsApart DEF NoRow, CrmRows
<1>2. NoForm \in CrmForms /\ NoForm.record = NoRecord
  <2>1. NoRow.version \in Nat /\ NoRow.writer \in Writers /\ NoRow.doNotContact \in BOOLEAN
    BY <1>1 DEF CrmRows
  <2>2. QED
    BY <2>1 DEF NoForm, Form, CrmForms
<1>3. ASSUME NEW r \in Records, NEW x \in CrmRows
      PROVE  /\ Form(r, x) \in CrmForms /\ Form(r, x).record = r /\ Form(r, x).version = x.version
  BY DEF Form, CrmForms, CrmRows
<1>4. QED
  BY <1>2, <1>3

\* What forms show stays what they showed, or the version goes on.
LEMMA FormsStay ==
    ASSUME CrmInv, RecordsKept, Sound(Database)', NEW m \in Members, form'[m] = form[m]
    PROVE  FormSound(m)'
<1> SUFFICES ASSUME form[m].record # NoRecord
             PROVE  /\ row'[form[m].record].status # "none"
                    /\ form[m].version <= row'[form[m].record].version
                    /\ form[m].version = row'[form[m].record].version =>
                          form[m] = Form(form[m].record, row'[form[m].record])
  BY DEF FormSound
<1>1. PICK r \in Records : r = form[m].record
  BY DEF CrmInv, CrmForms
<1>2. /\ row[r].status # "none" /\ form[m].version <= row[r].version
      /\ form[m].version = row[r].version => form[m] = Form(r, row[r])
  BY <1>1 DEF CrmInv, FormSound
<1>3. /\ row[r].version \in Nat /\ row'[r].version \in Nat /\ form[m].version \in Nat
  BY DEF CrmInv, Sound, Database, Databases, CrmRows, CrmForms
<1>4. Evolves(row[r], row'[r], r)
  BY DEF RecordsKept
<1>5. row'[r].status # "none" /\ form[m].version <= row'[r].version
  BY <1>2, <1>3, <1>4 DEF Evolves
<1>6. ASSUME form[m].version = row'[r].version
      PROVE  form[m] = Form(r, row'[r])
  <2>1. /\ row'[r].version = row[r].version /\ row'[r].writer = row[r].writer
        /\ row'[r].doNotContact = row[r].doNotContact /\ form[m] = Form(r, row[r])
    BY <1>2, <1>3, <1>4, <1>6 DEF Evolves
  <2>2. QED
    BY <2>1 DEF Form
<1>7. QED
  BY <1>1, <1>5, <1>6

LEMMA FormsInv ==
    ASSUME CrmInv, RecordsKept, Sound(Database)', now' \in Nat,
           \/ form' = form
           \/ \E m \in Members : Closes(m)
           \/ \E m \in Members, r \in Records :
                 row[r].status = "active" /\ row' = row /\ form' = [form EXCEPT ![m] = Form(r, row[r])]
    PROVE  CrmInv'
<1>1. CASE form' = form
  BY <1>1, FormsStay DEF CrmInv
<1>2. ASSUME NEW m \in Members, Closes(m)
      PROVE  CrmInv'
  <2>1. /\ form' \in [Members -> CrmForms] /\ form'[m].record = NoRecord
        /\ \A o \in Members \ {m} : form'[o] = form[o]
    BY <1>2, FormData DEF Closes, CrmInv
  <2>2. ASSUME NEW o \in Members PROVE FormSound(o)'
    BY <2>1, FormsStay DEF FormSound
  <2>3. QED
    BY <2>1, <2>2 DEF CrmInv
<1>3. ASSUME NEW m \in Members, NEW r \in Records, row[r].status = "active", row' = row,
             form' = [form EXCEPT ![m] = Form(r, row[r])]
      PROVE  CrmInv'
  <2>1. row[r] \in CrmRows /\ row[r].version \in Nat
    BY DEF CrmInv, Sound, Database, Databases, CrmRows
  <2>2. /\ form' \in [Members -> CrmForms] /\ form'[m] = Form(r, row[r])
        /\ \A o \in Members \ {m} : form'[o] = form[o]
    BY <1>3, <2>1, FormData DEF CrmInv
  <2>3. FormSound(m)'
    BY <1>3, <2>1, <2>2, FormData DEF FormSound
  <2>4. ASSUME NEW o \in Members PROVE FormSound(o)'
    BY <2>2, <2>3, FormsStay
  <2>5. QED
    BY <2>2, <2>4 DEF CrmInv
<1>4. QED
  BY <1>1, <1>2, <1>3

LEMMA CrmInitInv == Init => CrmInv
<1> SUFFICES ASSUME Init PROVE CrmInv
  OBVIOUS
<1>1. NoRow \in CrmRows /\ NoRow.status = "none" /\ NoRow.publishers = {} /\ NoRow.writer = "native"
      /\ NoRow.corrected = 0 /\ NoRow.updated = 0 /\ NoRow.source = 0 /\ ~NoRow.doNotContact /\ NoRow.version = 0
  BY KindsApart DEF NoRow, CrmRows
<1>2. NoMapping \in CrmMaps /\ NoMapping.record = NoRecord
  BY DEF NoMapping, CrmMaps
<1>3. /\ Database \in Databases /\ \A r \in Records : Database.row[r] = NoRow
      /\ \A e \in Ids : Database.mapping[e] = NoMapping
  BY <1>1, <1>2 DEF Init, Database, Databases
<1>4. now = 1
  BY DEF Init
<1>5. ASSUME NEW r \in Records PROVE RowSound(Database.row[r], r) /\ PubSound(Database, r)
  BY <1>1, <1>2, <1>3, <1>4, KindsApart DEF RowSound, PubSound
<1>6. ASSUME NEW e \in Ids PROVE MapSound(Database, e)
  BY <1>2, <1>3 DEF MapSound
<1>7. ASSUME NEW o \in Opportunities PROVE ContactSound(Database, o)
  BY <1>1, <1>3, KindsApart DEF ContactSound
<1>8. form \in [Members -> CrmForms] /\ \A m \in Members : FormSound(m)
  BY FormData DEF Init, FormSound
<1>9. QED
  BY <1>3, <1>4, <1>5, <1>6, <1>7, <1>8 DEF CrmInv, Sound

LEMMA ExternalKeeps ==
    ASSUME CrmInv, External
    PROVE  Sound(Database)' /\ RecordsKept /\ form' = form /\ now' = now
<1>1. now \in Nat /\ Sound(Database)
  BY DEF CrmInv
<1>2. \A t \in ObservedAt : t \in Nat
  BY <1>1, ConstantsAssumption DEF ObservedAt
<1>3. ASSUME NEW e \in Ids, NEW t \in Nat,
             IngestExternal(e, t) \/ LegacyUpdates(e, t) \/ LegacyCreates(e, t) \/ LegacyIgnored(e, t)
      PROVE  Sound(Database)' /\ RecordsKept /\ form' = form /\ now' = now
  <2>1. form' = form /\ now' = now
    BY <1>3 DEF IngestExternal, LegacyUpdates, LegacyCreates, LegacyIgnored, Commit
  <2>2. QED
    BY <1>1, <1>3, <2>1, IngestStep, LegacyUpdatesStep, LegacyCreatesStep, LegacyIgnoredStep
<1>4. ASSUME NEW e \in Ids, NEW f \in Ids, NEW t \in Nat, Receive(e, f, t)
      PROVE  Sound(Database)' /\ RecordsKept /\ form' = form /\ now' = now
  <2>1. form' = form /\ now' = now
    BY <1>4 DEF Receive, Commit
  <2>2. QED
    BY <1>1, <1>4, <2>1, ReceiveStep
<1>5. QED
  BY <1>2, <1>3, <1>4 DEF External

\* What changes nothing, and the clock.
LEMMA RestKeeps ==
    ASSUME CrmInv, UNCHANGED <<row, mapping, muddled>>, now' \in Nat, now <= now'
    PROVE  Sound(Database)' /\ RecordsKept
<1>1. Sound(Database) /\ now \in Nat /\ row' = Database.row /\ mapping' = Database.mapping /\ muddled \subseteq muddled'
  BY DEF CrmInv, Database
<1>2. Sound(Database)'
  BY <1>1, Later
<1>3. RecordsKept
  BY NothingEvolves DEF RecordsKept
<1>4. QED
  BY <1>2, <1>3

LEMMA CrmStep == CrmInv /\ [Next]_vars => CrmInv' /\ RecordsKept
<1> SUFFICES ASSUME CrmInv, [Next]_vars PROVE CrmInv' /\ RecordsKept
  OBVIOUS
<1>1. now \in Nat /\ Sound(Database) /\ form \in [Members -> CrmForms] /\ now <= now
  BY DEF CrmInv
<1>2. CASE External
  BY <1>1, <1>2, ExternalKeeps, FormsInv
<1>3. CASE Tick
  <2>1. now' \in Nat /\ now <= now' /\ UNCHANGED <<row, mapping, muddled>> /\ form' = form
    BY <1>1, <1>3 DEF Tick
  <2>2. QED
    BY <2>1, RestKeeps, FormsInv
<1>4. CASE UNCHANGED vars
  <2>1. now' \in Nat /\ now <= now' /\ UNCHANGED <<row, mapping, muddled>> /\ form' = form
    BY <1>1, <1>4 DEF vars
  <2>2. QED
    BY <2>1, RestKeeps, FormsInv
<1>5. ASSUME NEW r \in Records, NEW c \in Contacts \cup {NoRecord}, NEW flag \in BOOLEAN, CreateNative(r, c, flag)
      PROVE  CrmInv' /\ RecordsKept
  <2>1. form' = form /\ now' = now
    BY <1>5 DEF CreateNative
  <2>2. QED
    BY <1>1, <1>5, <2>1, CreateNativeStep, FormsInv
<1>6. ASSUME NEW m \in Members, NEW r \in Records, Opens(m, r)
      PROVE  CrmInv' /\ RecordsKept
  <2>1. /\ now' \in Nat /\ now <= now' /\ UNCHANGED <<row, mapping, muddled>> /\ row' = row
        /\ row[r].status = "active" /\ form' = [form EXCEPT ![m] = Form(r, row[r])]
    BY <1>1, <1>6 DEF Opens
  <2>2. QED
    BY <2>1, RestKeeps, FormsInv
<1>7. ASSUME NEW m \in Members, NEW flag \in BOOLEAN, Save(m, flag)
      PROVE  CrmInv' /\ RecordsKept
  <2>1. Closes(m) /\ now' = now
    BY <1>7 DEF Save
  <2>2. QED
    BY <1>1, <1>7, <2>1, SaveStep, FormsInv
<1>8. ASSUME NEW m \in Members, Refused(m)
      PROVE  CrmInv' /\ RecordsKept
  <2>1. Closes(m) /\ now' \in Nat /\ now <= now' /\ UNCHANGED <<row, mapping, muddled>>
    BY <1>1, <1>8 DEF Refused
  <2>2. QED
    BY <2>1, RestKeeps, FormsInv
<1>9. ASSUME NEW m \in Members, Archive(m)
      PROVE  CrmInv' /\ RecordsKept
  <2>1. Closes(m) /\ now' = now
    BY <1>9 DEF Archive
  <2>2. QED
    BY <1>1, <1>9, <2>1, ArchiveStep, FormsInv
<1>10. ASSUME NEW r \in Records, AgentMoves(r) \/ OptOut(r)
       PROVE  CrmInv' /\ RecordsKept
  <2>1. form' = form /\ now' = now
    BY <1>10 DEF AgentMoves, OptOut
  <2>2. QED
    BY <1>1, <1>10, <2>1, AgentMovesStep, OptOutStep, FormsInv
<1>11. ASSUME NEW e \in Ids, NEW r \in Records, MapExternal(e, r) \/ UnmapExternal(e)
       PROVE  CrmInv' /\ RecordsKept
  <2>1. form' = form /\ now' = now
    BY <1>11 DEF MapExternal, UnmapExternal
  <2>2. QED
    BY <1>1, <1>11, <2>1, MapsChange, FormsInv
<1>12. ASSUME NEW e \in Ids, UnmapExternal(e)
       PROVE  CrmInv' /\ RecordsKept
  <2>1. mapping[e].record \in Records
    BY <1>1, <1>12, KindsApart DEF UnmapExternal, Mapped, Sound, Database, MapSound
  <2>2. QED
    BY <1>11, <1>12, <2>1
<1>13. QED
  BY <1>2, <1>3, <1>4, <1>5, <1>6, <1>7, <1>8, <1>9, <1>10, <1>11, <1>12 DEF Next, Native

\* Every record, id and open form stays sound whatever members, connections
\* and opt-outs interleave (crm/repository.ts, events/intake.ts).
THEOREM CrmInductive == Spec => []CrmInv
<1>1. Init => CrmInv
  BY CrmInitInv
<1>2. CrmInv /\ [Next]_vars => CrmInv'
  BY CrmStep
<1>3. QED
  BY <1>1, <1>2, PTL DEF Spec

LEMMA DelayedStep == CrmInv => DelayedNewsLands
<1> SUFFICES ASSUME CrmInv, NEW e \in Ids, NEW t \in 1..MaxTime,
                    Mapped(Database, e), Stale(Database, e, t), ~(mapping[e].watermark >= t),
                    MappedRow(Database, e).writer = e.connection
             PROVE  FALSE
  BY DEF DelayedNewsLands
<1>1. Database.mapping[e] = mapping[e] /\ Database.row = row
  BY DEF Database
<1>2. PICK r \in Records : r = mapping[e].record
  BY <1>1, KindsApart DEF CrmInv, Sound, MapSound, Mapped
<1>3. MappedRow(Database, e) = row[r]
  BY <1>1, <1>2 DEF MappedRow
<1>4. RowSound(row[r], r) /\ e.connection \in Connections
  BY <1>1, KindsApart DEF CrmInv, Sound
<1>5. e.connection \in row[r].publishers
  BY <1>3, <1>4 DEF RowSound
<1>6. QED
  BY <1>1, <1>3, <1>5 DEF Stale

\* An observation is only taken for stale because its id has shown a newer
\* one or because another writer came since, never because the connection
\* itself wrote, by whatever path (events/intake.ts, workforce/events).
THEOREM DelayedNews == Spec => []DelayedNewsLands
<1>1. CrmInv => DelayedNewsLands
  BY DelayedStep
<1>2. QED
  BY <1>1, CrmInductive, PTL

\* What a connection observed before a member's correction never replaces it,
\* while the record's ids stay and no version 1 event of it was ignored.
THEOREM CorrectionsHold == Spec => CorrectionsStand
<1>1. CrmInv /\ [Next]_vars =>
         [\A r \in Records \ muddled : Overwrites(r) => row'[r].source >= row[r].corrected]_vars
  <2> SUFFICES ASSUME CrmInv, [Next]_vars, NEW r \in Records \ muddled, Overwrites(r)
               PROVE  row'[r].source >= row[r].corrected
    OBVIOUS
  <2>1. CrmInv' /\ Evolves(row[r], row'[r], r)
    BY CrmStep DEF RecordsKept
  <2>2. row[r].corrected <= row'[r].source
    BY <2>1 DEF Evolves, Overwrites
  <2>3. row[r].corrected \in Nat /\ row'[r].source \in Nat
    BY <2>1 DEF CrmInv, Sound, Database, Databases, CrmRows
  <2>4. QED
    BY <2>2, <2>3
<1>2. QED
  BY <1>1, CrmInductive, PTL DEF Spec, CorrectionsStand

\* No save, event or mapping gives back the consent a contact withdrew.
THEOREM OptOutKept == Spec => OptOutStays
<1>1. CrmInv /\ [Next]_vars =>
         [\A r \in Records : row[r].doNotContact => row'[r].doNotContact]_vars
  BY CrmStep DEF RecordsKept, Evolves
<1>2. QED
  BY <1>1, CrmInductive, PTL DEF Spec, OptOutStays

\* Whoever archives or imports at the same time, an active opportunity keeps
\* an active contact (crm/service.ts validateRelations and archive).
THEOREM ContactsActive == Spec => []ActiveContacts
<1>1. CrmInv => ActiveContacts
  BY DEF CrmInv, Sound, Database, ContactSound, ActiveContacts
<1>2. QED
  BY <1>1, CrmInductive, PTL

LEMMA FormsClose ==
    ASSUME CrmInv, [Next]_vars, row' # row, NEW m \in Members,
           form[m].record # NoRecord, form'[m] = NoForm
    PROVE  Expected(m)
<1>1. form'[m] # form[m]
  BY FormData
<1>2. \/ \E o \in Members, flag \in BOOLEAN : Save(o, flag)
      \/ \E o \in Members : Archive(o)
  BY <1>1, ExternalKeeps DEF Next, Native, Tick, vars, CreateNative, Opens, Refused, AgentMoves, OptOut,
     MapExternal, UnmapExternal
<1>3. PICK o \in Members : Expected(o) /\ Closes(o)
  BY <1>2 DEF Save, Archive
<1>4. o = m
  BY <1>1, <1>3 DEF CrmInv, Closes
<1>5. QED
  BY <1>3, <1>4

\* What a save or an archive replaces is what the member's form shows
\* (crm/service.ts update with the expected version).
THEOREM SavesSee == Spec => SavesSeeWhatTheyReplace
<1> DEFINE Sees == \A m \in Members :
                      LET r == form[m].record IN
                      (r # NoRecord /\ form'[m] = NoForm /\ row' # row) => form[m] = Form(r, row[r])
<1>1. CrmInv /\ [Next]_vars => [Sees]_vars
  <2> SUFFICES ASSUME CrmInv, [Next]_vars, NEW m \in Members,
                      form[m].record # NoRecord, form'[m] = NoForm, row' # row
               PROVE  form[m] = Form(form[m].record, row[form[m].record])
    OBVIOUS
  <2>1. Expected(m)
    BY FormsClose
  <2>2. QED
    BY <2>1 DEF CrmInv, FormSound, Expected
<1>2. QED
  BY <1>1, CrmInductive, PTL DEF Spec, SavesSeeWhatTheyReplace


-----------------------------------------------------------------------------
(* Webhook deliveries.                                                     *)

USE OutboxAssumption

\* A row's token is its last attempt; a row nobody made was never tried; an
\* event leaves its deliveries when it is published, not later.
RowInv ==
  \A d \in Posts :
    /\ outbox[d].status = "none" => outbox[d].attempts = 0
    /\ outbox[d].status = "running" =>
         outbox[d].token = outbox[d].attempts /\ outbox[d].attempts # 0
    /\ outbox[d].status # "none" /\ d.occasion \in Occurrences => d.occasion \in published

\* The journal is behind the row: it has no entry for an attempt to come, nor
\* for the one that runs.
JournalInv ==
  \A d \in Posts : \A j \in journal[d] :
    /\ j.attempt <= outbox[d].attempts
    /\ outbox[d].status = "running" => j.attempt < outbox[d].attempts

\* Attempts are told apart by their number, and a delivered one arrived.
SenderInv ==
  /\ \A w \in Senders, d \in Posts : Holds(w, d) => sender[w].attempt \in 1 .. outbox[d].attempts
  /\ \A w, v \in Senders, d \in Posts :
       Holds(w, d) /\ Holds(v, d) /\ sender[w].attempt = sender[v].attempt => w = v
  /\ \A w \in Senders, d \in Posts : Holds(w, d) /\ sender[w].pc = "answered" =>
       /\ sender[w].result # "none"
       /\ sender[w].result = "delivered" => d \in received

OutboxInv == OutboxTypeOK /\ RowInv /\ JournalInv /\ SenderInv /\ JournalIsTheTruth

-----------------------------------------------------------------------------
(* Every row, entry and worker always has its type.                        *)

LEMMA OutboxTypeInit == OutboxInit => OutboxTypeOK
<1> SUFFICES ASSUME OutboxInit
             PROVE  OutboxTypeOK
  OBVIOUS
<1>1. NoPost \in PostRows /\ IdleSender \in SenderRows
  BY DEF NoPost, PostRows, IdleSender, SenderRows
<1>2. QED
  BY <1>1 DEF OutboxInit, OutboxTypeOK

\* One row or one worker changes at a time.
LEMMA OneChanges ==
  ASSUME OutboxTypeOK
  PROVE  /\ \A d \in Posts, r \in PostRows : [outbox EXCEPT ![d] = r] \in [Posts -> PostRows]
         /\ \A w \in Senders, r \in SenderRows :
              [sender EXCEPT ![w] = r] \in [Senders -> SenderRows]
         /\ \A d \in Posts, j \in JournalRows :
              [journal EXCEPT ![d] = @ \union {j}] \in [Posts -> SUBSET JournalRows]
BY DEF OutboxTypeOK

LEMMA OutboxTypeStep == OutboxTypeOK /\ SenderInv /\ [OutboxNext]_outboxVars => OutboxTypeOK'
<1> SUFFICES ASSUME OutboxTypeOK, SenderInv, [OutboxNext]_outboxVars
             PROVE  OutboxTypeOK'
  OBVIOUS
<1>0. IdleSender \in SenderRows /\ NewPost \in PostRows
  BY DEF IdleSender, SenderRows, NewPost, NoPost, PostRows
<1>1. ASSUME NEW e \in Endpoints, CreateEndpoint(e) \/ SwitchEndpoint(e)
      PROVE  OutboxTypeOK'
  BY <1>1 DEF OutboxTypeOK, CreateEndpoint, SwitchEndpoint
<1>2. ASSUME NEW event \in Occurrences, Publish(event)
      PROVE  OutboxTypeOK'
  BY <1>0, <1>2 DEF OutboxTypeOK, Publish, Add
<1>3. ASSUME NEW d \in Posts, TestEndpoint(d)
      PROVE  OutboxTypeOK'
  BY <1>0, <1>3 DEF OutboxTypeOK, TestEndpoint, Add
<1>4. ASSUME NEW d \in Posts, Revive(d)
      PROVE  OutboxTypeOK'
  <2> DEFINE r == [outbox[d] EXCEPT !.status = "pending",
                                    !.allowed = outbox[d].attempts + Allowance,
                                    !.token = 0, !.lapsed = FALSE]
  <2>1. outbox' = [outbox EXCEPT ![d] = r]
    BY <1>4 DEF Revive, OutboxTypeOK
  <2>2. r \in PostRows
    <3>1. outbox[d].attempts + Allowance \in Nat
      BY DEF OutboxTypeOK, PostRows
    <3>2. QED
      BY <3>1 DEF OutboxTypeOK, PostRows
  <2>3. outbox' \in [Posts -> PostRows]
    BY <2>1, <2>2, OneChanges
  <2>4. revivals' \in 0 .. MaxRevivals
    BY <1>4 DEF Revive, OutboxTypeOK
  <2>5. QED
    BY <1>4, <2>3, <2>4 DEF Revive, OutboxTypeOK
<1>5. ASSUME NEW d \in Posts, LeaseLapses(d)
      PROVE  OutboxTypeOK'
  <2> DEFINE r == [outbox[d] EXCEPT !.lapsed = TRUE]
  <2>1. r \in PostRows
    BY DEF OutboxTypeOK, PostRows
  <2>2. outbox' = [outbox EXCEPT ![d] = r]
    BY <1>5 DEF LeaseLapses, OutboxTypeOK
  <2>3. outbox' \in [Posts -> PostRows]
    BY <2>1, <2>2, OneChanges
  <2>4. lapses' \in 0 .. MaxLapses
    BY <1>5 DEF LeaseLapses, OutboxTypeOK
  <2>5. QED
    BY <1>5, <2>3, <2>4 DEF LeaseLapses, OutboxTypeOK
<1>6. ASSUME NEW w \in Senders, NEW d \in Posts, ClaimPost(w, d)
      PROVE  OutboxTypeOK'
  <2> DEFINE n == outbox[d].attempts + 1
             r == [outbox[d] EXCEPT !.status = "running", !.attempts = n, !.token = n,
                                    !.lapsed = FALSE]
             q == [IdleSender EXCEPT !.pc = "claimed", !.post = {d}, !.attempt = n,
                                     !.allowed = outbox[d].allowed]
  <2>0. n \in Nat /\ outbox[d].allowed \in Nat
    BY DEF OutboxTypeOK, PostRows
  <2> HIDE DEF n
  <2>1. r \in PostRows
    BY <2>0 DEF OutboxTypeOK, PostRows
  <2>2. q \in SenderRows
    BY <2>0 DEF OutboxTypeOK, SenderRows, IdleSender
  <2>3. outbox' = [outbox EXCEPT ![d] = r] /\ sender' = [sender EXCEPT ![w] = q]
    BY <1>6 DEF ClaimPost, OutboxTypeOK, n
  <2>4. outbox' \in [Posts -> PostRows] /\ sender' \in [Senders -> SenderRows]
    BY <2>1, <2>2, <2>3, OneChanges
  <2>5. QED
    BY <1>6, <2>4 DEF ClaimPost, OutboxTypeOK
<1>7. ASSUME NEW w \in Senders, NEW d \in Posts, PreparePost(w, d)
      PROVE  OutboxTypeOK'
  <2> DEFINE n == sender[w].attempt - 1
             j == [attempt |-> n, outcome |-> "lease_expired_outcome_unknown"]
             q == [sender[w] EXCEPT !.pc = "prepared", !.on = endpoint[d.endpoint] = "enabled"]
  <2>1. q \in SenderRows
    BY DEF OutboxTypeOK, SenderRows
  <2>2. sender' \in {[sender EXCEPT ![w] = q], [sender EXCEPT ![w] = IdleSender]}
    BY <1>7 DEF PreparePost, Rest, OutboxTypeOK
  <2>3. sender' \in [Senders -> SenderRows]
    BY <1>0, <2>1, <2>2, OneChanges
  <2>4. journal' = journal \/ (n > 0 /\ journal' = [journal EXCEPT ![d] = @ \union {j}])
    BY <1>7 DEF PreparePost, OutboxTypeOK
  <2>5. n > 0 => j \in JournalRows
    BY DEF OutboxTypeOK, SenderRows, JournalRows, Outcomes
  <2>6. journal' \in [Posts -> SUBSET JournalRows]
    BY <2>4, <2>5, OneChanges DEF OutboxTypeOK
  <2>7. QED
    BY <1>7, <2>3, <2>6 DEF PreparePost, OutboxTypeOK
<1>8. ASSUME NEW w \in Senders, NEW d \in Posts, Refuse(w, d)
      PROVE  OutboxTypeOK'
  <2> DEFINE q == [sender[w] EXCEPT !.pc = "answered",
                     !.result = IF Spent(w) THEN "attempts_exhausted" ELSE "endpoint_disabled"]
  <2>1. q \in SenderRows
    BY DEF OutboxTypeOK, SenderRows, Outcomes
  <2>2. sender' = [sender EXCEPT ![w] = q]
    BY <1>8 DEF Refuse, OutboxTypeOK
  <2>3. sender' \in [Senders -> SenderRows]
    BY <2>1, <2>2, OneChanges
  <2>4. QED
    BY <1>8, <2>3 DEF Refuse, OutboxTypeOK
<1>9. ASSUME NEW w \in Senders, NEW d \in Posts, PostOut(w, d)
      PROVE  OutboxTypeOK'
  <2>1. PICK result \in {"delivered", "refused", "transport_failed"} :
          sender' = [sender EXCEPT ![w].pc = "answered", ![w].result = result]
    BY <1>9 DEF PostOut
  <2> DEFINE q == [sender[w] EXCEPT !.pc = "answered", !.result = result]
  <2>2. q \in SenderRows
    BY ZenonT(30) DEF OutboxTypeOK, SenderRows, Outcomes
  <2>3. sender' = [sender EXCEPT ![w] = q]
    BY <2>1 DEF OutboxTypeOK
  <2>4. sender' \in [Senders -> SenderRows]
    BY <2>2, <2>3, OneChanges
  <2>5. sender[w].attempt \in Nat \ {0}
    BY <1>9 DEF PostOut, SenderInv, OutboxTypeOK, PostRows
  <2>6. /\ requested' \subseteq [post : Posts, attempt : Nat \ {0}]
        /\ received' \subseteq Posts
    BY <1>9, <2>5 DEF PostOut, OutboxTypeOK
  <2>7. QED
    BY <1>9, <2>4, <2>6 DEF PostOut, OutboxTypeOK
<1>10. ASSUME NEW w \in Senders, NEW d \in Posts, SettlePost(w, d)
       PROVE  OutboxTypeOK'
  <2> DEFINE r == [outbox[d] EXCEPT !.status = Settled(w), !.token = 0, !.lapsed = FALSE]
             j == [attempt |-> sender[w].attempt, outcome |-> sender[w].result]
  <2>1. sender' \in [Senders -> SenderRows]
    BY <1>0, <1>10, OneChanges DEF SettlePost, Rest
  <2>2. Settled(w) \in {"succeeded", "dead", "pending"}
    BY DEF Settled
  <2>3. r \in PostRows
    BY <2>2 DEF OutboxTypeOK, PostRows
  <2>4. j \in JournalRows
    BY <1>10 DEF SettlePost, SenderInv, OutboxTypeOK, PostRows, SenderRows, JournalRows
  <2>5. \/ outbox' = outbox /\ journal' = journal
        \/ /\ outbox' = [outbox EXCEPT ![d] = r]
           /\ journal' = [journal EXCEPT ![d] = @ \union {j}]
    BY <1>10 DEF SettlePost, OutboxTypeOK
  <2>6. outbox' \in [Posts -> PostRows] /\ journal' \in [Posts -> SUBSET JournalRows]
    BY <2>3, <2>4, <2>5, OneChanges DEF OutboxTypeOK
  <2>7. QED
    BY <1>10, <2>1, <2>6 DEF SettlePost, OutboxTypeOK
<1>11. ASSUME NEW w \in Senders, SenderDies(w)
       PROVE  OutboxTypeOK'
  <2>1. sender' \in [Senders -> SenderRows]
    BY <1>0, <1>11, OneChanges DEF SenderDies, Rest
  <2>2. lapses' \in 0 .. MaxLapses
    BY <1>11 DEF SenderDies, OutboxTypeOK
  <2>3. QED
    BY <1>11, <2>1, <2>2 DEF SenderDies, OutboxTypeOK
<1>12. CASE UNCHANGED outboxVars
  BY <1>12 DEF OutboxTypeOK, outboxVars
<1>13. QED
  BY <1>1, <1>2, <1>3, <1>4, <1>5, <1>6, <1>7, <1>8, <1>9, <1>10, <1>11, <1>12
     DEF OutboxNext, SendPost

-----------------------------------------------------------------------------
(* The inductive invariant, one lemma per conjunct.                        *)

\* What a step can do to the row and the journal of a delivery.
Kept(d) ==
  /\ outbox'[d].status = outbox[d].status /\ outbox'[d].attempts = outbox[d].attempts
  /\ outbox'[d].token = outbox[d].token /\ journal'[d] = journal[d]
Added(d) == /\ outbox[d].status = "none" /\ outbox'[d] = NewPost /\ journal'[d] = journal[d]
            /\ d.occasion \in Occurrences => d.occasion \in published'
Revived(d) == /\ outbox[d].status = "dead" /\ outbox'[d].status = "pending"
              /\ outbox'[d].attempts = outbox[d].attempts /\ journal'[d] = journal[d]
Claimed(d) ==
  /\ Claimable(d) /\ outbox'[d].status = "running"
  /\ outbox'[d].attempts = outbox[d].attempts + 1 /\ outbox'[d].token = outbox[d].attempts + 1
  /\ journal'[d] = journal[d]
Noted(d) ==
  /\ outbox'[d] = outbox[d] /\ outbox[d].status = "running"
  /\ outbox[d].attempts - 1 > 0 /\ Entries(d, outbox[d].attempts - 1) = {}
  /\ journal'[d] = journal[d] \union
       {[attempt |-> outbox[d].attempts - 1, outcome |-> "lease_expired_outcome_unknown"]}
Ended(d) ==
  /\ outbox[d].status = "running" /\ outbox'[d].attempts = outbox[d].attempts
  /\ \E result \in Outcomes :
       /\ journal'[d] = journal[d] \union {[attempt |-> outbox[d].attempts, outcome |-> result]}
       /\ result = "delivered" => d \in received
       /\ outbox'[d].status \in IF result = "delivered" THEN {"succeeded"} ELSE {"dead", "pending"}

LEMMA RowStep ==
  ASSUME OutboxTypeOK, RowInv, SenderInv, [OutboxNext]_outboxVars, NEW d \in Posts
  PROVE  /\ Kept(d) \/ Added(d) \/ Revived(d) \/ Claimed(d) \/ Noted(d) \/ Ended(d)
         /\ published \subseteq published' /\ received \subseteq received'
<1> DEFINE Goal == /\ Kept(d) \/ Added(d) \/ Revived(d) \/ Claimed(d) \/ Noted(d) \/ Ended(d)
                   /\ published \subseteq published' /\ received \subseteq received'
<1>1. CASE UNCHANGED <<outbox, journal>> /\ published \subseteq published' /\ received \subseteq received'
  BY <1>1 DEF Kept
<1>2. ASSUME NEW e \in Endpoints, CreateEndpoint(e) \/ SwitchEndpoint(e)
      PROVE  Goal
  BY <1>1, <1>2 DEF CreateEndpoint, SwitchEndpoint
<1>3. ASSUME NEW event \in Occurrences, Publish(event)
      PROVE  Goal
  <2>1. /\ event \notin published /\ published' = published \union {event}
        /\ UNCHANGED <<journal, received>>
    BY <1>3 DEF Publish
  <2>2. CASE d.occasion = event /\ outbox'[d] = NewPost
    <3>1. outbox[d].status = "none"
      BY <2>1, <2>2 DEF RowInv
    <3>2. QED
      BY <2>1, <2>2, <3>1 DEF Added
  <2>3. CASE outbox'[d] = outbox[d]
    BY <2>1, <2>3 DEF Kept
  <2>4. QED
    BY <1>3, <2>2, <2>3 DEF Publish, Add
<1>4. ASSUME NEW c \in Posts, TestEndpoint(c)
      PROVE  Goal
  BY <1>4 DEF TestEndpoint, Add, Added, Kept
<1>5. ASSUME NEW c \in Posts, Revive(c)
      PROVE  Goal
  BY <1>5 DEF Revive, Revivable, Revived, Kept, OutboxTypeOK, PostRows
<1>6. ASSUME NEW c \in Posts, LeaseLapses(c)
      PROVE  Goal
  BY <1>6 DEF LeaseLapses, Kept, OutboxTypeOK, PostRows
<1>7. ASSUME NEW w \in Senders, NEW c \in Posts, ClaimPost(w, c)
      PROVE  Goal
  BY <1>7 DEF ClaimPost, Claimed, Kept, OutboxTypeOK, PostRows
<1>8. ASSUME NEW w \in Senders, NEW c \in Posts, PreparePost(w, c)
      PROVE  Goal
  <2>1. UNCHANGED <<outbox, published, received>>
    BY <1>8 DEF PreparePost
  <2>2. CASE journal' = journal
    BY <2>1, <2>2, <1>1
  <2>3. CASE journal' # journal
    <3> DEFINE n == sender[w].attempt - 1
    <3>1. /\ Current(w, c) /\ n > 0 /\ Entries(c, n) = {}
          /\ journal' = [journal EXCEPT ![c] =
               @ \union {[attempt |-> n, outcome |-> "lease_expired_outcome_unknown"]}]
      BY <1>8, <2>3 DEF PreparePost, OutboxTypeOK
    <3>2. sender[w].attempt = outbox[c].attempts /\ outbox[c].status = "running"
      BY <3>1 DEF Current, RowInv
    <3>3. CASE c = d
      BY <2>1, <3>1, <3>2, <3>3 DEF Noted, OutboxTypeOK
    <3>4. CASE c # d
      BY <2>1, <3>1, <3>4 DEF Kept, OutboxTypeOK
    <3>5. QED
      BY <3>3, <3>4
  <2>4. QED
    BY <2>2, <2>3
<1>9. ASSUME NEW w \in Senders, NEW c \in Posts, Refuse(w, c) \/ PostOut(w, c)
      PROVE  Goal
  BY <1>1, <1>9 DEF Refuse, PostOut
<1>10. ASSUME NEW w \in Senders, NEW c \in Posts, SettlePost(w, c)
       PROVE  Goal
  <2>1. UNCHANGED <<published, received>> /\ Holds(w, c) /\ sender[w].pc = "answered"
    BY <1>10 DEF SettlePost
  <2>2. CASE ~Current(w, c)
    BY <1>1, <1>10, <2>1, <2>2 DEF SettlePost, Settles
  <2>3. CASE Current(w, c)
    <3>1. /\ outbox' = [outbox EXCEPT ![c].status = Settled(w), ![c].token = 0,
                                      ![c].lapsed = FALSE]
          /\ journal' = [journal EXCEPT ![c] =
               @ \union {[attempt |-> sender[w].attempt, outcome |-> sender[w].result]}]
      BY <1>10, <2>3 DEF SettlePost, Settles
    <3>2. sender[w].attempt = outbox[c].attempts /\ outbox[c].status = "running"
      BY <2>3 DEF Current, RowInv
    <3>3. /\ sender[w].result \in Outcomes
          /\ sender[w].result = "delivered" => c \in received
      BY <2>1 DEF SenderInv, OutboxTypeOK, SenderRows
    <3>4. Settled(w) \in IF sender[w].result = "delivered" THEN {"succeeded"}
                         ELSE {"dead", "pending"}
      BY DEF Settled
    <3>5. CASE c = d
      <4>1. /\ outbox'[d].status = Settled(w) /\ outbox'[d].attempts = outbox[d].attempts
            /\ journal'[d] = journal[d] \union
                 {[attempt |-> outbox[d].attempts, outcome |-> sender[w].result]}
        BY <3>1, <3>2, <3>5 DEF OutboxTypeOK, PostRows
      <4>2. QED
        BY <2>1, <3>2, <3>3, <3>4, <3>5, <4>1 DEF Ended
    <3>6. CASE c # d
      BY <2>1, <3>1, <3>6 DEF Kept, OutboxTypeOK
    <3>7. QED
      BY <3>5, <3>6
  <2>4. QED
    BY <2>2, <2>3
<1>11. ASSUME NEW w \in Senders, SenderDies(w)
       PROVE  Goal
  BY <1>1, <1>11 DEF SenderDies
<1>12. CASE UNCHANGED outboxVars
  BY <1>1, <1>12 DEF outboxVars
<1>13. QED
  BY <1>2, <1>3, <1>4, <1>5, <1>6, <1>7, <1>8, <1>9, <1>10, <1>11, <1>12
     DEF OutboxNext, SendPost

LEMMA RowInvStep == OutboxTypeOK /\ RowInv /\ SenderInv /\ [OutboxNext]_outboxVars => RowInv'
<1> SUFFICES ASSUME OutboxTypeOK, RowInv, SenderInv, [OutboxNext]_outboxVars, NEW d \in Posts
             PROVE  /\ outbox'[d].status = "none" => outbox'[d].attempts = 0
                    /\ outbox'[d].status = "running" =>
                         outbox'[d].token = outbox'[d].attempts /\ outbox'[d].attempts # 0
                    /\ outbox'[d].status # "none" /\ d.occasion \in Occurrences =>
                         d.occasion \in published'
  BY DEF RowInv
<1>1. published \subseteq published'
  BY RowStep
<1>2. outbox[d].attempts \in Nat
  BY DEF OutboxTypeOK, PostRows
<1>3. CASE Kept(d)
  BY <1>1, <1>3 DEF Kept, RowInv
<1>4. CASE Added(d)
  BY <1>1, <1>4 DEF Added, RowInv, NewPost, NoPost
<1>5. CASE Revived(d)
  BY <1>1, <1>5 DEF Revived, RowInv
<1>6. CASE Claimed(d)
  <2>1. outbox[d].attempts + 1 # 0
    BY <1>2
  <2>2. outbox[d].status # "none"
    BY <1>6 DEF Claimed, Claimable
  <2>3. QED
    BY <1>1, <1>6, <2>1, <2>2 DEF Claimed, RowInv
<1>7. CASE Noted(d)
  BY <1>1, <1>7 DEF Noted, RowInv
<1>8. CASE Ended(d)
  BY <1>1, <1>8 DEF Ended, RowInv
<1>9. QED
  BY <1>3, <1>4, <1>5, <1>6, <1>7, <1>8, RowStep

\* The journal keeps behind the row, and with it the truth.
LEMMA JournalStep ==
  OutboxTypeOK /\ RowInv /\ JournalInv /\ SenderInv /\ JournalIsTheTruth /\ [OutboxNext]_outboxVars
    => JournalInv' /\ JournalIsTheTruth'
<1> DEFINE Before(d) ==
             \A j \in journal[d] :
               /\ j.attempt <= outbox[d].attempts
               /\ outbox[d].status = "running" => j.attempt < outbox[d].attempts
           True(d) ==
             /\ \A i, j \in journal[d] : i.attempt = j.attempt => i = j
             /\ outbox[d].status = "succeeded" =>
                  d \in received /\ [attempt |-> outbox[d].attempts, outcome |-> "delivered"] \in journal[d]
             /\ outbox[d].status = "dead" =>
                  \E j \in Entries(d, outbox[d].attempts) : j.outcome # "delivered"
<1> SUFFICES ASSUME OutboxTypeOK, RowInv, JournalInv, SenderInv, JournalIsTheTruth,
                    [OutboxNext]_outboxVars, NEW d \in Posts
             PROVE  Before(d)' /\ True(d)'
  BY DEF JournalInv, JournalIsTheTruth
<1>1. Before(d) /\ True(d)
  BY DEF JournalInv, JournalIsTheTruth
<1>2. received \subseteq received'
  BY RowStep
<1>3. /\ outbox[d].attempts \in Nat
      /\ \A j \in journal[d] : j.attempt \in Nat \ {0}
      /\ outbox[d].status = "none" => outbox[d].attempts = 0
  BY DEF OutboxTypeOK, PostRows, JournalRows, RowInv
<1>4. CASE Kept(d)
  BY <1>1, <1>2, <1>4 DEF Kept, Entries
<1>5. CASE Added(d)
  <2>1. journal[d] = {} /\ journal'[d] = {}
    BY <1>1, <1>3, <1>5 DEF Added
  <2>2. outbox'[d].status = "pending"
    BY <1>5 DEF Added, NewPost, NoPost
  <2>3. QED
    BY <2>1, <2>2
<1>6. CASE Revived(d)
  BY <1>1, <1>6 DEF Revived
<1>7. CASE Claimed(d)
  BY <1>1, <1>3, <1>7 DEF Claimed
<1>8. CASE Noted(d)
  <2> DEFINE n == outbox[d].attempts - 1
             note == [attempt |-> n, outcome |-> "lease_expired_outcome_unknown"]
  <2>1. /\ outbox'[d] = outbox[d] /\ outbox[d].status = "running"
        /\ journal'[d] = journal[d] \union {note}
        /\ \A j \in journal[d] : j.attempt # n
    BY <1>8 DEF Noted, Entries
  <2>2. note.attempt = n /\ n < outbox[d].attempts /\ n <= outbox[d].attempts
    BY <1>3
  <2> HIDE DEF n, note
  <2>3. Before(d)'
    BY <1>1, <2>1, <2>2
  <2>4. \A i, j \in journal'[d] : i.attempt = j.attempt => i = j
    BY <1>1, <2>1, <2>2
  <2>5. QED
    BY <2>1, <2>3, <2>4
<1>9. CASE Ended(d)
  <2>1. PICK result \in Outcomes :
          /\ journal'[d] = journal[d] \union {[attempt |-> outbox[d].attempts, outcome |-> result]}
          /\ result = "delivered" => d \in received
          /\ outbox'[d].status \in IF result = "delivered" THEN {"succeeded"} ELSE {"dead", "pending"}
    BY <1>9 DEF Ended
  <2>2. outbox[d].status = "running" /\ outbox'[d].attempts = outbox[d].attempts
    BY <1>9 DEF Ended
  <2> DEFINE last == [attempt |-> outbox[d].attempts, outcome |-> result]
  <2>3. \A j \in journal[d] : j.attempt # outbox[d].attempts
    BY <1>1, <1>3, <2>2
  <2>4. outbox'[d].status # "running"
    BY <2>1
  <2>5. Before(d)'
    BY <1>1, <1>3, <2>1, <2>2, <2>4
  <2>6. \A i, j \in journal'[d] : i.attempt = j.attempt => i = j
    BY <1>1, <2>1, <2>3
  <2>7. CASE result = "delivered"
    BY <1>2, <2>1, <2>2, <2>5, <2>6, <2>7
  <2>8. CASE result # "delivered"
    <3>1. last \in journal'[d] /\ last.attempt = outbox'[d].attempts /\ last.outcome # "delivered"
      BY <2>1, <2>2, <2>8
    <3>2. QED
      BY <2>1, <2>5, <2>6, <2>8, <3>1 DEF Entries
  <2>9. QED
    BY <2>7, <2>8
<1>10. QED
  BY <1>4, <1>5, <1>6, <1>7, <1>8, <1>9, RowStep

LEMMA SenderInvStep ==
  OutboxTypeOK /\ RowInv /\ SenderInv /\ [OutboxNext]_outboxVars => SenderInv'
<1> SUFFICES ASSUME OutboxTypeOK, RowInv, SenderInv, [OutboxNext]_outboxVars
             PROVE  SenderInv'
  OBVIOUS
<1>1. ASSUME NEW d \in Posts
      PROVE  /\ outbox[d].attempts \in Nat /\ outbox'[d].attempts \in Nat
             /\ outbox[d].attempts <= outbox'[d].attempts
             /\ received \subseteq received'
  <2>1. outbox[d].attempts \in Nat
    BY DEF OutboxTypeOK, PostRows
  <2>2. outbox[d].status = "none" => outbox[d].attempts = 0
    BY DEF RowInv
  <2>3. outbox'[d].attempts \in {outbox[d].attempts, outbox[d].attempts + 1}
    <3>1. Added(d) => outbox'[d].attempts = outbox[d].attempts
      BY <2>2 DEF Added, NewPost, NoPost
    <3>2. Kept(d) \/ Revived(d) \/ Noted(d) \/ Ended(d) => outbox'[d].attempts = outbox[d].attempts
      BY DEF Kept, Revived, Noted, Ended
    <3>3. Claimed(d) => outbox'[d].attempts = outbox[d].attempts + 1
      BY DEF Claimed
    <3>4. QED
      BY <3>1, <3>2, <3>3, RowStep
  <2>4. received \subseteq received'
    BY RowStep
  <2>5. QED
    BY <2>1, <2>3, <2>4
<1>2. \A w \in Senders : sender[w].attempt \in Nat
  BY DEF OutboxTypeOK, SenderRows
\* A worker goes on with its delivery and attempt, or lets them go.
<1>3. ASSUME \A w \in Senders :
               \/ sender'[w] = IdleSender
               \/ /\ sender[w].pc # "idle" /\ sender'[w].post = sender[w].post
                  /\ sender'[w].attempt = sender[w].attempt
                  /\ \A d \in Posts : sender'[w].post = {d} /\ sender'[w].pc = "answered" =>
                       /\ sender'[w].result # "none"
                       /\ sender'[w].result = "delivered" => d \in received'
               \/ sender'[w] = sender[w]
      PROVE  SenderInv'
  <2>1. ASSUME NEW w \in Senders, NEW d \in Posts, Holds(w, d)'
        PROVE  Holds(w, d) /\ sender'[w].attempt = sender[w].attempt
    BY <1>3, <2>1 DEF Holds, IdleSender
  <2>2. ASSUME NEW w \in Senders, NEW d \in Posts, Holds(w, d)', sender'[w].pc = "answered"
        PROVE  /\ sender'[w].result # "none"
               /\ sender'[w].result = "delivered" => d \in received'
    <3>1. CASE sender'[w] = sender[w]
      BY <1>1, <2>1, <2>2, <3>1 DEF SenderInv
    <3>2. QED
      BY <1>3, <2>2, <3>1 DEF Holds, IdleSender
  <2>3. ASSUME NEW w \in Senders, NEW d \in Posts, Holds(w, d)'
        PROVE  sender'[w].attempt \in 1 .. outbox'[d].attempts
    <3>1. sender[w].attempt \in 1 .. outbox[d].attempts /\ sender'[w].attempt = sender[w].attempt
      BY <2>1, <2>3 DEF SenderInv
    <3>2. QED
      BY <1>1, <3>1
  <2>4. QED
    BY <2>1, <2>2, <2>3 DEF SenderInv
<1>4. ASSUME NEW w \in Senders, NEW d \in Posts, ClaimPost(w, d)
      PROVE  SenderInv'
  <2> DEFINE n == outbox[d].attempts + 1
  <2>1. /\ sender' = [sender EXCEPT ![w] =
              [IdleSender EXCEPT !.pc = "claimed", !.post = {d}, !.attempt = n,
                                 !.allowed = outbox[d].allowed]]
        /\ outbox' = [outbox EXCEPT ![d].status = "running", ![d].attempts = @ + 1,
                                    ![d].token = outbox[d].attempts + 1, ![d].lapsed = FALSE]
    BY <1>4 DEF ClaimPost
  <2>2. outbox'[d].attempts = n
    BY <2>1 DEF OutboxTypeOK, PostRows
  <2>3. /\ sender'[w].pc = "claimed" /\ sender'[w].post = {d} /\ sender'[w].attempt = n
        /\ \A v \in Senders : v # w => sender'[v] = sender[v]
    BY <2>1 DEF OutboxTypeOK, SenderRows, IdleSender
  <2>4. n \in 1 .. outbox'[d].attempts /\ \A m \in 1 .. outbox[d].attempts : m # n
    BY <1>1, <2>2
  <2> HIDE DEF n
  <2>5. ASSUME NEW v \in Senders, NEW c \in Posts, Holds(v, c)'
        PROVE  /\ sender'[v].attempt \in 1 .. outbox'[c].attempts
               /\ v # w => Holds(v, c) /\ sender'[v] = sender[v]
               /\ v = w => c = d
    <3>1. CASE v = w
      BY <2>3, <2>4, <2>5, <3>1 DEF Holds
    <3>2. CASE v # w
      <4>1. sender'[v] = sender[v] /\ Holds(v, c)
        BY <2>3, <2>5, <3>2 DEF Holds
      <4>2. sender[v].attempt \in 1 .. outbox[c].attempts
        BY <4>1 DEF SenderInv
      <4>3. QED
        BY <1>1, <3>2, <4>1, <4>2
    <3>3. QED
      BY <3>1, <3>2
  <2>6. ASSUME NEW v \in Senders, v # w, Holds(v, d)'
        PROVE  sender'[v].attempt # n
    <3>1. sender'[v] = sender[v] /\ Holds(v, d)
      BY <2>5, <2>6
    <3>2. sender[v].attempt \in 1 .. outbox[d].attempts
      BY <3>1 DEF SenderInv
    <3>3. QED
      BY <2>4, <3>1, <3>2
  <2>7. ASSUME NEW v \in Senders, NEW u \in Senders, NEW c \in Posts,
               Holds(v, c)', Holds(u, c)', sender'[v].attempt = sender'[u].attempt
        PROVE  v = u
    BY <2>3, <2>5, <2>6, <2>7 DEF SenderInv
  <2>8. ASSUME NEW v \in Senders, NEW c \in Posts, Holds(v, c)', sender'[v].pc = "answered"
        PROVE  /\ sender'[v].result # "none"
               /\ sender'[v].result = "delivered" => c \in received'
    <3>1. v # w
      BY <2>3, <2>8
    <3>2. QED
      BY <1>1, <2>5, <2>8, <3>1 DEF SenderInv
  <2>9. QED
    BY <2>5, <2>7, <2>8 DEF SenderInv
<1>5. ASSUME NEW w \in Senders, NEW d \in Posts, PreparePost(w, d)
      PROVE  SenderInv'
  BY <1>3, <1>5 DEF PreparePost, Rest, OutboxTypeOK, SenderRows
<1>6. ASSUME NEW w \in Senders, NEW d \in Posts, Refuse(w, d)
      PROVE  SenderInv'
  BY <1>3, <1>6 DEF Refuse, Holds, OutboxTypeOK, SenderRows
<1>7. ASSUME NEW w \in Senders, NEW d \in Posts, PostOut(w, d)
      PROVE  SenderInv'
  <2>1. PICK result \in {"delivered", "refused", "transport_failed"}, arrives \in BOOLEAN :
          /\ result = "delivered" => arrives
          /\ sender' = [sender EXCEPT ![w].pc = "answered", ![w].result = result]
          /\ received' = IF arrives THEN received \union {d} ELSE received
    BY <1>7 DEF PostOut
  <2>2. sender[w].pc # "idle" /\ sender[w].post = {d}
    BY <1>7 DEF PostOut, Holds
  <2>3. /\ sender'[w].post = {d} /\ sender'[w].attempt = sender[w].attempt
        /\ sender'[w].result = result
        /\ \A v \in Senders : v # w => sender'[v] = sender[v]
    BY <2>1, <2>2 DEF OutboxTypeOK, SenderRows
  <2>4. \A c \in Posts : {d} = {c} => d = c
    OBVIOUS
  <2>5. QED
    BY <1>3, <2>1, <2>2, <2>3, <2>4
<1>8. ASSUME NEW w \in Senders, NEW d \in Posts, SettlePost(w, d)
      PROVE  SenderInv'
  BY <1>3, <1>8 DEF SettlePost, Rest, OutboxTypeOK
<1>9. ASSUME NEW w \in Senders, SenderDies(w)
      PROVE  SenderInv'
  BY <1>3, <1>9 DEF SenderDies, Rest, OutboxTypeOK
<1>10. CASE UNCHANGED sender
  BY <1>3, <1>10
<1>11. QED
  BY <1>4, <1>5, <1>6, <1>7, <1>8, <1>9, <1>10
     DEF OutboxNext, SendPost, CreateEndpoint, SwitchEndpoint, Publish, TestEndpoint, Revive,
         LeaseLapses, outboxVars

-----------------------------------------------------------------------------
(* The theorems.                                                           *)

LEMMA OutboxInvInit == OutboxInit => OutboxInv
<1> SUFFICES ASSUME OutboxInit
             PROVE  OutboxInv
  OBVIOUS
<1>1. \A d \in Posts : /\ outbox[d].status = "none" /\ outbox[d].attempts = 0
                       /\ journal[d] = {}
  BY DEF OutboxInit, NoPost
<1>2. \A w \in Senders, d \in Posts : ~Holds(w, d)
  BY DEF OutboxInit, IdleSender, Holds
<1>3. QED
  BY <1>1, <1>2, OutboxTypeInit DEF OutboxInv, RowInv, JournalInv, SenderInv, JournalIsTheTruth

\* Over any endpoints, deliveries, workers, allowances, retries and lapses.
THEOREM OutboxInductive == OutboxSpec => []OutboxInv
<1>1. OutboxInv /\ [OutboxNext]_outboxVars => OutboxInv'
  BY OutboxTypeStep, RowInvStep, JournalStep, SenderInvStep DEF OutboxInv
<1>2. QED
  BY OutboxInvInit, <1>1, PTL DEF OutboxSpec

\* worker.ts: a delivery that succeeded was received, one that is dead has a
\* last attempt that says why, and no attempt has two entries.
THEOREM JournalTold == OutboxSpec => []JournalIsTheTruth
<1>1. OutboxInv => JournalIsTheTruth
  BY DEF OutboxInv
<1>2. QED
  BY OutboxInductive, <1>1, PTL

\* The lease token of the claim: at most one worker can settle a delivery.
OneSettles == \A w, v \in Senders, d \in Posts : Current(w, d) /\ Current(v, d) => w = v

\* However many workers were slow or thought dead, only one of those that have
\* a delivery passes the token check of the settling transaction.
THEOREM SettledByOne == OutboxSpec => []OneSettles
<1>1. OutboxInv => OneSettles
  BY DEF OutboxInv, SenderInv, Current, OneSettles
<1>2. QED
  BY OutboxInductive, <1>1, PTL

=============================================================================
