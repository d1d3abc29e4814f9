---------------------------- MODULE LeadIngestion ----------------------------
(***************************************************************************)
(* Importing prospects (lead-intelligence/ingestion/service.ts, with       *)
(* repositories/businesses.ts and source-records.ts; real-estate/          *)
(* ingestion.ts for listings and their agents).                            *)
(*                                                                         *)
(* An ingestion run is named by an idempotency key.  Its records are       *)
(* handled in order, each in a transaction of its own that resolves the    *)
(* record to a canonical business (or agent), stores the raw payload as a  *)
(* version of its source record and writes the business.  A business       *)
(* transaction first takes an advisory lock for each identity of the       *)
(* record, in sorted order; an agent transaction takes none.  Transactions *)
(* are READ COMMITTED, so resolving and writing are separate steps.        *)
(***************************************************************************)
EXTENDS Integers, Sequences, FiniteSets

CONSTANTS
  Runs,        \* ingestion runs, by client, provider and idempotency key
  Kind,        \* [Runs -> {"business", "listing"}]: which importer it is
  Batch,       \* [Runs -> Seq(record)]: the records of the request
  Importers,   \* processes that execute an import
  Entities,    \* canonical rows, businesses and agents: a bound
  Slots,       \* the identifiers a row has: place id, domain, phone, ...
  UniqueSlots, \* those under a unique constraint (googlePlaceId, googleCid)
  MaxFaults    \* a bound on interrupted imports, failing statements and lost answers

\* Identifiers are positive numbers in their sort order; None is "absent".
None == 0
NoEntity == 0

(* A record of a batch: [ext, ids, name, payload, verdict].  ext is the    *)
(* provider's identifier, ids gives each slot its normalized identifier,   *)
(* name the normalized name with city and state, payload its hash, verdict *)
(* what becomes of it: the adapter fails on it or rejects it, or the        *)
(* validation of the normalized prospect finds it invalid.                 *)
Verdicts == {"unreadable", "adapter_fails", "rejected", "invalid", "valid"}

RecordsOf(r) == {Batch[r][i] : i \in 1..Len(Batch[r])}
Records == UNION {RecordsOf(r) : r \in Runs}
RecordKey(rec) == IF rec.ext # None THEN <<"external", rec.ext>> ELSE <<"payload", rec.payload>>
Keys == {RecordKey(rec) : rec \in Records}

\* Source records of businesses and of listings are rows of two tables.
ASSUME IngestionAssumption ==
  /\ Kind \in [Runs -> {"business", "listing"}]
  /\ Batch \in [Runs -> Seq(Records)]
  /\ \A rec \in Records : rec.ext \in Nat /\ rec.ids \in [Slots -> Nat] /\ rec.verdict \in Verdicts
  /\ \A r \in Runs : Kind[r] = "listing" => \A rec \in RecordsOf(r) : rec.verdict # "invalid"
  /\ \A r, q \in Runs : Kind[r] # Kind[q] =>
       \A rec \in RecordsOf(r), other \in RecordsOf(q) : RecordKey(rec) # RecordKey(other)
  /\ Entities \subseteq Nat \ {NoEntity}
  /\ None \notin Importers

VARIABLES
  ingestion,  \* the IngestionRun rows, with the counters their importer keeps
  entity,     \* the ProspectBusiness and RealEstateAgent rows
  source,     \* the source record rows, by record key
  version,    \* the raw versions <<record key, run it names, payload>>
  locks,      \* advisory locks: identity -> the importer holding it
  import,     \* what each importer is doing
  faults

ingestVars == <<ingestion, entity, source, version, locks, import, faults>>

IdsOf(ids) == {ids[s] : s \in Slots} \ {None}
\* Mutant: Only the provider's identifier is locked.
IdentitiesExternalOnly(rec) == {rec.ext} \ {None}
Identities(rec) == IdsOf(rec.ids) \union ({rec.ext} \ {None})
AllIdentities == UNION {Identities(rec) : rec \in Records}

NoRun == [status |-> "none", next |-> 1, valid |-> 0, invalid |-> 0, failed |-> 0,
          created |-> 0, updated |-> 0, duplicates |-> 0,
          twice |-> 0]  \* history: records counted as invalid and as failed
NoSource == [entity |-> NoEntity, run |-> None, payload |-> None]
NoRow == [kind |-> "none", ids |-> [s \in Slots |-> None], name |-> None]
Idle == [pc |-> "idle", run |-> None, held |-> {}, into |-> NoEntity]

IngestInit ==
  /\ ingestion = [r \in Runs |-> NoRun]
  /\ entity = [e \in Entities |-> NoRow]
  /\ source = [k \in Keys |-> NoSource]
  /\ version = {}
  /\ locks = [i \in AllIdentities |-> None]
  /\ import = [p \in Importers |-> Idle]
  /\ faults = 0

Known(k) == source[k].payload # None
Exists(e) == entity[e].kind # "none"
Rows(kind) == {e \in Entities : entity[e].kind = kind}
Current(p) == Batch[import[p].run][ingestion[import[p].run].next]
Importing(p) == import[p].pc # "idle"
KindOf(p) == Kind[import[p].run]

-----------------------------------------------------------------------------
(* The request: an existing run is only reported, whatever its state.  A   *)
(* business import that is not finished is an error to its caller; a       *)
(* listing import that is not finished is reported as failed.              *)

BeginImport(p, r) ==
  /\ ~Importing(p)
  /\ ingestion[r].status = "none"
  /\ ingestion' = [ingestion EXCEPT ![r].status = "running"]
  /\ import' = [import EXCEPT ![p] = [Idle EXCEPT !.pc = "record", !.run = r]]
  /\ UNCHANGED <<entity, source, version, locks, faults>>

\* The next record, with the counters it moved.
Advance(run, counter) == [run EXCEPT !.next = @ + 1, ![counter] = @ + 1]

\* The catch block around a record counts it again (service.ts:544-545).
CountedTwice(run) == [Advance(run, "invalid") EXCEPT !.failed = @ + 1, !.twice = @ + 1]

\* A statement fails, or does its work and its answer is lost.
Fault == faults < MaxFaults /\ faults' = faults + 1

\* A raw version of a business names the run that brought it, one of a listing none.
Named(r) == IF Kind[r] = "business" THEN r ELSE None

StoredPayload(rec, r, into) ==
  /\ source' = [source EXCEPT ![RecordKey(rec)] =
                  [entity |-> IF into = NoEntity THEN @.entity ELSE into,
                   run |-> r, payload |-> rec.payload]]
  /\ version' = version \union {<<RecordKey(rec), Named(r), rec.payload>>}

\* The listing importer catches nothing here: it throws and its run stays
\* running, for no one to finish.
Throws(kind, rec) == kind = "listing" /\ rec.verdict \in {"unreadable", "adapter_fails"}

ImportThrows(p) ==
  /\ import[p].pc = "record"
  /\ ingestion[import[p].run].next <= Len(Batch[import[p].run])
  /\ Throws(KindOf(p), Current(p))
  /\ import' = [import EXCEPT ![p] = Idle]
  /\ UNCHANGED <<ingestion, entity, source, version, locks, faults>>

\* The business importer keeps the payload of a record it could read, with the
\* business its source record had.
Keeps(kind, rec) == kind = "business" /\ rec.verdict \in {"rejected", "invalid"}

\* A record that is not a valid prospect and is not kept.
Discard(p) ==
  LET r == import[p].run rec == Current(p) IN
  /\ import[p].pc = "record"
  /\ ingestion[r].next <= Len(Batch[r])
  /\ rec.verdict # "valid" /\ ~Keeps(Kind[r], rec) /\ ~Throws(Kind[r], rec)
  /\ ingestion' = [ingestion EXCEPT ![r] =
                     Advance(@, IF rec.verdict = "adapter_fails" THEN "failed" ELSE "invalid")]
  /\ UNCHANGED <<entity, source, version, locks, import, faults>>

\* A record that is counted as invalid and kept: first counted, then stored.
\* What fails in between is swallowed for a record the adapter rejects; for an
\* invalid prospect it reaches the catch block around the record.
Reject(p) ==
  LET r == import[p].run rec == Current(p) IN
  /\ import[p].pc = "record"
  /\ ingestion[r].next <= Len(Batch[r])
  /\ Keeps(Kind[r], rec)
  /\ \E stored, fails \in BOOLEAN :
       /\ ~stored => fails
       /\ IF fails THEN Fault ELSE UNCHANGED faults
       /\ IF stored THEN StoredPayload(rec, r, NoEntity) ELSE UNCHANGED <<source, version>>
       /\ ingestion' = [ingestion EXCEPT ![r] =
            IF fails /\ rec.verdict = "invalid" THEN CountedTwice(@) ELSE Advance(@, "invalid")]
  /\ UNCHANGED <<entity, locks, import>>

BeginRecord(p) ==
  LET r == import[p].run IN
  /\ import[p].pc = "record"
  /\ ingestion[r].next <= Len(Batch[r])
  /\ Current(p).verdict = "valid"
  /\ ingestion' = [ingestion EXCEPT ![r].valid = @ + 1]
  /\ import' = [import EXCEPT ![p].pc = IF Kind[r] = "business" THEN "locking" ELSE "resolving"]
  /\ UNCHANGED <<entity, source, version, locks, faults>>

(* Advisory locks, one query each, in the order of the sorted identities.  *)

Wanted(p) == Identities(Current(p)) \ import[p].held
NextLock(p) == CHOOSE i \in Wanted(p) : \A j \in Wanted(p) : i <= j

TakeLock(p) ==
  /\ import[p].pc = "locking"
  /\ Wanted(p) # {}
  /\ locks[NextLock(p)] = None
  /\ locks' = [locks EXCEPT ![NextLock(p)] = p]
  /\ import' = [import EXCEPT ![p].held = @ \union {NextLock(p)}]
  /\ UNCHANGED <<ingestion, entity, source, version, faults>>

Locked(p) ==
  /\ import[p].pc = "locking"
  /\ Wanted(p) = {}
  /\ import' = [import EXCEPT ![p].pc = "resolving"]
  /\ UNCHANGED <<ingestion, entity, source, version, locks, faults>>

(* Resolving a record.  The result is a set: empty when a new row is to be *)
(* created, one row to merge into, more when the record is in conflict.    *)

SharingIds(kind, rec) ==
  {e \in Rows(kind) : \E s \in Slots : rec.ids[s] # None /\ rec.ids[s] = entity[e].ids[s]}
SharingName(kind, rec) == {e \in Rows(kind) : rec.name # None /\ entity[e].name = rec.name}

\* One row of the same name, city and state is only a candidate for review:
\* a new business is created.  Several are a conflict.
BusinessMatch(rec) ==
  IF rec.ext # None /\ source[RecordKey(rec)].entity # NoEntity
    THEN {source[RecordKey(rec)].entity}
  ELSE IF SharingIds("business", rec) # {} THEN SharingIds("business", rec)
  ELSE IF Cardinality(SharingName("business", rec)) > 1 THEN SharingName("business", rec)
  ELSE {}

AgentMatch(rec) ==
  IF IdsOf(rec.ids) # {} THEN SharingIds("listing", rec) ELSE SharingName("listing", rec)

Match(p) == IF KindOf(p) = "business" THEN BusinessMatch(Current(p)) ELSE AgentMatch(Current(p))

Unlocked(p) == [i \in DOMAIN locks |-> IF locks[i] = p THEN None ELSE locks[i]]
NextRecord(p) == [import EXCEPT ![p] = [Idle EXCEPT !.pc = "record", !.run = import[p].run]]

\* The transaction is rolled back and the record counted as failed.
RecordFails(p) ==
  /\ ingestion' = [ingestion EXCEPT ![import[p].run] = Advance(@, "failed")]
  /\ locks' = Unlocked(p)
  /\ import' = NextRecord(p)
  /\ UNCHANGED <<entity, source, version>>

InRecord(p) == import[p].pc \in {"locking", "resolving", "writing"}

TransactionFails(p) == InRecord(p) /\ Fault /\ RecordFails(p)

Resolve(p) ==
  /\ import[p].pc = "resolving"
  /\ IF Cardinality(Match(p)) > 1
       THEN RecordFails(p) /\ UNCHANGED faults
       ELSE /\ import' = [import EXCEPT ![p].pc = "writing",
                            ![p].into = IF Match(p) = {} THEN NoEntity
                                        ELSE CHOOSE e \in Match(p) : TRUE]
            /\ UNCHANGED <<ingestion, entity, source, version, locks, faults>>

(* Writing.  An identifier the record lacks is left alone.  A business     *)
(* whose payload is unchanged is not written; an agent is written first    *)
(* and its payload compared afterwards, with all payloads ever seen.  A     *)
(* commit whose answer is lost counts the record as failed.                *)

Fresh == {e \in Entities : ~Exists(e)}
Seen(p) ==
  LET rec == Current(p) k == RecordKey(rec) IN
  IF KindOf(p) = "business" THEN source[k].payload = rec.payload
  ELSE \E v \in version : v[1] = k /\ v[3] = rec.payload

Merged(row, kind, rec) ==
  [kind |-> kind,
   ids |-> [s \in Slots |-> IF rec.ids[s] = None THEN row.ids[s] ELSE rec.ids[s]],
   name |-> rec.name]

\* The unique constraints on place id and CID refuse the write.
Refused(e, rec) ==
  \E s \in UniqueSlots, o \in Rows("business") \ {e} :
    rec.ids[s] # None /\ entity[o].ids[s] = rec.ids[s]

Rewrites(p, target) == import[p].into = NoEntity \/ KindOf(p) = "listing" \/ ~Seen(p)

Write(p) ==
  LET r == import[p].run rec == Current(p) IN
  /\ import[p].pc = "writing"
  /\ import[p].into = NoEntity => Fresh # {}
  /\ LET created == import[p].into = NoEntity
         target == IF created THEN CHOOSE e \in Fresh : \A f \in Fresh : e <= f
                   ELSE import[p].into
     IN IF Kind[r] = "business" /\ Rewrites(p, target) /\ Refused(target, rec)
          THEN RecordFails(p) /\ UNCHANGED faults
          ELSE /\ entity' = IF Rewrites(p, target)
                              THEN [entity EXCEPT ![target] = Merged(@, Kind[r], rec)]
                              ELSE entity
               /\ StoredPayload(rec, r, target)
               /\ \E answered \in BOOLEAN :
                    /\ IF answered THEN UNCHANGED faults ELSE Fault
                    /\ ingestion' = [ingestion EXCEPT ![r] =
                         Advance(@, IF ~answered THEN "failed"
                                    ELSE IF Seen(p) THEN "duplicates"
                                    ELSE IF created THEN "created" ELSE "updated")]
               /\ locks' = Unlocked(p)
               /\ import' = NextRecord(p)

FinalStatus(run) ==
  IF run.invalid = 0 /\ run.failed = 0 THEN "completed"
  ELSE IF run.valid > run.failed THEN "partially_completed" ELSE "failed"

FinishImport(p) ==
  LET r == import[p].run IN
  /\ import[p].pc = "record"
  /\ ingestion[r].next > Len(Batch[r])
  /\ ingestion' = [ingestion EXCEPT ![r].status = FinalStatus(ingestion[r])]
  /\ import' = [import EXCEPT ![p] = Idle]
  /\ UNCHANGED <<entity, source, version, locks, faults>>

\* The process dies: its transaction is rolled back and its locks are free.
ImporterDies(p) ==
  /\ Importing(p)
  /\ faults < MaxFaults
  /\ faults' = faults + 1
  /\ locks' = Unlocked(p)
  /\ import' = [import EXCEPT ![p] = Idle]
  /\ UNCHANGED <<ingestion, entity, source, version>>

IngestNext ==
  \E p \in Importers :
    \/ \E r \in Runs : BeginImport(p, r)
    \/ ImportThrows(p) \/ Discard(p) \/ Reject(p) \/ BeginRecord(p) \/ TakeLock(p) \/ Locked(p)
    \/ Resolve(p) \/ Write(p) \/ TransactionFails(p) \/ FinishImport(p) \/ ImporterDies(p)

-----------------------------------------------------------------------------
IngestTypeOK ==
  /\ \A r \in Runs : /\ ingestion[r].status \in {"none", "running", "completed",
                                                 "partially_completed", "failed"}
                     /\ ingestion[r].next \in 1..(Len(Batch[r]) + 1)
  /\ \A e \in Entities : entity[e].kind \in {"none", "business", "listing"}
  /\ \A k \in Keys : source[k].entity \in Entities \union {NoEntity}
  /\ \A i \in AllIdentities : locks[i] \in Importers \union {None}
  /\ \A p \in Importers :
       import[p].pc \in {"idle", "record", "locking", "resolving", "writing"}

(* A business that is created shares no identifier with a business that    *)
(* exists, however two imports of the same prospect interleave: resolving  *)
(* and creating are separate statements, and only the locks on the         *)
(* identities (service.ts:76-104) keep another import from creating the    *)
(* same business in between.                                               *)
NewBusinessIsNew ==
  [][\A e \in Entities : entity'[e].kind = "business" /\ ~Exists(e) =>
       \A o \in Rows("business"), s \in Slots :
         entity'[e].ids[s] # None => entity[o].ids[s] # entity'[e].ids[s]]_ingestVars

(* The result of an import accounts for its records: each is counted once, *)
(* or twice when storing an invalid prospect fails after it was counted;   *)
(* an import that reports itself completed brought in every record of its  *)
(* batch.  And every payload a source record shows is kept as a raw        *)
(* version of it, for a business one of the run that brought it, after     *)
(* conflicts, failing statements, lost answers and deaths in any order.    *)
ImportAccounted ==
  /\ \A r \in Runs :
       LET run == ingestion[r] brought == run.created + run.updated + run.duplicates IN
       /\ run.next - 1 + run.twice = run.invalid + run.failed + brought
       /\ run.twice <= run.invalid /\ run.twice <= run.failed
       /\ run.status = "completed" => brought = Len(Batch[r])
  /\ \A k \in Keys :
       Known(k) => <<k, Named(source[k].run), source[k].payload>> \in version
=============================================================================
