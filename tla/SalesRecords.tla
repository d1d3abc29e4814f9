----------------------------- MODULE SalesRecords -----------------------------
(***************************************************************************)
(* The records of a sales team and what keeps them together (crm/service.ts *)
(* with repository.ts, validation.ts, custom-fields.ts and the checks of    *)
(* the canonical CRM migration), and the version 1 imports that write       *)
(* opportunities beside it (workforce/crm/projector.ts).                    *)
(*                                                                          *)
(* Every operation is one transaction under the organization's lock.  What  *)
(* versions a member has read and what an import overwrites is CrmSync; here *)
(* are the references between records of eleven kinds, the stages that give *)
(* opportunities their status, and the fields an organization requires.     *)
(* Amounts and times are left out but for those that must be there.         *)
(***************************************************************************)
EXTENDS Naturals, FiniteSets

CONSTANTS
  RecordKind,   \* the resource of each record that may be created
  Workbooks,    \* sets of records a behaviour works with
  NoLink,       \* no reference
  Currencies,
  Positions,    \* of stages that are created or moved one by one
  FieldKind     \* the resource the organization may define a required field for

ASSUME SalesAssumption ==
  /\ \A w \in Workbooks : IsFiniteSet(w) /\ NoLink \notin w
  /\ Positions \subseteq Nat

VARIABLES
  crm,       \* the row of each record
  workbook,  \* the records of this behaviour
  field      \* the required field: "none", "active" or "archived"

salesVars == <<crm, workbook, field>>

Links == {"company", "contact", "pipeline", "stage", "opportunity", "conversation", "related"}
NoLinks == [k \in Links |-> NoLink]
NoRecord == [state |-> "none", to |-> NoLinks, status |-> "none", currency |-> "none",
             position |-> 0, dated |-> FALSE, filled |-> FALSE, owes |-> FALSE]

SalesInit ==
  /\ workbook \in Workbooks
  /\ crm = [r \in workbook |-> NoRecord]
  /\ field = "none"

RowStatuses ==
  {"none", "open", "estimate_sent", "won", "lost", "draft", "sent", "accepted", "declined",
   "completed", "recorded"}
CrmRows ==
  [state : {"none", "active", "archived"}, to : [Links -> workbook \union {NoLink}],
   status : RowStatuses, currency : Currencies \union {"none"}, position : Nat,
   dated : BOOLEAN, filled : BOOLEAN, owes : BOOLEAN]
SalesTypeOK ==
  /\ workbook \in Workbooks
  /\ crm \in [workbook -> CrmRows]
  /\ field \in {"none", "active", "archived"}

-----------------------------------------------------------------------------
(* Resources.                                                              *)

OfKind(r, kind) == r \in workbook /\ RecordKind[r] = kind
InUse(r) == r \in workbook /\ crm[r].state = "active"
Stored(r) == crm[r].state # "none"

\* The references a resource must have, and those it may have.
MustLink(kind) ==
  CASE kind = "stages" -> {"pipeline"}
    [] kind = "opportunities" -> {"contact", "pipeline", "stage"}
    [] kind = "estimates" -> {"opportunity"}
    [] kind \in {"appointments", "conversations"} -> {"contact"}
    [] kind = "notes" -> {"related"}
    [] kind = "messages" -> {"conversation"}
    [] OTHER -> {}
MayLink(kind) ==
  CASE kind \in {"contacts", "opportunities"} -> {"company"}
    [] kind = "appointments" -> {"opportunity"}
    [] kind = "tasks" -> {"related"}
    [] OTHER -> {}

\* References that stay what they were created with.
Fixed(kind) ==
  CASE kind = "opportunities" -> {"contact"}
    [] kind = "appointments" -> {}
    [] OTHER -> MustLink(kind)

\* The resource a reference leads to; a related record may be of any.
Leads(link, r) ==
  CASE link = "company" -> OfKind(r, "companies")
    [] link = "contact" -> OfKind(r, "contacts")
    [] link = "pipeline" -> OfKind(r, "pipelines")
    [] link = "stage" -> OfKind(r, "stages")
    [] link = "opportunity" -> OfKind(r, "opportunities")
    [] link = "conversation" -> OfKind(r, "conversations")
    [] link = "related" -> r \in workbook

\* What a form says of a record: an outcome for a stage, the status of others.
\* An estimate that expired is like one that was declined.
RecordStatuses(kind) ==
  CASE kind = "stages" -> {"open", "won", "lost"}
    [] kind = "estimates" -> {"draft", "sent", "accepted", "declined"}
    [] kind = "tasks" -> {"open", "completed"}
    [] kind = "messages" -> {"draft", "recorded"}
    [] OTHER -> {"none"}

\* What a form may put into a reference, and the rows it can ask for.  A stamp
\* is the acceptance of an estimate.
Offered(kind, link) ==
  LET choices == {r \in workbook : Leads(link, r)}
  IN IF link \in MustLink(kind) THEN choices
     ELSE IF link \in MayLink(kind) THEN choices \union {NoLink} ELSE {NoLink}
FormLinks(kind) ==
  [company : Offered(kind, "company"), contact : Offered(kind, "contact"),
   pipeline : Offered(kind, "pipeline"), stage : Offered(kind, "stage"),
   opportunity : Offered(kind, "opportunity"), conversation : Offered(kind, "conversation"),
   related : Offered(kind, "related")]
FormRows(kind) ==
  [state : {"active"}, to : FormLinks(kind), status : RecordStatuses(kind),
   currency : IF kind \in {"opportunities", "estimates"} THEN Currencies ELSE {"none"},
   position : IF kind = "stages" THEN Positions ELSE {0},
   dated : IF kind = "estimates" THEN BOOLEAN ELSE {FALSE},
   filled : IF kind = FieldKind THEN BOOLEAN ELSE {FALSE},
   owes : {FALSE}]

-----------------------------------------------------------------------------
(* validateRelations.                                                      *)

\* Whatever is referred to is active.
RefersToActive(row) == \A k \in Links : row.to[k] # NoLink => InUse(row.to[k])

StageOfPipeline(row) == crm[row.to["stage"]].to["pipeline"] = row.to["pipeline"]
EstimateAgrees(row) ==
  /\ crm[row.to["opportunity"]].currency = row.currency
  /\ row.dated => row.status = "accepted"
AppointmentAgrees(row) ==
  row.to["opportunity"] # NoLink => crm[row.to["opportunity"]].to["contact"] = row.to["contact"]
\* The position of an archived stage stays taken.
PositionFree(r, row) ==
  \A s \in workbook \ {r} :
    OfKind(s, "stages") /\ Stored(s) /\ crm[s].to["pipeline"] = row.to["pipeline"]
      => crm[s].position # row.position

Related(r, row) ==
  /\ RefersToActive(row)
  /\ OfKind(r, "opportunities") => StageOfPipeline(row)
  /\ OfKind(r, "estimates") => EstimateAgrees(row)
  /\ OfKind(r, "appointments") => AppointmentAgrees(row)
  /\ OfKind(r, "stages") => PositionFree(r, row)

\* An opportunity takes its status from the stage, an estimate gets its
\* acceptance and a task its completion stamped.
Derived(r, row) ==
  [row EXCEPT
     !.status = IF OfKind(r, "opportunities") THEN crm[row.to["stage"]].status ELSE @,
     !.dated = \/ @
               \/ OfKind(r, "estimates") /\ row.status = "accepted"
               \/ OfKind(r, "tasks") /\ row.status = "completed"]

\* applyCustomFields: a value only while the field is defined; a new record needs one.
Requires(r) == RecordKind[r] = FieldKind /\ field = "active"

-----------------------------------------------------------------------------
(* Members, agents and version 2 imports, which use the same rules.        *)

Written(r, row, owes) == [Derived(r, row) EXCEPT !.owes = owes]

CreateRecord(r, row) ==
  /\ r \in workbook /\ ~Stored(r)
  /\ Related(r, row)
  /\ row.filled = Requires(r)
  /\ crm' = [crm EXCEPT ![r] = Written(r, row, Requires(r))]
  /\ UNCHANGED <<workbook, field>>

\* Mutant: the outcome of a stage follows the form although deals are in it.
OutcomeChangesFreely(r, row) == TRUE

\* An archived opportunity keeps its stage from changing as well.
OutcomeChanges(r, row) ==
  row.status # crm[r].status =>
    \A o \in workbook : Stored(o) => crm[o].to["stage"] # r

Updatable(r, row) ==
  /\ \A k \in Fixed(RecordKind[r]) : crm[r].to[k] \in {NoLink, row.to[k]}
  /\ OfKind(r, "opportunities") \/ OfKind(r, "estimates") => row.currency = crm[r].currency
  /\ OfKind(r, "messages") => crm[r].status = "draft"
  /\ OfKind(r, "stages") => OutcomeChanges(r, row)

\* The row stands for the old one with the changes of the form.  A required
\* value may be given later but not taken away.
UpdateRecord(r, row) ==
  /\ InUse(r) /\ Updatable(r, row) /\ Related(r, row)
  /\ row.filled = (crm[r].filled \/ (Requires(r) /\ row.filled))
  /\ crm' = [crm EXCEPT ![r] = Written(r, row, crm[r].owes)]
  /\ UNCHANGED <<workbook, field>>

Dependents(r) ==
  {d \in workbook : InUse(d) /\
     \/ OfKind(r, "pipelines") /\ OfKind(d, "stages") /\ crm[d].to["pipeline"] = r
     \/ OfKind(r, "stages") /\ OfKind(d, "opportunities") /\ crm[d].to["stage"] = r
     \/ OfKind(r, "contacts") /\ RecordKind[d] \in {"opportunities", "appointments", "conversations"}
          /\ crm[d].to["contact"] = r
     \/ OfKind(r, "companies") /\ crm[d].to["company"] = r
     \/ OfKind(r, "opportunities") /\ RecordKind[d] \in {"estimates", "appointments"}
          /\ crm[d].to["opportunity"] = r}

ArchiveRecord(r) ==
  /\ InUse(r) /\ Dependents(r) = {}
  /\ OfKind(r, "messages") => crm[r].status = "draft"
  /\ crm' = [crm EXCEPT ![r].state = "archived"]
  /\ UNCHANGED <<workbook, field>>

\* reorderStages: the active stages as they are given, the archived ones after
\* them in the order they had.
ReorderStages(p) ==
  LET stages == {s \in workbook : OfKind(s, "stages") /\ Stored(s) /\ crm[s].to["pipeline"] = p}
      kept == {s \in stages : InUse(s)}
      after(s) == {t \in stages \ kept : crm[t].position < crm[s].position}
      n == Cardinality(kept)
  IN /\ OfKind(p, "pipelines") /\ InUse(p)
     /\ \E order \in [kept -> 0 .. n - 1] :
          /\ \A s, t \in kept : order[s] = order[t] => s = t
          /\ crm' = [s \in workbook |->
               IF s \in kept THEN [crm[s] EXCEPT !.position = order[s]]
               ELSE IF s \in stages THEN [crm[s] EXCEPT !.position = n + Cardinality(after(s))]
               ELSE crm[s]]
     /\ UNCHANGED <<workbook, field>>

DefineField ==
  /\ field = "none" /\ field' = "active"
  /\ UNCHANGED <<crm, workbook>>

ShelveField ==
  /\ field # "none"
  /\ field' = IF field = "active" THEN "archived" ELSE "active"
  /\ UNCHANGED <<crm, workbook>>

-----------------------------------------------------------------------------
(* Version 1 events.                                                       *)

OutcomeOf(status) == IF status = "estimate_sent" THEN "open" ELSE status

\* The stages of the opportunity's pipeline that an imported status may mean.
StagesFor(r, status) ==
  {s \in workbook : OfKind(s, "stages") /\ InUse(s)
     /\ crm[s].to["pipeline"] = crm[r].to["pipeline"] /\ crm[s].status = OutcomeOf(status)}
ImportedStage(r, status) ==
  LET fit == StagesFor(r, status)
  IN IF crm[r].to["stage"] \in fit THEN crm[r].to["stage"]
     ELSE CHOOSE s \in fit : \A t \in fit : crm[s].position <= crm[t].position

NewDeal(status, contact, currency) ==
  [NoRecord EXCEPT !.state = "active", !.status = status, !.currency = currency,
                   !.to["contact"] = contact]
MovedDeal(row, status, stage) == [row EXCEPT !.status = status, !.to["stage"] = stage]

ImportDeal(r, status, contact, currency) ==
  /\ OfKind(r, "opportunities") /\ OfKind(contact, "contacts") /\ InUse(contact)
  /\ \/ /\ ~Stored(r)
        /\ crm' = [crm EXCEPT ![r] = NewDeal(status, contact, currency)]
     \/ /\ InUse(r) /\ crm[r].to["contact"] = contact /\ crm[r].currency = currency
        /\ IF crm[r].to["pipeline"] = NoLink
             THEN crm' = [crm EXCEPT ![r].status = status]
             ELSE /\ StagesFor(r, status) # {}
                  /\ crm' = [crm EXCEPT ![r] = MovedDeal(@, status, ImportedStage(r, status))]
  /\ UNCHANGED <<workbook, field>>

SalesNext ==
  \/ \E r \in workbook : \E row \in FormRows(RecordKind[r]) :
       CreateRecord(r, row) \/ UpdateRecord(r, row)
  \/ \E r \in workbook : ArchiveRecord(r) \/ ReorderStages(r)
  \/ FieldKind \in {RecordKind[r] : r \in workbook} /\ (DefineField \/ ShelveField)
  \/ \E r, contact \in workbook, status \in {"open", "estimate_sent", "won", "lost"},
        currency \in Currencies : ImportDeal(r, status, contact, currency)

SalesSpec == SalesInit /\ [][SalesNext]_salesVars

-----------------------------------------------------------------------------
(* What the operations keep between them.                                  *)

\* A business record that is active refers to active records only.
ParentsActive ==
  \A r \in workbook, k \in Links \ {"conversation", "related"} :
    InUse(r) /\ crm[r].to[k] # NoLink => InUse(crm[r].to[k])

\* A deal is in a stage of its pipeline and has the status the stage means,
\* whoever moved it; a deal outside any pipeline came from an import.
DealsMatchStages ==
  \A o \in workbook : OfKind(o, "opportunities") /\ Stored(o) =>
    /\ (crm[o].to["pipeline"] = NoLink) <=> (crm[o].to["stage"] = NoLink)
    /\ crm[o].to["stage"] # NoLink =>
         StageOfPipeline(crm[o]) /\ crm[crm[o].to["stage"]].status = OutcomeOf(crm[o].status)

MoneyAgrees ==
  \A e \in workbook : OfKind(e, "estimates") /\ Stored(e) =>
    /\ crm[e].currency = crm[crm[e].to["opportunity"]].currency
    /\ crm[e].dated <=> (crm[e].status = "accepted")

VisitsAgree ==
  \A a \in workbook : OfKind(a, "appointments") /\ Stored(a) => AppointmentAgrees(crm[a])

PositionsDiffer == \A s \in workbook : OfKind(s, "stages") /\ Stored(s) => PositionFree(s, crm[s])

\* Records made while the field was required have a value, to this day.
RequiredGiven == \A r \in workbook : crm[r].owes => crm[r].filled

\* However members, agents and imports take turns, records agree with each
\* other: parents are active, deals match their stages, estimates and
\* appointments their deal, no two stages have one place, and required values
\* are there.  Each rule is checked when one record is written, and must
\* survive every later write to the others (crm/service.ts 164-372).
RecordsAgree ==
  /\ ParentsActive /\ DealsMatchStages /\ MoneyAgrees /\ VisitsAgree
  /\ PositionsDiffer /\ RequiredGiven
=============================================================================
