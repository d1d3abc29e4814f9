------------------------------ MODULE MCRecovery ------------------------------
(***************************************************************************)
(* Both generations of recovery, side by side: the agents that prepare one *)
(* handoff for review, and the cases with their messages; the credit for   *)
(* recovered work; and the records of the sales team that they all read.   *)
(* A behaviour runs one and leaves the others in their initial state: the  *)
(* models share no variable.                                               *)
(***************************************************************************)
EXTENDS Recovery, Workforce, Attribution, SalesRecords, TLC

CONSTANT Generations

VARIABLE generation

caseVars == <<vars, attributionVars>>
otherVars == <<workforceVars, salesVars>>
generationVars == <<generation, caseVars, otherVars>>

\* A part that does not run has one initial state.
GenerationsInit ==
  /\ Init /\ WorkforceInit /\ AttributionInit /\ SalesInit
  /\ generation \in Generations
  /\ generation # "records" => workbook = {}

GenerationsNext ==
  /\ UNCHANGED generation
  /\ \/ generation = "cases" /\ Next /\ UNCHANGED <<attributionVars, otherVars>>
     \/ generation = "credit" /\ AttributionNext /\ UNCHANGED <<vars, otherVars>>
     \/ generation = "handoffs" /\ WorkforceNext /\ UNCHANGED <<caseVars, salesVars>>
     \/ generation = "records" /\ SalesNext /\ UNCHANGED <<caseVars, workforceVars>>

GenerationsSpec == GenerationsInit /\ [][GenerationsNext]_generationVars

\* Two agents: the older one has its turn first.
HelperSeq == <<"older", "younger">>

\* One case with an opportunity and an appointment; what a member may claim.
OutcomeSet == {"deal", "visit"}
CaseMap == [o \in OutcomeSet |-> "case"]
KindMap == [o \in OutcomeSet |-> IF o = "deal" THEN "opportunity" ELSE "appointment"]
Form(status, amount, payment, paid) ==
  [status |-> status, amount |-> amount, payment |-> payment, paidAt |-> paid]
ClaimSet ==
  {Form("AI_RECOVERED", 1, "p", 1), Form("AI_RECOVERED", 0, "none", Never)}

\* Groups of records that rules tie together; none where another part runs.
KindSet ==
  [company |-> "companies", ann |-> "contacts", ben |-> "contacts", north |-> "pipelines",
   south |-> "pipelines", new |-> "stages", old |-> "stages", roof |-> "opportunities",
   offer |-> "estimates", visit |-> "appointments", talk |-> "conversations",
   words |-> "messages", todo |-> "tasks", remark |-> "notes"]
WorkbookSet ==
  {{}, {"company", "ann", "north", "new", "roof"}, {"north", "south", "new", "old"},
   {"ann", "north", "new", "old", "roof"}, {"ann", "ben", "north", "new", "roof", "visit"},
   {"ann", "north", "new", "roof", "offer"}, {"ann", "talk", "words", "todo", "remark"}}

\* No definition tells two cases or two dispatches apart.
RecoverySymmetry ==
    Permutations(Cases) \cup Permutations(Dispatches)
==============================================================================
