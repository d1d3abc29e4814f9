\* A pipeline run that is taken up again after its process died.
CONSTANTS
  Parts = {"pipeline"}
  Runs = {1, 2, 3}
  Kind <- Kinds
  Batch <- Batches
  Importers = {1, 2}
  Entities = {1, 2, 3, 4, 5, 6}
  Slots <- SlotSet
  UniqueSlots = {"place"}
  MaxFaults = 1
  Pipelines = {"r1"}
  Processes = {"p"}
  Leads = {"l"}
  MaxErrors = 1
  MaxDeaths = 1
  OutreachLeads = {"l"}
  Campaigns = {"queue", "ghl"}
  Destination <- DestinationOf
  Desks = {"d", "e"}
  PermissionRequests <- RequestSet
  MaxRetries = 2
  MaxLost = 1
  MaxCalls = 2
  Prospects <- ProspectRows
  Imports <- ImportSets
  Audits <- AuditSets
  Listings <- ListingSets
  Scorers = {"pipeline", "operator"}
  MaxTime = 1
  MaxSignals = 4
  MaxSnapshots = 2
  Demos = {"d"}
  Operators = {"u", "w"}
  Sessions = {"s"}
  DemoForms <- DemoFormSet
  LinkedProspects = {"p"}
  Homepages = {"home"}
  EventCap = 1
  MaxDemoVersions = 3
SPECIFICATION LeadsSpec
INVARIANT CompletedIsIngested
CHECK_DEADLOCK FALSE
