\* Lead intelligence: imports, pipelines, delivery and the call desk, scores.
CONSTANTS
  Parts = {"ingestion", "pipeline", "outreach", "scoring", "demos"}
  Runs = {1, 2, 3}
  Kind <- Kinds
  Batch <- Batches
  Importers = {1, 2}
  Entities = {1, 2, 3, 4, 5, 6}
  Slots <- SlotSet
  UniqueSlots = {"place"}
  MaxFaults = 1
  Pipelines = {"r1"}
  Processes = {"p", "q"}
  Leads = {"l"}
  MaxErrors = 1
  MaxDeaths = 1
  OutreachLeads = {"l"}
  Campaigns = {"queue", "ghl"}
  Destination <- DestinationOf
  Desks = {"d", "e"}
  PermissionRequests <- RequestSet
  MaxRetries = 2
  MaxLost = 1
  MaxCalls = 2
  Prospects <- ProspectRows
  Imports <- ImportSets
  Audits <- AuditSets
  Listings <- ListingSets
  Scorers = {"pipeline", "operator"}
  MaxTime = 1
  MaxSignals = 4
  MaxSnapshots = 2
  Demos = {"d"}
  Operators = {"u", "w"}
  Sessions = {"s"}
  DemoForms <- DemoFormSet
  LinkedProspects = {"p"}
  Homepages = {"home"}
  EventCap = 1
  MaxDemoVersions = 3
SPECIFICATION LeadsSpec
INVARIANTS
  TasksRunOnce
  DeliveriesAreAsked
  
  PublishedWasReviewed
PROPERTIES
  NewBusinessIsNew
  ActivityNeverHurts
  PipelinesSettle
CHECK_DEADLOCK FALSE
