\* Members, customers and administrators who act on what they read before.
CONSTANTS
  Desks = {"bookings", "builder", "knowledge", "tenancy", "inbound"}
  Occasions <- OccasionSet
  Word <- Words
  Transfer <- Transfers
  Scenarios <- ScenarioSet
  Servers = {"p", "q"}
  MaxLosses = 1
  Blueprints = {"b"}
  Proposals <- ProposalSet
  Suggestions <- SuggestionSet
  Admins = {"a", "c"}
  GenerationKeys = {"k"}
  Allowlists = {{"m"}}
  MaxVersions = 2
  MaxAgentVersions = 3
  MaxFaults = 1
  Sources = {"s"}
  Documents = {"d"}
  SourceOf <- SourceOfDocs
  Entries = {"e"}
  Provenance <- ProvenanceOf
  Readers = {"x", "y"}
  MaxRevision = 6
  Founder = "o"
  Members = {"o", "n"}
  Connections = {"x"}
  Credentials = {"c1", "c2"}
  CredentialLimit = 1
  Requests = {"q1", "q2"}
  People <- PersonSet
  Numbers = {"n1", "n2"}
  FirstNumber <- FirstNumbers
  Incoming <- TextSet
  Sender <- SenderMap
  AsksToStop <- StopMap
  Sends = {"m"}
SPECIFICATION DeskSpec
INVARIANTS
  TextsOnce
PROPERTIES
  LinkedStopStands
  ActivatesWhatWasRead
  WithdrawnStaysOut
  MembersChangeInOffice
  NumberStopStands
CHECK_DEADLOCK FALSE
