\* A START that is worked on when the customer has sent STOP again.
CONSTANTS
  Desks = {"bookings"}
  Occasions <- OccasionSet
  Word <- Words
  Transfer <- Transfers
  Scenarios <- ScenarioSet
  Servers = {"p", "q"}
  MaxLosses = 1
  Blueprints = {"b"}
  Proposals <- ProposalSet
  Suggestions <- SuggestionSet
  Admins = {"a", "c"}
  GenerationKeys = {"k"}
  Allowlists = {{"m"}}
  MaxVersions = 2
  MaxAgentVersions = 3
  MaxFaults = 1
  Sources = {"s"}
  Documents = {"d"}
  SourceOf <- SourceOfDocs
  Entries = {"e"}
  Provenance <- ProvenanceOf
  Readers = {"x", "y"}
  MaxRevision = 6
  Founder = "o"
  Members = {"o", "n"}
  Connections = {"x"}
  Credentials = {"c1", "c2"}
  CredentialLimit = 1
  Requests = {"q1", "q2"}
  People <- PersonSet
  Numbers = {"n1", "n2"}
  FirstNumber <- FirstNumbers
  Incoming <- TextSet
  Sender <- SenderMap
  AsksToStop <- StopMap
  Sends = {"m"}
SPECIFICATION DeskSpec
PROPERTY StopStands
CHECK_DEADLOCK FALSE
