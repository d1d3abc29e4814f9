\* Providers that fail, answer late or not at all; workers that die.
CONSTANTS
  Services = {"messages", "demo", "outbox"}
  Deliveries = {d1}
  Workers = {w1, w2}
  NoDelivery = NoDelivery
  MaxSends = 3
  QueueLimit = 1
  MaxCrashes = 1
  Sessions = {s1}
  Requests = {q1, q2}
  Watchdog = Watchdog
  NoSession = NoSession
  MaxTurns = 2
  MaxActive = 1
  MaxStalls = 1
  MaxFaults = 1
  Endpoints = {"e", "f"}
  EndpointLimit = 1
  Posts <- PostSet
  Occurrences = {"event"}
  Wants <- WantsSet
  Allowance = 2
  Senders = {"w", "v"}
  MaxRevivals = 1
  MaxLapses = 1
SPECIFICATION ServicesSpec
INVARIANTS
  AtMostOneAcceptance
  StatusIsEvidence
  UsageBounded
  JournalIsTheTruth
PROPERTIES
  EveryMessageResolves
  TranscriptsGrow
  RecordedCallsEnd
  EveryPostEnds
CHECK_DEADLOCK FALSE
