CONSTANTS
    Generations = {"cases"}
    Cases = {c1, c2}
    Dispatches = {d1, d2}
    MaxMessages = 0
    Members = {m1}
    Agent = Agent
    Nobody = Nobody
    Communications = FALSE
    MaximumAttempts = 1
    MaxTransports = 1
    MaxActs = 2
    Helpers <- HelperSeq
    Deals = {1, 2}
    Happenings = {"e1", "e2"}
    Payments = {"pay"}
    StaleAfter = 1
    MaxCandidates = 1
    JobBudget = 1
    ReviewTime = 2
    LastDay = 2
    MaxTouches = 2
    Journeys = {"case"}
    Outcomes <- OutcomeSet
    CaseOf <- CaseMap
    KindOf <- KindMap
    Forms <- ClaimSet
    Value = 1
    Window = 0
    MaxTime = 1
    RecordKind <- KindSet
    Workbooks <- WorkbookSet
    NoLink = "nothing"
    Currencies = {"usd", "eur"}
    Positions = {0, 1}
    FieldKind = "tasks"
SPECIFICATION GenerationsSpec
SYMMETRY RecoverySymmetry
INVARIANTS
    OneUnresolvedPerContact
    HandoffMatchesCase
CHECK_DEADLOCK FALSE
