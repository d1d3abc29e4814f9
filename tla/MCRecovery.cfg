CONSTANTS
    Generations = {"handoffs", "cases", "credit", "records"}
    Cases = {c1}
    Dispatches = {d1, d2}
    MaxMessages = 1
    Members = {m1}
    Agent = Agent
    Nobody = Nobody
    Communications = FALSE
    MaximumAttempts = 2
    MaxTransports = 2
    MaxActs = 1
    Helpers <- HelperSeq
    Deals = {1, 2}
    Happenings = {"e1", "e2"}
    Payments = {"pay"}
    StaleAfter = 1
    MaxCandidates = 1
    JobBudget = 1
    ReviewTime = 2
    LastDay = 2
    MaxTouches = 2
    Journeys = {"case"}
    Outcomes <- OutcomeSet
    CaseOf <- CaseMap
    KindOf <- KindMap
    Forms <- ClaimSet
    Value = 1
    Window = 0
    MaxTime = 1
    RecordKind <- KindSet
    Workbooks <- WorkbookSet
    NoLink = "nothing"
    Currencies = {"usd", "eur"}
    Positions = {0, 1}
    FieldKind = "tasks"
SPECIFICATION GenerationsSpec
SYMMETRY RecoverySymmetry
INVARIANTS
    DispatchIsEvidence
    UnknownFreezes
    HandoffsStand
    CreditIsEvidenced
    RecordsAgree
PROPERTIES
    StopIsHeeded
CHECK_DEADLOCK FALSE
