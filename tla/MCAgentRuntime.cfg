\* Two runs of one agent on one subject, served by one worker: proposals,
\* approvals and budgets side by side.
CONSTANTS
    Runs = {r1, r2}
    Inputs = {i1, i2}
    Workers = {w1}
    NoRun = NoRun
    NoWorker = NoWorker
    NoInput = NoInput
    MaxSteps = 2
    MaxActions = 1
    MaximumAttempts = 1
    MaxEdits = 1
    MaxVersions = 2
    MaxDeferrals = 0
    MaxStalls = 1
    MaxCrashes = 0
SPECIFICATION Spec
SYMMETRY AgentSymmetry
INVARIANTS
    WaitsForItsApproval
    ExecutedWithinBudget
PROPERTIES
    OnlyCurrentAgentActs
\* Every run may be finished.
CHECK_DEADLOCK FALSE
