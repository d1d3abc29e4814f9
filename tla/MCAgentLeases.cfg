\* One run and two workers: lost leases, lost answers, crashes and deferrals.
CONSTANTS
    Runs = {r1}
    Inputs = {i1}
    Workers = {w1, w2}
    NoRun = NoRun
    NoWorker = NoWorker
    NoInput = NoInput
    MaxSteps = 2
    MaxActions = 1
    MaximumAttempts = 1
    MaxEdits = 1
    MaxVersions = 1
    MaxDeferrals = 1
    MaxStalls = 1
    MaxCrashes = 1
SPECIFICATION FairSpec
PROPERTIES
    RunsEnd
\* Every run may be finished.
CHECK_DEADLOCK FALSE
