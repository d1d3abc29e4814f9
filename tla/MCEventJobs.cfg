\* Two events, two workers: lease races, lost answers, crashes and a requeue.
\* No symmetry: the run checks liveness too.
CONSTANTS
    Keys = {k1, k2}
    Payloads = {p1}
    NoEvent = NoEvent
    NoKey = NoKey
    Handlers = {recovery, agents}
    Required = {recovery}
    Workers = {w1, w2}
    MaxAttempts = 2
    MaxCrashes = 1
    MaxStalls = 1
    MaxRequeues = 1
SPECIFICATION FairSpec
INVARIANTS
    ClaimsAreFenced
    HandledExactlyOnce
PROPERTIES
    OnlyHolderSettles
    KeepsLedger
    EventuallySettled
\* The bounds stop the system once every job is settled.
CHECK_DEADLOCK FALSE
