\* One contact, its opportunity, and a connection that speaks both versions.
CONSTANTS
    c1 = c1
    o1 = o1
    A = A
    m1 = m1
    Contacts = {c1}
    Opportunities = {o1}
    Connections = {A}
    ExternalIds = 1
    Members = {m1}
    NoRecord = NoRecord
    MaxTime = 3
    MaxWrites = 4
    MaxSkew = 0
SPECIFICATION Spec
INVARIANTS
    DelayedNewsLands
PROPERTIES
    CorrectionsStand
\* The bounds on writes and on the clock stop the system.
CHECK_DEADLOCK FALSE
