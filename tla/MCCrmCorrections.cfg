\* The same contact and opportunity; an ignored version 1 event opens the
\* barrier for a version 2 observation.
CONSTANTS
    c1 = c1
    o1 = o1
    A = A
    m1 = m1
    Contacts = {c1}
    Opportunities = {o1}
    Connections = {A}
    ExternalIds = 1
    Members = {m1}
    NoRecord = NoRecord
    MaxTime = 3
    MaxWrites = 4
    MaxSkew = 0
SPECIFICATION Spec
PROPERTY NativeEditsProtected
CHECK_DEADLOCK FALSE
