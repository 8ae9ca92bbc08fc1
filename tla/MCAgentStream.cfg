SPECIFICATION Spec
CONSTANTS
    s1 = s1
    s2 = s2
    m1 = m1
    Stream = {s1, s2}
    Manual = {m1}
    MaxEdits = 2
    Invalid = {1}
    NoStream = NoStream
INVARIANTS
    StreamTypeOK
    KnowsWhatRuns
    Reachable
PROPERTIES
    Settles
CHECK_DEADLOCK FALSE
