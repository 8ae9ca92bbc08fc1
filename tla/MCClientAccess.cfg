SPECIFICATION Spec
CONSTANTS
    c1 = c1
    c2 = c2
    t1 = t1
    t2 = t2
    r1 = r1
    r2 = r2
    Client = {c1, c2}
    Tag = {t1, t2}
    Request = {r1, r2}
    MaxCred = 1
    Missing = Missing
    Gone = Gone
SYMMETRY Symmetry
INVARIANTS
    TypeOK
    EditsServed
    CopiesAgree
CHECK_DEADLOCK FALSE
