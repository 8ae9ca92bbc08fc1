SPECIFICATION Spec
CONSTANTS
    a = a
    b = b
    e1 = e1
    e2 = e2
    r1 = r1
    r2 = r2
    d1 = d1
    Node = {a, b}
    Egress = {e1, e2}
    Request = {r1, r2}
    Deletion = {d1}
    MaxPolls = 1
    NoNode = NoNode
SYMMETRY Symmetry
INVARIANTS
    TypeOK
    ReturnedWorks
    DeletedGone
    UidOnce
CHECK_DEADLOCK FALSE
