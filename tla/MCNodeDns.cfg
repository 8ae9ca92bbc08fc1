SPECIFICATION DnsSpec
CONSTANTS
    n1 = n1
    n2 = n2
    d1 = d1
    d2 = d2
    p1 = p1
    p2 = p2
    r1 = r1
    r2 = r2
    r3 = r3
    Node = {n1, n2}
    Name = {d1, d2}
    Provider = {p1, p2}
    Cut = {p2}
    First <- MCFirst
    Keyword = {p2}
    Request = {r1, r2, r3}
    MaxAddr = 2
    MaxChanges = 2
    NoNode = NoNode
SYMMETRY Symmetry
INVARIANTS
    DnsTypeOK
    AnswersHold
CHECK_DEADLOCK FALSE
