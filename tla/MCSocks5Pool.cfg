SPECIFICATION Spec
CONSTANTS
    e1 = e1
    e2 = e2
    w1 = w1
    w2 = w2
    l1 = l1
    l2 = l2
    i1 = i1
    i2 = i2
    i3 = i3
    o1 = o1
    Entries = {e1, e2}
    MaxAllocations <- MCMaxAllocations
    Workers = {w1, w2}
    Releasers = {l1, l2}
    Ids = {i1, i2, i3}
    Orders = {o1}
    MaxQuantity = 2
    MaxOps = 1
    NoId = NoId
    NoOrder = NoOrder
SYMMETRY Symmetry
INVARIANTS
    TypeOK
    CounterMatches
    OversellBounded
    FreeIsAllocatable
    CompletedInFull
CHECK_DEADLOCK FALSE
