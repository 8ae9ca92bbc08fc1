SPECIFICATION FairSpec
CONSTANTS
    c1 = c1
    c2 = c2
    i1 = i1
    i2 = i2
    Clients = {c1, c2}
    Known = {c1}
    Inbounds = {i1, i2}
    Access <- MCAccess
    RetryCount = 1
    Loads <- MCLoads
INVARIANTS
    TypeOK
    Conservation
    ChartsWithinMetered
    UsedWithinBothPaths
PROPERTIES
    ImplementsMetering
    PipelineDrains
