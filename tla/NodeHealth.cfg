SPECIFICATION Spec
CONSTANTS
    Timeout = 3
    CheckEvery = 2
    Unhealthy = 3
    Healthy = 2
    MaxFailures = 1
    MaxEdits = 2
INVARIANTS
    TypeOK
    DeadIsOut
    OverloadStaysOut
PROPERTIES
    Recovers
CHECK_DEADLOCK FALSE
