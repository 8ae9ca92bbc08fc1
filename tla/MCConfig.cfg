SPECIFICATION ConfigSpec
CONSTANTS
    Handlers = {"h1", "h2"}
    RetryCount = 1
    MaxVersion = 2
    MaxRestarts = 1
    MaxOutbounds = 2
    MaxRules = 3
    MaxKept = 6
INVARIANTS
    TypeOK
    XrayTypeOK
    RoutesKept
    
PROPERTIES
    ImplementsReplica
    EventuallyCurrent
