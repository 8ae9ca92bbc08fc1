SPECIFICATION Spec
CONSTANTS
    Handlers = {"h1", "h2"}
    RetryCount = 1
    MaxVersion = 2
    MaxRestarts = 1
INVARIANTS
    SyncHonoured
