SPECIFICATION Spec
CONSTANTS
    s1 = s1
    s2 = s2
    vmess = vmess
    trojan = trojan
    Protocol <- MCProtocol
    Slot = {s1, s2}
    MaxCrashes = 1
    Prompt = TRUE
    User = {vmess, trojan}
    Vision = {}
    MaxCred = 2
    MaxEdits = 2
    MaxFailures = 1
INVARIANTS
    AgentTypeOK
    NoOrphan
    AppliedAfterPoll
    HotSyncComplete
    NoStaleLimit
PROPERTIES
    Repaired
