SPECIFICATION XraySpec
CONSTANTS
    MaxOutbounds = 2
    MaxRules = 3
    MaxKept = 6
INVARIANT ValidIsPushed
