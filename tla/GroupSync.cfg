SPECIFICATION Spec
CONSTANTS
    Devices = {a, b, c}
    a = a
    b = b
    c = c
    FirstMembers <- FirstRosters
    NoGroup = NoGroup
    NoBaseline = NoBaseline
    NoKey = NoKey
    MaxMembers = 3
    MaxRetries = 1
    MaxEpoch = 2
    MaxSteps = 3
    MaxFaults = 1
CHECK_DEADLOCK FALSE
SYMMETRY Alike
INVARIANTS MembersAgreeWithChain RemovedMembersLoseTheSecret ChainStateIsKnown OwedIsRemembered
PROPERTIES EpochsMoveForward
