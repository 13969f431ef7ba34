SPECIFICATION Spec
CONSTANTS
    Slots = {s1, s2}
    Clients = {ip1, ip2}
    Requested <- RequestsUsed
    AuthTokens = {"t"}
    ContractId = contract
    Missing = Missing
    Malformed = Malformed
    MaxPerMinute = 1
    Window = 2
    MaxClock = 2
    MaxServed = 3
    MaxRelayerRestarts = 1
    MinTtl = 3
    KeyTiers = {0, 1}
    KeyTierArgs = {0, 1, 3}
    GroupTypeArgs = {2, 3}
    KeyData <- KeysOffered
    KeyThreshold = 2
    KeyBump = 4
    NoKey = NoKey
    MaxRotations = 2
    Subs = {"ios", "fcm", "up", "local", "short"}
    BodyOf <- BodiesUsed
    Short = Short
    NoFile = NoFile
    NoEntry = NoEntry
    NoPush = NoPush
    Undeciphered = Undeciphered
    JwtRefresh = 2
    JwtLife = 3
    FcmMargin = 2
    FcmLives = {3}
    Prompt = 1
    MaxDelay = 2
    MaxRuns = 2
    MaxFailures = 1
CHECK_DEADLOCK FALSE
SYMMETRY Symmetry
INVARIANTS AloneIsSentAsItCame WatchedKeysLive PushesReachTheDevice
