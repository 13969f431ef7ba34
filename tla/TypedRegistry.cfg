SPECIFICATION Spec
CONSTANTS
    MinTtl = 1
    Ids = {g1}
    GroupFr <- MCGroupFr
    Kinds = {"anarchy", "tyranny", "oneonone", "democracy", "oligarchy"}
    Tiers = {0, 2}
    Depth <- MCDepth
    AdminDepth = 1
    Keys = {1, 2, 3}
    Rosters <- MCRosters
    Thresholds = {2}
    Counts = {1, 2}
    MaxGroups = 1
    Window = 1
    Threshold = 2
    Bump = 3
    MaxEpoch = 2
    MaxUpdates <- MCMaxUpdates
INVARIANTS PartsLiveTogether HistoryIsRecentEpochs CommitmentBindsRecord MembersCanProve
PROPERTIES ChangesAreAuthorised
