SPECIFICATION Spec
CONSTANTS
    MinTtl = 1
    Ids = {g1}
    Commitments = {c1, c2}
    Nonces = {1}
    Tiers = {0}
    Capacity <- MCCapacity
    MemberCounts = {2, 3}
    MaxGroups = 1
    Window = 1
    Threshold = 2
    Bump = 3
    MaxEpoch = 2
    Absent = Absent
SYMMETRY Symmetry
INVARIANTS HistoryIsRecentEpochs
PROPERTIES ChangesAreAuthorised ImplementsLedger
