SPECIFICATION Spec
CONSTANTS
    MinTtl = 1
    Ids = {g1, g2}
    Commitments = {c1}
    Nonces = {1}
    Tiers = {0, 1}
    Capacity <- MCCapacity
    MemberCounts = {2}
    MaxGroups = 2
    Window = 1
    Threshold = 2
    Bump = 3
    MaxEpoch = 0
    Absent = Absent
SYMMETRY Symmetry
INVARIANTS CountCoversLive
