SPECIFICATION Spec
CONSTANTS
    Participants = {p1, p2}
    Q = 5
    Degree = 3
    SecretChoices <- SecretsUsed
    MaskChoices = {2}
    FaultChoices <- FaultsUsed
    MaxRounds = 2
    Requests = {t1, t2}
    Events = {e1, e2}
    Admins = {admin}
    Others = {guest}
    Heights = {100}
    Hashes = {h}
    Rounds = {1}
    Zkeys = {z1, z2}
    Null = Null
    MaxAge = 1
    MaxTime = 2
CHECK_DEADLOCK FALSE
SYMMETRY Symmetry
INVARIANTS SecretsFollowReceipts VerdictsAreExact AppliedOnce
PROPERTIES RoundKeepsItsBlob
