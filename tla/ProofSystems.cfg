SPECIFICATION SystemsSpec
CONSTANTS
    P = 41
    RootOfUnity = 3
    Adicity = 3
    Tau = 17
    K <- CosetShifts
    Statements <- MCStatements
    UsualAnswer <- Usual
    OtherAnswer <- Other
    UnusualAnswers <- Unusual
    MaxEvents = 1
    Depth = 2
    KMax = 2
    Keys = {1, 2, 3}
    MaxEpoch = 2
    Width = 2
    Asked <- RequestsUsed
CHECK_DEADLOCK FALSE
INVARIANTS HonestProofIsAccepted FalseProofNeedsLuck ChangeIsHashed CopiesAgree MembersProveInAnyOrder
    ClientsAgree FreedOnce
