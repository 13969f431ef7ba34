SPECIFICATION CoordinatorSpec
CONSTANTS
    Pubkeys = {alice}
    NoPubkey = NoPubkey
    Tasks = {t1}
    SlotChoices = {1}
    IdleSecs = 1
    MaxSignups = 1
    MaxRound = 1
    Horizon = 1
    MaxTime = 4
    MaxEvents = 2
    MaxDrops = 1
    MaxRestarts = 0
CHECK_DEADLOCK FALSE
PROPERTIES ReconnectsAfterFailure
