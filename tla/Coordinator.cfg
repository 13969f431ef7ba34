SPECIFICATION CoordinatorSpec
CONSTANTS
    Pubkeys = {alice}
    NoPubkey = NoPubkey
    Tasks = {t1}
    SlotChoices = {1}
    IdleSecs = 1
    MaxSignups = 2
    MaxRound = 1
    Horizon = 1
    MaxTime = 4
    MaxEvents = 4
    MaxDrops = 2
    MaxRestarts = 1
CHECK_DEADLOCK FALSE
PROPERTIES ClaimEnds QueueDrains EventsReachTheRelay
