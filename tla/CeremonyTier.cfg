SPECIFICATION BoundedSpec
CONSTANTS
    Pubkeys = {alice, bob}
    NoPubkey = NoPubkey
    Tasks = {t1, t2}
    SlotChoices = {1, 2}
    IdleSecs = 1
    MaxSignups = 2
    MaxRound = 2
    Horizon = 1
    MaxTime = 2
CHECK_DEADLOCK FALSE
SYMMETRY Symmetry
INVARIANTS AtMostOneLiveClaim EventChain
PROPERTIES FifoClaim StatusLifecycle ImplementsTranscript
