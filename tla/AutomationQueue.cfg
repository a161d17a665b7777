SPECIFICATION FairSpec

CONSTANTS
    Items = {i1, i2}
    Workers = {w1, w2}
    NoItem = NoItem
    MaxAttempts = 3

INVARIANTS
    CompletedWasExecuted
    DeadLetterSpentAttempts

PROPERTIES
    ImplementsLease
    SettledIsFinal
    EveryItemSettles
