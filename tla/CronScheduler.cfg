SPECIFICATION FairSpec

CONSTANTS
    Crons = {c1}
    Workers = {w1, w2}
    NoCron = NoCron
    MaxOccurrences = 2
    MaxClaims = 3

INVARIANTS
    TwiceOnlyAfterLapse
    PassedWasServed

PROPERTIES
    ImplementsLease
    DueIsServed
