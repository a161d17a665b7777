SPECIFICATION FairSpec

CONSTANTS
    Workers = {w1, w2}
    Calls = {c1, c2}
    Operators = {k1}
    NoWorker = NoWorker
    NoCall = NoCall
    LedgerSettings = {TRUE, FALSE}
    Faults = {"down", "failed", "lost", "crash"}

INVARIANTS
    AcceptedCancelWins
    SharedRunExclusive
    SharedAgrees
    LedgerRunsOnce

PROPERTIES
    RemoteCancelResolves

CHECK_DEADLOCK FALSE
