SPECIFICATION FairSpec

CONSTANTS
    Tasks = {t1}
    Runners = {r1, r2}
    Tabs = {u1, u2}
    NoTask = NoTask
    MaxRuns = 3

INVARIANTS
    ReceiptOfThisAttempt
    VerdictHasEvidence
    ReportedUntilReviewed

PROPERTIES
    ImplementsLease
    ClaimNeverStuck

CHECK_DEADLOCK FALSE
