SPECIFICATION Spec
CONSTANTS
    Jobs = {1}
    Targets = {t1}
    Target <- OneTarget
    Models = {m1}
    Model <- OneModel
    Workers = {w1}
    NoJob = NoJob
    Tokens = {1, 2, 3}
    MaxAttempts = 1
    Limit = 2
VIEW View
INVARIANTS
    FencedUntilReconciled
CHECK_DEADLOCK FALSE
