SPECIFICATION Spec
CONSTANTS
    Jobs = {1, 2}
    Targets = {t1}
    Target <- OneTarget
    Models = {m1}
    Model <- OneModel
    Workers = {w1, w2}
    NoJob = NoJob
    Tokens = {1, 2, 3}
    MaxAttempts = 1
    Limit = 2
SYMMETRY Symmetry
VIEW View
CONSTRAINT Undoubled
INVARIANTS
    OneTargetOwner
    InstallIntact
    PreviousSurvives
    RefusedNotInstalled
CHECK_DEADLOCK FALSE
