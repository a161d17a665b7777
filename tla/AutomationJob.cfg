SPECIFICATION FairSpec

CONSTANTS
    Jobs = {j1, j2}
    Executions = {x1, x2}
    NoJob = NoJob
    Steps = 2

INVARIANTS
    OutcomeConsistent
    RunningIsExecuted

PROPERTIES
    RunningEnds

CHECK_DEADLOCK FALSE
