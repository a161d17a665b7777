SPECIFICATION Spec
CONSTANTS
    Runs = {x1}
    Requests = {q1}
    None = None
    MaxEvents = 4
    Faults = {}
INVARIANTS
    ErasureLeavesNoRun
CHECK_DEADLOCK FALSE
