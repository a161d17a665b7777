SPECIFICATION FairSpec
CONSTANTS
    Runs = {x1}
    Requests = {q1}
    None = None
    MaxEvents = 4
    Faults = {"lost", "failed", "crash"}
PROPERTIES
    StopResolves
CHECK_DEADLOCK FALSE
