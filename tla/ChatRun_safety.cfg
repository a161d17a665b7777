SPECIFICATION Spec
CONSTANTS
    Runs = {x1}
    Requests = {q1, q2}
    None = None
    MaxEvents = 4
    Faults = {"lost", "failed", "crash"}
SYMMETRY Symmetry
INVARIANTS
    StopWins
    SuccessIsCommitted
    JournalAgrees
    CancelledIsStopped
PROPERTIES
    TerminalOnce
CHECK_DEADLOCK FALSE
