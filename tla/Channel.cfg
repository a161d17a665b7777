SPECIFICATION Spec

CONSTANTS
    Events = {e1}
    Hosts = {h1, h2}
    Operator = Operator
    NoEvent = NoEvent
    Tokens = {1, 2, 3}
    MaxScheduled = 1
    MaxInflight = 1
    MaxRevision = 4

SYMMETRY Symmetry

INVARIANTS
    SentAtMostOnce
    RevokedNeverSent
    AnswerMatchesInbox

PROPERTIES
    SettledStays

CHECK_DEADLOCK FALSE
