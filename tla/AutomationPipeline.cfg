SPECIFICATION PipelineSpec

CONSTANTS
    Items = {i1}
    Workers = {w1, w2}
    NoItem = NoItem
    MaxAttempts = 2
    Tasks = {t1}
    Tabs = {u1}
    NoTask = NoTask
    MaxRuns = 2
    Callers = {c1}
    Target <- OneTask

SYMMETRY Symmetry

INVARIANTS
    CompletedLeavesEvidence
    RerunOnlyAfterReview

PROPERTIES
    TaskBehaves

CHECK_DEADLOCK FALSE
