SPECIFICATION Spec
CONSTANTS
    Items = {a}
    Threads = {t1, t2}
    MaxJobs = 1
    MaxEvents = 2
    Sections = {"managers", "players"}
INVARIANTS
    DetailsReconcile
    ShownIsSelected
PROPERTIES
    Coalesced
    PollEnds
CHECK_DEADLOCK FALSE
