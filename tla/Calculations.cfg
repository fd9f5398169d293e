SPECIFICATION Spec
CONSTANTS
    p1 = p1
    p2 = p2
    e1 = e1
    e2 = e2
    Pages = {p1, p2}
    Files = {"log", "picture"}
    BadFiles = {"picture"}
    Edits = {e1, e2}
    NoFile = NoFile
    MaxRequests = 4
    MaxLogs = 2
    MaxAgent = 1
SYMMETRY Symmetry
INVARIANTS
    NoEditLost
    ShownAsSaved
\* Every request a page may make can be spent.
CHECK_DEADLOCK FALSE
