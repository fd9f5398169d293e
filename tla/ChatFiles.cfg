\* Three saves of one chat, a DELETE, kills and restarts at every point.
SPECIFICATION FileSpec
CONSTANTS
    Saves = {w1, w2, w3}
    NoFile = NoFile
SYMMETRY SaveSymmetry
INVARIANTS
    NothingSavedIsLost
    DeletedStaysDeleted
\* A deleted or lost chat takes no further steps.
CHECK_DEADLOCK FALSE
