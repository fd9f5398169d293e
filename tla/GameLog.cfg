SPECIFICATION Spec
CONSTANTS
    a = a
    b = b
    Teams = {a, b}
    Levels = {"1.0", "2.0", "T"}
    Codes = {"c"}
    Minute = 6
    DefaultDur = 1
    Family <- FamilyDef
    Limit <- LimitDef
    NamedThrough = {"T"}
    NamedBonus = {}
    Pauses = {0, 7}
    MaxLog = 5
    MaxNotes = 1
SYMMETRY Symmetry
INVARIANTS
    ExportOrderIsForgotten
    LimitsAreRight
\* The log may be full.
CHECK_DEADLOCK FALSE
