\* Two fields, an author and an agent.
SPECIFICATION DraftSpec
CONSTANTS
    Fields = {f1, f2}
    Values = {Empty, b, c}
    Empty = Empty
    Nothing = Nothing
    Attempts = 2
    MaxTyped = 2
    MaxAgent = 1
    MaxSaves = 2
    MaxLost = 1
    MaxReloads = 1
SYMMETRY DraftSymmetry
INVARIANTS
    CreatesOnce
PROPERTIES
    EditsAreKept
    OverwritesKnowingly
