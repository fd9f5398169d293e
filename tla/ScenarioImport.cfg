SPECIFICATION Spec
CONSTANTS
  Scenario <- MCScenario
  Published = {"b"}
  GamePublished = TRUE
  MaxGames = 2
  MaxLevels = 3
  OtherMoves = 2
  Calls = 2
INVARIANTS
    ReportTellsTruth
    CompleteMeansEqual
PROPERTIES
    PublishedOnlyWhole
\* The calls that are made are bounded, and the last one ends.
CHECK_DEADLOCK FALSE
