SPECIFICATION Spec
CONSTANTS
  Slot = {"s1", "s2"}
  Read = {"get_game"}
  Local = {"read_pdf"}
  Write = {"send_code"}
  Args = {"x", "y"}
  CanSignIn = TRUE
  MaxVersion = 1
  SourceBudget = 5
  TotalBudget = 6
  PerResult = 5
  Omitted = 1
  Suffix = 1
  Same = 1
  LoopSlot = "s1"
  MaxTurns = 2
  MaxAttempts = 2
  MaxCalls = 2
  Outcomes <- MCOutcomes
INVARIANTS
    AnswersAreFresh
    ChangesAreConfirmed
    ContextBounded
PROPERTIES
    RunEnds
