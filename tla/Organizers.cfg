CONSTANTS
  Tab = {t1, t2}
  Org = {"a1", "ax", "b1"}
  LoginOf <- MCLoginOf
  Good = {"a1", "b1"}
  NoOrg = NoOrg
  FlagOrg = NoOrg
  NoTry = NoTry
  NoCopy = NoCopy
  Hand = {h1, h2}
  NoCall = NoCall
  NoForm = NoForm
  NoPage = NoPage
  Plans <- MCPlans
  Current = 1
SYMMETRY Hands
SPECIFICATION Spec
INVARIANTS
  ReportsAreTrue
  SignedOutIsForgotten
  RefusedIsNotKept
PROPERTIES
  OnlyNamedChange
CHECK_DEADLOCK FALSE
