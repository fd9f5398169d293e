SPECIFICATION PlaySpec
CONSTANTS
  Account = {"cap", "mate"}
  Captain = "cap"
  Level = {"l1", "l2", "sk", "new"}
  Line0 <- MCLine
  Def0 <- MCDefs
  EditCodes <- MCEdit
  Wrong = "zz"
  Master = "M"
  WrongTries = 2
  BreakTicks = 1
  BlockTicks = 1
  HintTicks = 2
  OfferTicks = 0
  BreaksAllowed = 1
  AbandonsAllowed = 1
  OrgMoves = 2
  Plans <- MCPlans
INVARIANTS
    LedgerBalances
    NoLevelSkipped
    PlayGoesOn
    OffersAreHonoured
PROPERTIES
    WhatIsShownStays
    CommandsActOnWhatTheySaw
