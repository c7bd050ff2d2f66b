SPECIFICATION FairSpec
CONSTANTS
  NLayers = 5
  Walks <- FullWalks
INVARIANTS RTypeOK NoOverwrite NamedSlotsHold HintNeverWrong
  EveryOtherReadOverlaps
PROPERTIES BindsTheLayer BindReturns CloseReturns
