SPECIFICATION FairSpec
CONSTANTS
  f1 = f1
  f2 = f2
  Bad = Bad
  Wide = Wide
  MaxPc = 3
  Programs <- MCPrograms
  Functions = {f1, f2}
  MaxCalls = 2
  RangeLists <- MCRangeLists
  BadRange = Bad
  TooWide = Wide
  OptionLists <- MCOptionLists
  Extra = 3
  CallbackFails = TRUE
INVARIANTS TypeOK PhisMatchEdges TranslatedOnce FreedOnlyAfterCut ErrorFitsResult
PROPERTIES LostOnlyIfRefused ReachSpec EveryCallEnds
CHECK_DEADLOCK FALSE
