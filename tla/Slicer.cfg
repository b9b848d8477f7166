CONSTANTS
  Contents <- MCContents
  Usables = {0, 2, 3}
  MaxSlices = 3
SPECIFICATION FairSpec
INVARIANTS TypeOK EveryItemLandsOnce SlicesFitTheSheet LinearFlowIsNotSplit
PROPERTIES Terminates
CHECK_DEADLOCK FALSE
