CONSTANTS
  TailLen = 100
  Shape <- MCShape
  Conns = {c1, c2}
  Workers = 1
  MaxRuns = 3
  MaxPanics = 1
SPECIFICATION FairSpec
INVARIANTS TypeOK CountIsExplained ShortLogReadsAsRuns
PROPERTIES StopEnds AcceptedIsTakenUp
CHECK_DEADLOCK FALSE
