CONSTANTS
  TailLen = 100
  Shape <- MCShape
  Conns = {c1, c2}
  Workers = 1
  MaxRuns = 2
  MaxPanics = 1
SPECIFICATION Spec
INVARIANTS IdleCountsNothing
CHECK_DEADLOCK FALSE
